------------------------------ MODULE CacheData ------------------------------
(***************************************************************************)
(* The OrderedDict inside algorandscout.cache.TTLCache, as operators on a  *)
(* sequence of entries.  The sequence is the dictionary in its own order:  *)
(* popitem(last=False) takes the first entry, move_to_end makes an entry   *)
(* the last one.  An entry is the item (kind, key) -> (stored_at, value).  *)
(*                                                                         *)
(* TTLCache (the lock-protected object with its counters) and ReadThrough  *)
(* (the handlers that fill it) are both built from these operators.        *)
(***************************************************************************)
EXTENDS Naturals, SequencesExt

CONSTANTS
    Kinds,       (* every kind of data a caller may name                   *)
    Keys,        (* the identifiers used within a kind                     *)
    TTL,         (* TTL_SECONDS: kind -> seconds; its domain is cacheable  *)
    MaxEntries   (* max_entries, one bound for the whole dictionary        *)

ASSUME CacheAssumption ==
    /\ TTL \in [DOMAIN TTL -> Nat]
    /\ DOMAIN TTL \subseteq Kinds
    /\ MaxEntries \in Nat \ {0}

Cacheable == DOMAIN TTL

\* The composite key (kind, key): an asset, an application and a round may
\* share the same integer, so the kind is part of the identity.
Ids == Kinds \X Keys

IsForMutant(entry, id) == entry.id[2] = id[2]             \* forgets the kind
IsFor(entry, id) == entry.id = id

Holds(data, id) == \E i \in DOMAIN data : IsFor(data[i], id)

Position(data, id) == CHOOSE i \in DOMAIN data : IsFor(data[i], id)

EntryFor(data, id) == data[Position(data, id)]

\* del self._data[composite]
Without(data, id) ==
    IF Holds(data, id) THEN RemoveAt(data, Position(data, id)) ELSE data

\* self._now() - stored_at > ttl
TooOldMutant(entry, now) == now - entry.storedAt >= TTL[entry.id[1]]
TooOld(entry, now) == now - entry.storedAt > TTL[entry.id[1]]

\* move_to_end(composite): the entry itself, its stored_at included, unchanged.
TouchedMutant(data, id) == data                           \* FIFO, not LRU
Touched(data, id) == Append(Without(data, id), EntryFor(data, id))

\* while len(self._data) > self._max: self._data.popitem(last=False)
Trimmed(data) ==
    IF Len(data) > MaxEntries
    THEN SubSeq(data, Len(data) - MaxEntries + 1, Len(data)) ELSE data

\* self._data[composite] = (now, value); self._data.move_to_end(composite)
Stored(data, id, now, value) ==
    Append(Without(data, id), [id |-> id, storedAt |-> now, value |-> value])
==============================================================================
