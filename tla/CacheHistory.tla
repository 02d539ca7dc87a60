----------------------------- MODULE CacheHistory -----------------------------
(***************************************************************************)
(* TTLCache driven by arbitrary legal calls, with history variables that   *)
(* record what became of every identifier.  The history never guards a     *)
(* cache step: it lets the properties relate a lookup to the sets, hits    *)
(* and evictions before it.                                                *)
(***************************************************************************)
EXTENDS TTLCache, FiniteSets

CONSTANTS
    MaxCalls,        (* bound: calls made on the cache                     *)
    MaxTime          (* bound: ticks of the clock                          *)

ASSUME HistoryAssumption == MaxCalls \in Nat /\ MaxTime \in Nat

VARIABLES
    calls,           (* calls made so far                                  *)
    inserted,        (* sets that added an identifier not already held     *)
    cleared,         (* entries discarded by clear()                       *)
    setAt,           (* id -> the time of its last set                     *)
    touched,         (* id -> other ids set or hit since id last was       *)
    fate             (* id -> what became of it after its last set         *)

history == <<calls, inserted, cleared, setAt, touched, fate>>
vars == <<data, stats, now, calls, inserted, cleared, setAt, touched, fate>>

Fates == {"never", "held", "evicted", "expired", "cleared"}

Init ==
    /\ CacheInit
    /\ calls = 0
    /\ inserted = 0
    /\ cleared = 0
    /\ setAt = [id \in Ids |-> 0]
    /\ touched = [id \in Ids |-> {}]
    /\ fate = [id \in Ids |-> "never"]

\* id has just become the most recently used identifier.
Used(id) ==
    touched' = [x \in Ids |-> IF x = id THEN {} ELSE touched[x] \cup {id}]

Call == calls < MaxCalls /\ calls' = calls + 1

------------------------------------------------------------------------------
LookupUndeclared(id) ==
    /\ Call
    /\ GetUndeclared(id)
    /\ UNCHANGED <<inserted, cleared, setAt, touched, fate>>

LookupMiss(id) ==
    /\ Call
    /\ GetMiss(id)
    /\ UNCHANGED <<inserted, cleared, setAt, touched, fate>>

LookupExpired(id) ==
    /\ Call
    /\ GetExpired(id)
    /\ fate' = [fate EXCEPT ![id] = "expired"]
    /\ UNCHANGED <<inserted, cleared, setAt, touched>>

LookupHit(id) ==
    /\ Call
    /\ GetHit(id)
    /\ Used(id)
    /\ UNCHANGED <<inserted, cleared, setAt, fate>>

StoreRefused(id) ==
    /\ Call
    /\ SetRefused(id)
    /\ UNCHANGED <<inserted, cleared, setAt, touched, fate>>

Store(id, value) ==
    /\ Call
    /\ Set(id, value)
    /\ Used(id)
    /\ inserted' = inserted + (IF Holds(data, id) THEN 0 ELSE 1)
    /\ setAt' = [setAt EXCEPT ![id] = now]
    /\ fate' = [x \in Ids |->
                  CASE Holds(data', x) -> "held"
                    [] ~Holds(data', x) /\ Holds(data, x) -> "evicted"
                    [] OTHER -> fate[x]]
    /\ UNCHANGED cleared

ClearAll ==
    /\ Call
    /\ Clear
    /\ cleared' = cleared + Len(data)
    /\ fate' = [x \in Ids |-> IF Holds(data, x) THEN "cleared" ELSE fate[x]]
    /\ UNCHANGED <<inserted, setAt, touched>>

PassTime ==
    /\ now < MaxTime
    /\ Tick
    /\ UNCHANGED history

Next ==
    \/ \E id \in Ids :
          \/ LookupUndeclared(id)
          \/ LookupMiss(id)
          \/ LookupExpired(id)
          \/ LookupHit(id)
          \/ StoreRefused(id)
          \/ \E value \in Values : Store(id, value)
    \/ ClearAll
    \/ PassTime

Spec == Init /\ [][Next]_vars

------------------------------------------------------------------------------
(* Type invariant; the dictionary has one bound, for all kinds together.   *)
TypeOK ==
    /\ data \in Seq(Entries) /\ Len(data) <= MaxEntries
    /\ stats \in Counters
    /\ now \in Nat
    /\ calls \in Nat
    /\ inserted \in Nat
    /\ cleared \in Nat
    /\ setAt \in [Ids -> Nat]
    /\ touched \in [Ids -> SUBSET Ids]
    /\ fate \in [Ids -> Fates]

\* What /metrics reports adds up: each identifier that was ever added is
\* still held, or was counted as exactly one eviction or expiration, or went
\* in a clear().  An entry that is dropped without being counted, or counted
\* twice, breaks it.
Conservation ==
    inserted = Len(data) + stats.evictions + stats.expirations + cleared

\* The LRU guarantee of the class docstring: an identifier is lost to
\* eviction only if MaxEntries other identifiers were set or hit since it was
\* last used itself.  A caller that keeps fewer identifiers in rotation never
\* pays for an eviction.
WorkingSet ==
    \A id \in Ids :
        fate[id] = "evicted" => Cardinality(touched[id]) >= MaxEntries

\* "Sized ... per kind of data" (cache.py:4, and the name of
\* MAX_ENTRIES_PER_KIND): an identifier is lost to eviction only if MaxEntries
\* others of its own kind were set or hit since it was last used.
SizedPerKind ==
    \A id \in Ids :
        fate[id] = "evicted" =>
            Cardinality({other \in touched[id] : other[1] = id[1]}) >= MaxEntries

\* The age of an entry counts from its last set: a hit neither refreshes nor
\* shortens its life, so an identifier is gone as expired only when more than
\* its kind's TTL has passed since it was last set.
AgeFromLastSet ==
    /\ \A i \in DOMAIN data : data[i].storedAt = setAt[data[i].id]
    /\ \A id \in Ids :
          fate[id] = "expired" => now - setAt[id] > TTL[id[1]]
==============================================================================
