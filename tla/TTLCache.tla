------------------------------- MODULE TTLCache -------------------------------
(***************************************************************************)
(* algorandscout.cache.TTLCache: a dictionary bounded by MaxEntries with a *)
(* time-to-live per kind and four counters.  Every method body runs under  *)
(* one lock (and between two awaits of one event loop), so one call is one *)
(* step.  The actions are the outcomes of get, then set and clear.         *)
(***************************************************************************)
EXTENDS CacheData

CONSTANT Values      (* what callers store; the cache never looks inside   *)

VARIABLES
    data,            (* self._data                                         *)
    stats,           (* self.stats                                         *)
    now              (* time.monotonic(), in ticks                         *)

cacheVars == <<data, stats, now>>

Counters == [hits : Nat, misses : Nat, evictions : Nat, expirations : Nat]

Entries == [id : Cacheable \X Keys, storedAt : Nat, value : Values]

CacheInit ==
    /\ data = <<>>
    /\ stats = [hits |-> 0, misses |-> 0, evictions |-> 0, expirations |-> 0]
    /\ now = 0

------------------------------------------------------------------------------
(* get(kind, key)                                                          *)

\* A kind with no declared TTL is always a miss, and not even counted as one.
GetUndeclared(id) ==
    /\ id[1] \notin Cacheable
    /\ UNCHANGED cacheVars

GetMiss(id) ==
    /\ id[1] \in Cacheable
    /\ ~Holds(data, id)
    /\ stats' = [stats EXCEPT !.misses = @ + 1]
    /\ UNCHANGED <<data, now>>

GetExpiredMutant(id) ==                   \* counts the entry, never deletes it
    /\ Holds(data, id)
    /\ TooOld(EntryFor(data, id), now)
    /\ stats' = [stats EXCEPT !.expirations = @ + 1, !.misses = @ + 1]
    /\ UNCHANGED <<data, now>>

GetExpired(id) ==
    /\ Holds(data, id)
    /\ TooOld(EntryFor(data, id), now)
    /\ data' = Without(data, id)
    /\ stats' = [stats EXCEPT !.expirations = @ + 1, !.misses = @ + 1]
    /\ UNCHANGED now

GetHit(id) ==
    /\ Holds(data, id)
    /\ ~TooOld(EntryFor(data, id), now)
    /\ data' = Touched(data, id)
    /\ stats' = [stats EXCEPT !.hits = @ + 1]
    /\ UNCHANGED now

------------------------------------------------------------------------------
(* set(kind, key, value) and clear()                                       *)

SetRefused(id) ==
    /\ id[1] \notin Cacheable
    /\ UNCHANGED cacheVars

SetAnyKindMutant(id, value) ==                       \* stores undeclared kinds
    LET grown == Stored(data, id, now, value)
    IN  /\ data' = Trimmed(grown)
        /\ stats' = [stats EXCEPT !.evictions = @ + (Len(grown) - Len(Trimmed(grown)))]
        /\ UNCHANGED now

\* Each turn of the eviction loop pops one entry and counts one eviction.
Set(id, value) ==
    /\ id[1] \in Cacheable
    /\ LET grown == Stored(data, id, now, value)
       IN  /\ data' = Trimmed(grown)
           /\ stats' = [stats EXCEPT !.evictions =
                            @ + (Len(grown) - Len(Trimmed(grown)))]
    /\ UNCHANGED now

Clear ==
    /\ data' = <<>>
    /\ UNCHANGED <<stats, now>>

------------------------------------------------------------------------------
\* Time passes between calls; nothing in the cache runs on a timer.
Tick ==
    /\ now' = now + 1
    /\ UNCHANGED <<data, stats>>
==============================================================================
