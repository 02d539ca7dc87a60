-------------------------- MODULE CacheHistoryProofs --------------------------
(***************************************************************************)
(* TypeOK, Conservation, WorkingSet and AgeFromLastSet are                 *)
(* invariants of CacheHistory for every set of kinds, keys and values,     *)
(* every TTL table and every capacity.                                     *)
(*                                                                         *)
(* WorkingSet is not inductive by itself.  What makes it so is             *)
(* RecencyOrder: the identifiers behind an entry in the dictionary have    *)
(* all been used since that entry was.  The entry the eviction loop pops   *)
(* is the first, so the MaxEntries others all count against it.            *)
(***************************************************************************)
EXTENDS CacheHistory, CacheDataProofs, FiniteSetTheorems

\* The two halves of TypeOK.
Typed ==
    /\ data \in Seq(Entries)
    /\ stats \in Counters
    /\ now \in Nat
    /\ calls \in Nat
    /\ inserted \in Nat
    /\ cleared \in Nat
    /\ setAt \in [Ids -> Nat]
    /\ touched \in [Ids -> SUBSET Ids]
    /\ fate \in [Ids -> Fates]

WithinCapacity == Len(data) <= MaxEntries

RecencyOrder ==
    \A i, j \in DOMAIN data : i < j => data[j].id \in touched[data[i].id]

FateMatches ==
    \A id \in Ids : /\ fate[id] = "held" <=> Holds(data, id)
                    /\ fate[id] # "never" => id[1] \in Cacheable

FiniteTouched == \A id \in Ids : IsFiniteSet(touched[id])

IInv ==
    /\ Typed
    /\ Distinct(data)
    /\ WithinCapacity
    /\ Conservation
    /\ AgeFromLastSet
    /\ RecencyOrder
    /\ FateMatches
    /\ FiniteTouched
    /\ WorkingSet

------------------------------------------------------------------------------
\* What each way of counting does to the four counters.
LEMMA CounterUpdates ==
    ASSUME NEW c \in Counters, NEW n \in Nat
    PROVE  /\ LET d == [c EXCEPT !.misses = @ + 1]
              IN  /\ d \in Counters
                  /\ d.evictions = c.evictions /\ d.expirations = c.expirations
           /\ LET d == [c EXCEPT !.hits = @ + 1]
              IN  /\ d \in Counters
                  /\ d.evictions = c.evictions /\ d.expirations = c.expirations
           /\ LET d == [c EXCEPT !.expirations = @ + 1, !.misses = @ + 1]
              IN  /\ d \in Counters
                  /\ d.evictions = c.evictions /\ d.expirations = c.expirations + 1
           /\ LET d == [c EXCEPT !.evictions = @ + n]
              IN  /\ d \in Counters
                  /\ d.evictions = c.evictions + n /\ d.expirations = c.expirations
           /\ c.evictions \in Nat /\ c.expirations \in Nat
<1>1. LET d == [c EXCEPT !.misses = @ + 1]
      IN  /\ d \in Counters
          /\ d.evictions = c.evictions /\ d.expirations = c.expirations
    BY DEF Counters
<1>2. LET d == [c EXCEPT !.hits = @ + 1]
      IN  /\ d \in Counters
          /\ d.evictions = c.evictions /\ d.expirations = c.expirations
    BY DEF Counters
<1>3. LET d == [c EXCEPT !.expirations = @ + 1, !.misses = @ + 1]
      IN  /\ d \in Counters
          /\ d.evictions = c.evictions /\ d.expirations = c.expirations + 1
  <2> DEFINE a == [c EXCEPT !.expirations = @ + 1]
             d == [c EXCEPT !.expirations = @ + 1, !.misses = @ + 1]
  <2>1. /\ a \in Counters
        /\ a.evictions = c.evictions /\ a.expirations = c.expirations + 1
      BY DEF Counters
  <2>2. d = [a EXCEPT !.misses = @ + 1]
      OBVIOUS
  <2> HIDE DEF a
  <2>3. [a EXCEPT !.misses = @ + 1] \in Counters
      BY <2>1 DEF Counters
  <2>4. /\ [a EXCEPT !.misses = @ + 1].evictions = a.evictions
        /\ [a EXCEPT !.misses = @ + 1].expirations = a.expirations
      BY <2>1 DEF Counters
  <2> QED
      BY <2>1, <2>2, <2>3, <2>4
<1>4. LET d == [c EXCEPT !.evictions = @ + n]
      IN  /\ d \in Counters
          /\ d.evictions = c.evictions + n /\ d.expirations = c.expirations
    BY DEF Counters
<1>5. c.evictions \in Nat /\ c.expirations \in Nat
    BY DEF Counters
<1> QED
    BY <1>1, <1>2, <1>3, <1>4, <1>5

\* The entries of a well-typed dictionary have declared identifiers.
LEMMA EntryTypes ==
    ASSUME Typed
    PROVE  /\ DOMAIN data = 1 .. Len(data)
           /\ Len(data) \in Nat
           /\ \A i \in 1 .. Len(data) :
                 /\ data[i] \in Entries
                 /\ data[i].id \in Ids
                 /\ data[i].id[1] \in Cacheable
                 /\ data[i].storedAt \in Nat
<1>1. data \in Seq(Entries)
    BY DEF Typed
<1>2. \A i \in 1 .. Len(data) : data[i] \in Entries
    BY <1>1, ElementOfSeq
<1>3. \A e \in Entries : e.id \in Ids /\ e.id[1] \in Cacheable /\ e.storedAt \in Nat
    BY CacheAssumption DEF Entries, Ids, Cacheable
<1> QED
    BY <1>1, <1>2, <1>3, LenProperties

\* An identifier that is held is a declared one.
LEMMA HeldIsId ==
    ASSUME Typed, NEW x, Holds(data, x)
    PROVE  x \in Ids /\ x[1] \in Cacheable
BY EntryTypes DEF Holds, IsFor

\* n + 1 distinct entries, all but the first in a finite set T, show that T
\* has at least n elements.
LEMMA DistinctCount ==
    ASSUME NEW S, NEW s \in Seq(S), NEW n \in Nat, Len(s) = n + 1, Distinct(s),
           NEW T, IsFiniteSet(T), \A j \in 2 .. n + 1 : s[j].id \in T
    PROVE  Cardinality(T) >= n
<1> DEFINE f == [j \in 2 .. n + 1 |-> s[j].id]
<1>1. DOMAIN s = 1 .. n + 1
    BY LenProperties
<1>2. \A i, j \in 2 .. n + 1 : s[i].id = s[j].id => i = j
    BY <1>1 DEF Distinct
<1>3. f \in Injection(2 .. n + 1, T)
    BY <1>2 DEF Injection, IsInjective
<1>4. Cardinality(2 .. n + 1) <= Cardinality(T)
    BY <1>3, FS_Injection
<1>5. Cardinality(2 .. n + 1) = n
  <2>1. 2 \in Int /\ n + 1 \in Int
      OBVIOUS
  <2>2. Cardinality(2 .. n + 1) = IF 2 > n + 1 THEN 0 ELSE (n + 1) - 2 + 1
      BY <2>1, FS_Interval
  <2> QED
      BY <2>2
<1>6. Cardinality(T) \in Nat
    BY FS_CardinalityType
<1> QED
    BY <1>4, <1>5, <1>6

\* Recording a use of id keeps every set of the history finite and typed, and
\* takes nothing out of the set of another identifier.
LEMMA UsedFacts ==
    ASSUME Typed, FiniteTouched, NEW id \in Ids, Used(id)
    PROVE  /\ touched' \in [Ids -> SUBSET Ids]
           /\ FiniteTouched'
           /\ \A x \in Ids : x # id => /\ touched[x] \subseteq touched'[x]
                                       /\ id \in touched'[x]
                                       /\ Cardinality(touched'[x]) >= Cardinality(touched[x])
<1>1. touched \in [Ids -> SUBSET Ids]
    BY DEF Typed
<1>2. touched' = [x \in Ids |-> IF x = id THEN {} ELSE touched[x] \cup {id}]
    BY DEF Used
<1>3. touched' \in [Ids -> SUBSET Ids]
    BY <1>1, <1>2
<1>4. ASSUME NEW x \in Ids, x # id
      PROVE  /\ touched'[x] = touched[x] \cup {id}
             /\ IsFiniteSet(touched'[x])
             /\ Cardinality(touched'[x]) >= Cardinality(touched[x])
  <2>1. touched'[x] = touched[x] \cup {id}
      BY <1>2, <1>4
  <2>2. IsFiniteSet(touched[x])
      BY DEF FiniteTouched
  <2>3. /\ IsFiniteSet(touched[x] \cup {id})
        /\ Cardinality(touched[x] \cup {id}) =
              IF id \in touched[x] THEN Cardinality(touched[x]) ELSE Cardinality(touched[x]) + 1
      BY <2>2, FS_AddElement
  <2>4. Cardinality(touched[x]) \in Nat
      BY <2>2, FS_CardinalityType
  <2> QED
      BY <2>1, <2>3, <2>4
<1>5. FiniteTouched'
  <2>1. touched'[id] = {}
      BY <1>2
  <2> QED
      BY <2>1, <1>4, FS_EmptySet DEF FiniteTouched
<1> QED
    BY <1>3, <1>4, <1>5

\* Deleting an entry leaves the dictionary in recency order.
LEMMA WithoutOrder ==
    ASSUME Typed, RecencyOrder, NEW id, Holds(data, id)
    PROVE  \A i, j \in 1 .. Len(data) - 1 :
              i < j => Without(data, id)[j].id \in touched[Without(data, id)[i].id]
<1> DEFINE p == Position(data, id)
<1>1. /\ data \in Seq(Entries)
      /\ DOMAIN data = 1 .. Len(data)
      /\ Len(data) \in Nat
    BY EntryTypes DEF Typed
<1>2. p \in 1 .. Len(data)
    BY <1>1, PositionFacts
<1>3. \A k \in 1 .. Len(data) - 1 : Without(data, id)[k] = data[Shift(p, k)]
    BY <1>1, WithoutFacts
<1> SUFFICES ASSUME NEW i \in 1 .. Len(data) - 1, NEW j \in 1 .. Len(data) - 1, i < j
             PROVE  data[Shift(p, j)].id \in touched[data[Shift(p, i)].id]
    BY <1>3
<1> HIDE DEF p
<1>4. /\ Shift(p, i) \in 1 .. Len(data)
      /\ Shift(p, j) \in 1 .. Len(data)
      /\ Shift(p, i) < Shift(p, j)
    BY <1>1, <1>2, ShiftMonotone
<1> QED
    BY <1>1, <1>4 DEF RecencyOrder

\* After a hit or a write of id the dictionary is in recency order again.
LEMMA RefreshedOrder ==
    ASSUME Typed, Distinct(data), RecencyOrder, FiniteTouched,
           NEW id \in Ids, NEW e \in Entries, e.id = id, Used(id)
    PROVE  LET new == Append(Without(data, id), e)
           IN  \A i, j \in 1 .. Len(new) : i < j => new[j].id \in touched'[new[i].id]
<1> DEFINE rest == Without(data, id)
           new == Append(rest, e)
<1>1. data \in Seq(Entries) /\ DOMAIN data = 1 .. Len(data) /\ Len(data) \in Nat
    BY EntryTypes DEF Typed
<1>2. /\ new \in Seq(Entries)
      /\ Len(new) = Len(rest) + 1
      /\ new[Len(new)] = e
      /\ \A k \in 1 .. Len(new) - 1 : new[k] = rest[k] /\ new[k].id # id
      /\ Len(new) = Len(data) + (IF Holds(data, id) THEN 0 ELSE 1)
  <2>1. LET grown == Append(Without(data, id), e)
        IN  /\ grown \in Seq(Entries)
            /\ Len(grown) = Len(data) + (IF Holds(data, id) THEN 0 ELSE 1)
            /\ Len(grown) = Len(Without(data, id)) + 1
            /\ grown[Len(grown)] = e
            /\ \A k \in 1 .. Len(grown) - 1 : grown[k] = Without(data, id)[k]
            /\ \A k \in 1 .. Len(grown) - 1 : grown[k].id # id
      BY <1>1, RefreshedFacts
  <2> QED
      BY <2>1
<1>3. \A x \in Ids : x # id => touched[x] \subseteq touched'[x] /\ id \in touched'[x]
    BY UsedFacts
<1>4. \A i, j \in 1 .. Len(rest) : i < j => rest[j].id \in touched[rest[i].id]
  <2>1. CASE Holds(data, id)
    <3>1. Len(rest) = Len(data) - 1
        BY <2>1, <1>1, WithoutFacts
    <3> QED
        BY <3>1, <2>1, WithoutOrder
  <2>2. CASE ~Holds(data, id)
    <3>1. rest = data
        BY <2>2 DEF Without
    <3> QED
        BY <3>1, <1>1 DEF RecencyOrder
  <2> QED
      BY <2>1, <2>2
<1>10. Len(rest) \in Nat
    BY <1>1, WithoutFacts, LenProperties DEF Without
<1> HIDE DEF rest
<1>5. Len(new) \in Nat /\ \A k \in 1 .. Len(new) : new[k] \in Entries
    BY <1>2, ElementOfSeq, LenProperties
<1> HIDE DEF new
<1>6. \A k \in 1 .. Len(new) : new[k].id \in Ids
    BY <1>5, CacheAssumption DEF Entries, Ids, Cacheable
<1> SUFFICES ASSUME NEW i \in 1 .. Len(new), NEW j \in 1 .. Len(new), i < j
             PROVE  new[j].id \in touched'[new[i].id]
    BY DEF new, rest
<1>7. /\ i \in 1 .. Len(new) - 1
      /\ new[i] = rest[i]
      /\ new[i].id # id
      /\ new[i].id \in Ids
    BY <1>2, <1>5, <1>6
<1>8. CASE j = Len(new)
    BY <1>8, <1>2, <1>3, <1>7
<1>9. CASE j # Len(new)
  <2>0. Len(new) \in Nat /\ Len(new) = Len(rest) + 1
      BY <1>2, <1>5
  <2>1. j \in 1 .. Len(new) - 1 /\ Len(new) - 1 = Len(rest)
      BY <2>0, <1>9, <1>10
  <2>2. rest[j].id \in touched[rest[i].id]
      BY <2>1, <1>4, <1>7
  <2> QED
      BY <2>1, <2>2, <1>2, <1>3, <1>7
<1> QED
    BY <1>8, <1>9

------------------------------------------------------------------------------
LEMMA InitIInv == Init => IInv
<1> SUFFICES ASSUME Init
             PROVE  IInv
    OBVIOUS
<1> USE DEF Init, CacheInit
<1>1. Typed
  <2>1. data \in Seq(Entries)
      BY EmptySeq
  <2>2. stats \in Counters
      BY DEF Counters
  <2> QED
      BY <2>1, <2>2 DEF Typed, Fates
<1>2. Len(data) = 0 /\ DOMAIN data = {}
    BY EmptySeq
<1>3. WithinCapacity /\ Conservation
    BY <1>2, CacheAssumption DEF WithinCapacity, Conservation
<1>4. Distinct(data) /\ AgeFromLastSet /\ RecencyOrder /\ FateMatches /\ WorkingSet
    BY <1>2 DEF Distinct, AgeFromLastSet, RecencyOrder, FateMatches, WorkingSet, Holds
<1>5. FiniteTouched
    BY FS_EmptySet DEF FiniteTouched
<1> QED
    BY <1>1, <1>3, <1>4, <1>5 DEF IInv

\* A step that leaves the dictionary and the history alone.
LEMMA IdleStep ==
    ASSUME IInv, Typed', now' >= now,
           UNCHANGED <<data, inserted, cleared, setAt, touched, fate>>,
           stats'.evictions = stats.evictions,
           stats'.expirations = stats.expirations
    PROVE  IInv'
<1> USE DEF IInv
<1>1. Distinct(data)' /\ WithinCapacity' /\ Conservation'
    BY DEF Distinct, WithinCapacity, Conservation
<1>2. RecencyOrder' /\ FateMatches' /\ FiniteTouched' /\ WorkingSet'
    BY DEF RecencyOrder, FateMatches, FiniteTouched, WorkingSet, Holds, IsFor
<1>3. AgeFromLastSet'
  <2> SUFFICES ASSUME NEW id \in Ids, fate[id] = "expired"
               PROVE  now' - setAt[id] > TTL[id[1]]
      BY DEF AgeFromLastSet
  <2>1. TTL[id[1]] \in Nat /\ setAt[id] \in Nat /\ now \in Nat /\ now' \in Nat
      BY CacheAssumption DEF FateMatches, Typed, Cacheable
  <2>2. now - setAt[id] > TTL[id[1]]
      BY DEF AgeFromLastSet
  <2> QED
      BY <2>1, <2>2
<1> QED
    BY <1>1, <1>2, <1>3

LEMMA LookupMissStep ==
    ASSUME IInv, NEW id \in Ids, LookupMiss(id)
    PROVE  IInv'
<1> USE DEF LookupMiss, GetMiss, Call
<1>1. stats \in Counters
    BY DEF IInv, Typed
<1>2. /\ stats' \in Counters
      /\ stats'.evictions = stats.evictions
      /\ stats'.expirations = stats.expirations
    BY <1>1, CounterUpdates
<1>3. Typed'
    BY <1>2 DEF IInv, Typed
<1>4. now' >= now
    BY DEF IInv, Typed
<1> QED
    BY <1>2, <1>3, <1>4, IdleStep

LEMMA PassTimeStep ==
    ASSUME IInv, PassTime
    PROVE  IInv'
<1> USE DEF PassTime, Tick, history
<1>1. Typed'
    BY DEF IInv, Typed
<1>2. now' >= now
    BY DEF IInv, Typed
<1> QED
    BY <1>1, <1>2, IdleStep

\* A refused set or an undeclared lookup only counts as a call.
LEMMA UndeclaredStep ==
    ASSUME IInv, NEW id \in Ids, LookupUndeclared(id) \/ StoreRefused(id)
    PROVE  IInv'
<1> USE DEF LookupUndeclared, StoreRefused, GetUndeclared, SetRefused, Call, cacheVars
<1>1. Typed'
    BY DEF IInv, Typed
<1>2. now' >= now
    BY DEF IInv, Typed
<1> QED
    BY <1>1, <1>2, IdleStep

LEMMA LookupExpiredStep ==
    ASSUME IInv, NEW id \in Ids, LookupExpired(id)
    PROVE  IInv'
<1>0. /\ Holds(data, id)
      /\ TooOld(EntryFor(data, id), now)
      /\ data' = Without(data, id)
      /\ stats' = [stats EXCEPT !.expirations = @ + 1, !.misses = @ + 1]
      /\ calls' = calls + 1
      /\ fate' = [fate EXCEPT ![id] = "expired"]
      /\ UNCHANGED <<now, inserted, cleared, setAt, touched>>
    BY DEF LookupExpired, GetExpired, Call
<1>1. /\ Typed /\ Distinct(data) /\ WithinCapacity /\ Conservation
      /\ AgeFromLastSet /\ RecencyOrder /\ FateMatches /\ FiniteTouched /\ WorkingSet
    BY DEF IInv
<1>2. data \in Seq(Entries) /\ Len(data) \in Nat /\ DOMAIN data = 1 .. Len(data)
    BY <1>1, EntryTypes DEF Typed
<1>3. id \in Ids /\ id[1] \in Cacheable
    BY <1>0, <1>1, HeldIsId
<1>4. /\ data' \in Seq(Entries)
      /\ Len(data') = Len(data) - 1
      /\ \A k \in 1 .. Len(data) - 1 : data'[k] = data[Shift(Position(data, id), k)]
    BY <1>0, <1>2, WithoutFacts
<1>5. DOMAIN data' = 1 .. Len(data) - 1
    BY <1>4, LenProperties
<1>6. /\ stats' \in Counters
      /\ stats'.evictions = stats.evictions
      /\ stats'.expirations = stats.expirations + 1
  <2>1. stats \in Counters
      BY <1>1 DEF Typed
  <2> QED
      BY <2>1, <1>0, CounterUpdates
<1>7. /\ ~Holds(data', id)
      /\ \A x : x # id => (Holds(data', x) <=> Holds(data, x))
      /\ Distinct(data')
    BY <1>0, <1>1, <1>2, WithoutHolds
<1>8. Typed'
    BY <1>0, <1>1, <1>4, <1>6 DEF Typed, Fates
<1>9. WithinCapacity'
    BY <1>1, <1>2, <1>4, CacheAssumption DEF WithinCapacity
<1>10. Conservation'
  <2>1. /\ inserted' = inserted /\ cleared' = cleared
        /\ inserted \in Nat /\ cleared \in Nat
        /\ stats.evictions \in Nat /\ stats.expirations \in Nat
        /\ inserted = Len(data) + stats.evictions + stats.expirations + cleared
      BY <1>0, <1>1, CounterUpdates DEF Conservation, Typed
  <2>2. Len(data) \in Nat /\ Len(data') = Len(data) - 1
      BY <1>2, <1>4
  <2>3. stats'.evictions = stats.evictions /\ stats'.expirations = stats.expirations + 1
      BY <1>6
  <2>4. inserted = (Len(data) - 1) + stats.evictions + (stats.expirations + 1) + cleared
    <3> DEFINE n == Len(data)
               ev == stats.evictions
               ex == stats.expirations
    <3>1. n \in Nat /\ ev \in Nat /\ ex \in Nat /\ inserted \in Nat /\ cleared \in Nat
          /\ inserted = n + ev + ex + cleared
        BY <2>1, <2>2
    <3> HIDE DEF n, ev, ex
    <3>2. inserted = (n - 1) + ev + (ex + 1) + cleared
        BY <3>1
    <3> QED
        BY <3>2 DEF n, ev, ex
  <2> QED
      BY <2>1, <2>2, <2>3, <2>4 DEF Conservation
<1>11. AgeFromLastSet'
  <2>1. \A i \in DOMAIN data' : data'[i].storedAt = setAt'[data'[i].id]
    <3>1. \A k \in 1 .. Len(data) - 1 : Shift(Position(data, id), k) \in 1 .. Len(data)
        BY <1>0, <1>2, PositionFacts DEF Shift
    <3> QED
        BY <3>1, <1>0, <1>1, <1>2, <1>4, <1>5 DEF AgeFromLastSet
  <2>2. now - setAt[id] > TTL[id[1]]
    <3>1. EntryFor(data, id).storedAt = setAt[id] /\ EntryFor(data, id).id = id
        BY <1>0, <1>1, <1>2, PositionFacts DEF EntryFor, AgeFromLastSet
    <3> QED
        BY <3>1, <1>0 DEF TooOld
  <2> QED
      BY <2>1, <2>2, <1>0, <1>1 DEF AgeFromLastSet, Typed
<1>12. RecencyOrder'
    BY <1>0, <1>1, <1>5, WithoutOrder DEF RecencyOrder
<1>13. FateMatches'
    BY <1>0, <1>1, <1>3, <1>7 DEF FateMatches, Typed
<1>14. FiniteTouched'
    BY <1>0, <1>1 DEF FiniteTouched
<1>15. WorkingSet'
    BY <1>0, <1>1 DEF WorkingSet, Typed
<1> QED
    BY <1>7, <1>8, <1>9, <1>10, <1>11, <1>12, <1>13, <1>14, <1>15 DEF IInv

LEMMA LookupHitStep ==
    ASSUME IInv, NEW id \in Ids, LookupHit(id)
    PROVE  IInv'
<1> DEFINE e == EntryFor(data, id)
<1>0. /\ Holds(data, id)
      /\ data' = Append(Without(data, id), e)
      /\ stats' = [stats EXCEPT !.hits = @ + 1]
      /\ calls' = calls + 1
      /\ UNCHANGED <<now, inserted, cleared, setAt, fate>>
      /\ Used(id)
    BY DEF LookupHit, GetHit, Call, Touched
<1>1. /\ Typed /\ Distinct(data) /\ WithinCapacity /\ Conservation
      /\ AgeFromLastSet /\ RecencyOrder /\ FateMatches /\ FiniteTouched /\ WorkingSet
    BY DEF IInv
<1>2. data \in Seq(Entries) /\ Len(data) \in Nat /\ DOMAIN data = 1 .. Len(data)
    BY <1>1, EntryTypes DEF Typed
<1>3. e \in Entries /\ e.id = id /\ e.storedAt = setAt[id]
    BY <1>0, <1>1, <1>2, PositionFacts, EntryTypes DEF EntryFor, AgeFromLastSet
<1> HIDE DEF e
<1>4. /\ data' \in Seq(Entries)
      /\ Len(data') = Len(data)
      /\ data'[Len(data')] = e
      /\ \A k \in 1 .. Len(data') - 1 : data'[k] = Without(data, id)[k]
      /\ \A x : Holds(data', x) <=> x = id \/ Holds(data, x)
      /\ Distinct(data')
  <2>1. LET new == Append(Without(data, id), e)
        IN  /\ new \in Seq(Entries)
            /\ Len(new) = Len(data) + (IF Holds(data, id) THEN 0 ELSE 1)
            /\ new[Len(new)] = e
            /\ \A k \in 1 .. Len(new) - 1 : new[k] = Without(data, id)[k]
            /\ \A x : Holds(new, x) <=> x = id \/ Holds(data, x)
            /\ Distinct(new)
      BY <1>1, <1>2, <1>3, RefreshedFacts
  <2> QED
      BY <2>1, <1>0, <1>2
<1>5. DOMAIN data' = 1 .. Len(data)
    BY <1>4, LenProperties
<1>6. /\ stats' \in Counters
      /\ stats'.evictions = stats.evictions
      /\ stats'.expirations = stats.expirations
  <2>1. stats \in Counters
      BY <1>1 DEF Typed
  <2> QED
      BY <2>1, <1>0, CounterUpdates
<1>7. /\ touched' \in [Ids -> SUBSET Ids]
      /\ FiniteTouched'
      /\ \A x \in Ids : x # id => Cardinality(touched'[x]) >= Cardinality(touched[x])
    BY <1>0, <1>1, UsedFacts
<1>8. Typed'
    BY <1>0, <1>1, <1>4, <1>6, <1>7 DEF Typed
<1>9. WithinCapacity' /\ Conservation'
    BY <1>0, <1>1, <1>4, <1>6 DEF WithinCapacity, Conservation
<1>10. AgeFromLastSet'
  <2>1. \A k \in 1 .. Len(data) - 1 : data'[k].storedAt = setAt[data'[k].id]
    <3>1. \A k \in 1 .. Len(data) - 1 :
             /\ data'[k] = data[Shift(Position(data, id), k)]
             /\ Shift(Position(data, id), k) \in 1 .. Len(data)
        BY <1>0, <1>2, <1>4, PositionFacts, WithoutFacts DEF Shift
    <3> QED
        BY <3>1, <1>1, <1>2 DEF AgeFromLastSet
  <2>2. data'[Len(data)].storedAt = setAt[data'[Len(data)].id]
      BY <1>3, <1>4
  <2>3. \A k \in 1 .. Len(data) : k \in 1 .. Len(data) - 1 \/ k = Len(data)
    <3>1. Len(data) \in Nat
        BY <1>2
    <3> QED
        BY <3>1
  <2> QED
      BY <2>1, <2>2, <2>3, <1>0, <1>1, <1>5 DEF AgeFromLastSet
<1>11. RecencyOrder'
  <2>1. LET new == Append(Without(data, id), e)
        IN  \A i, j \in 1 .. Len(new) : i < j => new[j].id \in touched'[new[i].id]
      BY <1>0, <1>1, <1>3, RefreshedOrder
  <2> QED
      BY <2>1, <1>0, <1>4, <1>5 DEF RecencyOrder
<1>12. FateMatches'
    BY <1>0, <1>1, <1>4 DEF FateMatches
<1>13. WorkingSet'
  <2> SUFFICES ASSUME NEW x \in Ids, fate[x] = "evicted"
               PROVE  Cardinality(touched'[x]) >= MaxEntries
      BY <1>0 DEF WorkingSet
  <2>1. x # id
      BY <1>0, <1>1 DEF FateMatches
  <2>2. Cardinality(touched[x]) >= MaxEntries
      BY <1>1 DEF WorkingSet
  <2>3. Cardinality(touched[x]) \in Nat /\ Cardinality(touched'[x]) \in Nat
      BY <1>1, <1>7, FS_CardinalityType DEF FiniteTouched
  <2> QED
      BY <2>1, <2>2, <2>3, <1>7, CacheAssumption
<1> QED
    BY <1>4, <1>7, <1>8, <1>9, <1>10, <1>11, <1>12, <1>13 DEF IInv

LEMMA ClearAllStep ==
    ASSUME IInv, ClearAll
    PROVE  IInv'
<1> USE DEF ClearAll, Clear, Call
<1>1. /\ Typed /\ Distinct(data) /\ WithinCapacity /\ Conservation
      /\ AgeFromLastSet /\ RecencyOrder /\ FateMatches /\ FiniteTouched /\ WorkingSet
    BY DEF IInv
<1>2. data' = <<>> /\ data' \in Seq(Entries) /\ Len(data') = 0 /\ DOMAIN data' = {}
    BY EmptySeq
<1>3. Len(data) \in Nat
    BY <1>1, EntryTypes
<1>4. \A x : ~Holds(data', x)
    BY <1>2 DEF Holds
<1>5. Typed'
    BY <1>1, <1>2, <1>3 DEF Typed, Fates
<1>6. WithinCapacity'
    BY <1>2, CacheAssumption DEF WithinCapacity
<1>12. Conservation'
  <2>1. /\ inserted' = inserted /\ cleared' = cleared + Len(data) /\ stats' = stats
        /\ inserted \in Nat /\ cleared \in Nat
        /\ stats.evictions \in Nat /\ stats.expirations \in Nat
        /\ inserted = Len(data) + stats.evictions + stats.expirations + cleared
      BY <1>1, CounterUpdates DEF Conservation, Typed
  <2> QED
      BY <2>1, <1>2, <1>3 DEF Conservation
<1>7. Distinct(data')
    BY <1>2 DEF Distinct
<1>8. AgeFromLastSet'
    BY <1>1, <1>2 DEF AgeFromLastSet
<1>9. RecencyOrder'
    BY <1>2 DEF RecencyOrder
<1>10. FateMatches'
    BY <1>1, <1>4 DEF FateMatches
<1>11. FiniteTouched' /\ WorkingSet'
    BY <1>1 DEF FiniteTouched, WorkingSet
<1> QED
    BY <1>5, <1>6, <1>7, <1>8, <1>9, <1>10, <1>11, <1>12 DEF IInv

\* The hard case.  The dictionary grows by the new entry, in recency order,
\* and the loop pops at most the first entry; the identifier lost has been
\* followed by the MaxEntries distinct identifiers that stay.
LEMMA StoreStep ==
    ASSUME IInv, NEW id \in Ids, NEW value \in Values, Store(id, value)
    PROVE  IInv'
<1> DEFINE e == [id |-> id, storedAt |-> now, value |-> value]
           grown == Append(Without(data, id), e)
           off == Len(grown) - Len(Trimmed(grown))
<1>0. /\ id[1] \in Cacheable
      /\ data' = Trimmed(grown)
      /\ stats' = [stats EXCEPT !.evictions = @ + off]
      /\ calls' = calls + 1
      /\ UNCHANGED <<now, cleared>>
      /\ Used(id)
      /\ inserted' = inserted + (IF Holds(data, id) THEN 0 ELSE 1)
      /\ setAt' = [setAt EXCEPT ![id] = now]
      /\ fate' = [x \in Ids |->
                    CASE Holds(data', x) -> "held"
                      [] ~Holds(data', x) /\ Holds(data, x) -> "evicted"
                      [] OTHER -> fate[x]]
    BY DEF Store, Set, Stored, Call
<1>1. /\ Typed /\ Distinct(data) /\ WithinCapacity /\ Conservation
      /\ AgeFromLastSet /\ RecencyOrder /\ FateMatches /\ FiniteTouched /\ WorkingSet
    BY DEF IInv
<1>2. data \in Seq(Entries) /\ Len(data) \in Nat /\ DOMAIN data = 1 .. Len(data)
    BY <1>1, EntryTypes DEF Typed
<1>3. e \in Entries /\ e.id = id /\ e.storedAt = now
    BY <1>0, <1>1 DEF Entries, Ids, Typed
<1> HIDE DEF e
<1>4. /\ grown \in Seq(Entries)
      /\ Len(grown) = Len(data) + (IF Holds(data, id) THEN 0 ELSE 1)
      /\ Len(grown) = Len(Without(data, id)) + 1
      /\ grown[Len(grown)] = e
      /\ \A k \in 1 .. Len(grown) - 1 : grown[k] = Without(data, id)[k] /\ grown[k].id # id
      /\ \A x : Holds(grown, x) <=> x = id \/ Holds(data, x)
      /\ Distinct(grown)
  <2>1. LET new == Append(Without(data, id), e)
        IN  /\ new \in Seq(Entries)
            /\ Len(new) = Len(data) + (IF Holds(data, id) THEN 0 ELSE 1)
            /\ Len(new) = Len(Without(data, id)) + 1
            /\ new[Len(new)] = e
            /\ \A k \in 1 .. Len(new) - 1 : new[k] = Without(data, id)[k]
            /\ \A k \in 1 .. Len(new) - 1 : new[k].id # id
            /\ \A x : Holds(new, x) <=> x = id \/ Holds(data, x)
            /\ Distinct(new)
      BY <1>1, <1>2, <1>3, RefreshedFacts
  <2> QED
      BY <2>1
<1>5. \A i, j \in 1 .. Len(grown) : i < j => grown[j].id \in touched'[grown[i].id]
    BY <1>0, <1>1, <1>3, RefreshedOrder
<1> HIDE DEF grown
<1>6. /\ Len(grown) \in Nat
      /\ DOMAIN grown = 1 .. Len(grown)
      /\ \A k \in 1 .. Len(grown) : grown[k].id \in Ids
  <2>1. \A k \in 1 .. Len(grown) : grown[k] \in Entries
      BY <1>4, ElementOfSeq
  <2>2. \A x \in Entries : x.id \in Ids
      BY CacheAssumption DEF Entries, Ids, Cacheable
  <2> QED
      BY <2>1, <2>2, <1>4, LenProperties
<1>7. /\ data' \in Seq(Entries)
      /\ off \in Nat
      /\ Len(data') \in Nat
      /\ Len(data') <= MaxEntries
      /\ Len(grown) <= MaxEntries => data' = grown
      /\ Len(grown) > MaxEntries => Len(data') = MaxEntries
      /\ \A k \in 1 .. Len(data') : data'[k] = grown[k + off]
      /\ off = Len(grown) - Len(data')
    BY <1>0, <1>4, TrimmedFacts
<1> HIDE DEF off
<1>8. /\ DOMAIN data' = 1 .. Len(data')
      /\ \A k \in 1 .. Len(data') : k + off \in 1 .. Len(grown)
  <2>1. DOMAIN data' = 1 .. Len(data')
      BY <1>7, LenProperties
  <2>2. off \in Nat /\ Len(data') \in Nat /\ Len(grown) \in Nat /\ off = Len(grown) - Len(data')
      BY <1>6, <1>7
  <2>3. \A k \in 1 .. Len(data') : k + off \in 1 .. Len(grown)
      BY <2>2
  <2> QED
      BY <2>1, <2>3
<1>9. /\ Distinct(data')
      /\ \A x : Holds(data', x) => x = id \/ Holds(data, x)
    BY <1>0, <1>4, TrimmedHolds
<1>10. Holds(data', id)
  <2>1. /\ Len(grown) = Len(Without(data, id)) + 1
        /\ Len(grown) \in Nat \ {0}
    <3>1. Len(Without(data, id)) \in Nat
        BY <1>2, WithoutFacts, LenProperties DEF Without
    <3> QED
        BY <3>1, <1>4
  <2>2. Len(data') \in 1 .. Len(data') /\ Len(data') + off = Len(grown)
    <3>1. Len(data') # 0
        BY <2>1, <1>7, CacheAssumption
    <3>2. off \in Nat /\ Len(data') \in Nat /\ off = Len(grown) - Len(data')
        BY <1>7
    <3> QED
        BY <3>1, <3>2, <2>1
  <2>3. data'[Len(data')] = e
      BY <2>2, <1>4, <1>7
  <2> QED
      BY <2>2, <2>3, <1>3, <1>8 DEF Holds, IsFor
<1>11. /\ stats' \in Counters
       /\ stats'.evictions = stats.evictions + off
       /\ stats'.expirations = stats.expirations
  <2>1. stats \in Counters /\ off \in Nat
      BY <1>1, <1>7 DEF Typed
  <2> QED
      BY <2>1, <1>0, CounterUpdates
<1>12. /\ touched' \in [Ids -> SUBSET Ids]
       /\ FiniteTouched'
       /\ \A x \in Ids : x # id => Cardinality(touched'[x]) >= Cardinality(touched[x])
    BY <1>0, <1>1, UsedFacts
<1>13. Typed'
  <2>1. fate' \in [Ids -> Fates]
      BY <1>0, <1>1 DEF Typed, Fates
  <2>2. inserted' \in Nat /\ setAt' \in [Ids -> Nat] /\ calls' \in Nat
      BY <1>0, <1>1 DEF Typed
  <2> QED
      BY <2>1, <2>2, <1>0, <1>1, <1>7, <1>11, <1>12 DEF Typed
<1>14. WithinCapacity'
    BY <1>7 DEF WithinCapacity
<1>15. Conservation'
  <2>1. /\ inserted \in Nat /\ cleared \in Nat
        /\ stats.evictions \in Nat /\ stats.expirations \in Nat
        /\ inserted = Len(data) + stats.evictions + stats.expirations + cleared
      BY <1>1, CounterUpdates DEF Conservation, Typed
  <2>2. off = Len(grown) - Len(data') /\ off \in Nat /\ Len(data') \in Nat
      BY <1>7
  <2> DEFINE added == IF Holds(data, id) THEN 0 ELSE 1
  <2>3. added \in Nat /\ inserted' = inserted + added /\ Len(grown) = Len(data) + added
      BY <1>0, <1>4
  <2> HIDE DEF added
  <2>4. inserted' \in Nat /\ cleared' = cleared /\ Len(grown) \in Nat /\ Len(data) \in Nat
      BY <1>0, <1>2, <1>6, <1>13 DEF Typed
  <2>5. Len(data') = (Len(data) + added) - off
      BY <2>2, <2>3, <2>4
  <2>6. inserted + added =
            ((Len(data) + added) - off) + (stats.evictions + off) + stats.expirations + cleared
    <3> DEFINE n == Len(data)
               ev == stats.evictions
               ex == stats.expirations
    <3>1. n \in Nat /\ ev \in Nat /\ ex \in Nat /\ inserted \in Nat /\ cleared \in Nat
          /\ added \in Nat /\ off \in Nat
          /\ inserted = n + ev + ex + cleared
        BY <2>1, <2>2, <2>3, <2>4
    <3> HIDE DEF n, ev, ex
    <3>2. inserted + added = ((n + added) - off) + (ev + off) + ex + cleared
        BY <3>1
    <3> QED
        BY <3>2 DEF n, ev, ex
  <2> QED
      BY <2>3, <2>4, <2>5, <2>6, <1>11 DEF Conservation
<1>16. AgeFromLastSet'
  <2>1. \A k \in 1 .. Len(grown) : grown[k].storedAt = setAt'[grown[k].id]
    <3> SUFFICES ASSUME NEW k \in 1 .. Len(grown)
                 PROVE  grown[k].storedAt = setAt'[grown[k].id]
        OBVIOUS
    <3>1. CASE k = Len(grown)
        BY <3>1, <1>0, <1>1, <1>3, <1>4 DEF Typed
    <3>2. CASE k # Len(grown)
      <4>0. Len(grown) \in Nat
          BY <1>6
      <4>1. k \in 1 .. Len(grown) - 1
          BY <4>0, <3>2
      <4>2. grown[k] = Without(data, id)[k] /\ grown[k].id # id /\ grown[k].id \in Ids
          BY <4>1, <1>4, <1>6
      <4>3. PICK i \in 1 .. Len(data) : grown[k] = data[i]
        <5>1. CASE Holds(data, id)
          <6>1. /\ Position(data, id) \in 1 .. Len(data)
                /\ k \in 1 .. Len(data) - 1
                /\ Without(data, id)[k] = data[Shift(Position(data, id), k)]
              BY <5>1, <4>1, <1>2, <1>4, PositionFacts, WithoutFacts
          <6>2. Shift(Position(data, id), k) \in 1 .. Len(data)
              BY <6>1, <1>2 DEF Shift
          <6> QED
              BY <6>1, <6>2, <4>2
        <5>2. CASE ~Holds(data, id)
          <6>1. Len(grown) - 1 = Len(data)
              BY <5>2, <1>2, <1>4
          <6> QED
              BY <6>1, <5>2, <4>1, <4>2 DEF Without
        <5> QED
            BY <5>1, <5>2
      <4> QED
          BY <4>2, <4>3, <1>0, <1>1, <1>2 DEF AgeFromLastSet, Typed
    <3> QED
        BY <3>1, <3>2
  <2>2. \A i \in DOMAIN data' : data'[i].storedAt = setAt'[data'[i].id]
    <3> SUFFICES ASSUME NEW i \in 1 .. Len(data')
                 PROVE  data'[i].storedAt = setAt'[data'[i].id]
        BY <1>8
    <3>1. data'[i] = grown[i + off] /\ i + off \in 1 .. Len(grown)
        BY <1>7, <1>8
    <3> QED
        BY <3>1, <2>1
  <2>3. ASSUME NEW x \in Ids, fate'[x] = "expired"
        PROVE  now' - setAt'[x] > TTL[x[1]]
    <3>1. ~Holds(data', x) /\ fate[x] = "expired"
        BY <2>3, <1>0
    <3>2. x # id
        BY <3>1, <1>10
    <3> QED
        BY <3>1, <3>2, <1>0, <1>1 DEF AgeFromLastSet, Typed
  <2> QED
      BY <2>2, <2>3 DEF AgeFromLastSet
<1>17. RecencyOrder'
  <2> SUFFICES ASSUME NEW i \in 1 .. Len(data'), NEW j \in 1 .. Len(data'), i < j
               PROVE  data'[j].id \in touched'[data'[i].id]
      BY <1>8 DEF RecencyOrder
  <2>1. i + off < j + off
      BY <1>7
  <2> QED
      BY <2>1, <1>5, <1>7, <1>8
<1>18. FateMatches'
  <2> SUFFICES ASSUME NEW x \in Ids
               PROVE  /\ fate'[x] = "held" <=> Holds(data', x)
                      /\ fate'[x] # "never" => x[1] \in Cacheable
      BY DEF FateMatches
  <2>1. Holds(data', x) => x[1] \in Cacheable
      BY <1>0, <1>1, <1>9, HeldIsId
  <2>2. Holds(data, x) => x[1] \in Cacheable
      BY <1>1, HeldIsId
  <2>3. CASE Holds(data', x)
      BY <2>1, <2>3, <1>0
  <2>4. CASE ~Holds(data', x) /\ Holds(data, x)
      BY <2>2, <2>4, <1>0
  <2>5. CASE ~Holds(data', x) /\ ~Holds(data, x)
      BY <2>5, <1>0, <1>1 DEF FateMatches
  <2> QED
      BY <2>3, <2>4, <2>5
<1>19. WorkingSet'
  <2> SUFFICES ASSUME NEW x \in Ids, fate'[x] = "evicted"
               PROVE  Cardinality(touched'[x]) >= MaxEntries
      BY DEF WorkingSet
  <2>1. ~Holds(data', x) /\ x # id
      BY <1>0, <1>10
  <2>2. CASE fate[x] = "evicted"
    <3>1. Cardinality(touched[x]) >= MaxEntries
        BY <2>2, <1>1 DEF WorkingSet
    <3>2. Cardinality(touched[x]) \in Nat /\ Cardinality(touched'[x]) \in Nat
        BY <1>1, <1>12, FS_CardinalityType DEF FiniteTouched
    <3> QED
        BY <2>1, <3>1, <3>2, <1>12, CacheAssumption
  <2>3. CASE fate[x] # "evicted"
    <3>1. Holds(data, x)
        BY <2>1, <2>3, <1>0
    <3>2. PICK i \in 1 .. Len(grown) : grown[i].id = x
        BY <3>1, <1>4, <1>6 DEF Holds, IsFor
    <3>3. Len(grown) = MaxEntries + 1 /\ off = 1 /\ Len(data') = MaxEntries
      <4>1. Len(grown) > MaxEntries
        <5>1. ~(Len(grown) <= MaxEntries)
            BY <2>1, <3>2, <1>6, <1>7 DEF Holds, IsFor
        <5> QED
            BY <5>1, <1>6, CacheAssumption
      <4>2. Len(grown) <= MaxEntries + 1
        <5>1. Len(data) <= MaxEntries /\ Len(data) \in Nat /\ MaxEntries \in Nat
            BY <1>1, <1>2, CacheAssumption DEF WithinCapacity
        <5>2. Len(grown) = Len(data) + (IF Holds(data, id) THEN 0 ELSE 1)
            BY <1>4
        <5> QED
            BY <5>1, <5>2
      <4>3. Len(data') = MaxEntries /\ off = Len(grown) - Len(data')
          BY <4>1, <1>7
      <4> QED
          BY <4>1, <4>2, <4>3, <1>6, CacheAssumption
    <3>4. i = 1
      <4>1. ASSUME i # 1
            PROVE  FALSE
        <5>1. i - 1 \in 1 .. Len(data') /\ (i - 1) + off = i
            BY <4>1, <3>3, CacheAssumption
        <5>2. data'[i - 1].id = x
            BY <5>1, <3>2, <1>7
        <5> QED
            BY <5>1, <5>2, <2>1, <1>8 DEF Holds, IsFor
      <4> QED
          BY <4>1
    <3>5. \A j \in 2 .. MaxEntries + 1 : grown[j].id \in touched'[x]
      <4>1. \A j \in 2 .. MaxEntries + 1 : j \in 1 .. Len(grown) /\ 1 < j
          BY <3>3, CacheAssumption
      <4> QED
          BY <4>1, <3>2, <3>4, <1>5
    <3>6. IsFiniteSet(touched'[x])
        BY <1>12 DEF FiniteTouched
    <3>7. MaxEntries \in Nat
        BY CacheAssumption
    <3> QED
        BY <3>3, <3>5, <3>6, <3>7, <1>4, DistinctCount
  <2> QED
      BY <2>2, <2>3
<1> QED
    BY <1>9, <1>12, <1>13, <1>14, <1>15, <1>16, <1>17, <1>18, <1>19 DEF IInv

LEMMA NextIInv == IInv /\ [Next]_vars => IInv'
<1> SUFFICES ASSUME IInv, [Next]_vars
             PROVE  IInv'
    OBVIOUS
<1>1. ASSUME NEW id \in Ids, LookupUndeclared(id)
      PROVE  IInv'
    BY <1>1, UndeclaredStep
<1>2. ASSUME NEW id \in Ids, LookupMiss(id)
      PROVE  IInv'
    BY <1>2, LookupMissStep
<1>3. ASSUME NEW id \in Ids, LookupExpired(id)
      PROVE  IInv'
    BY <1>3, LookupExpiredStep
<1>4. ASSUME NEW id \in Ids, LookupHit(id)
      PROVE  IInv'
    BY <1>4, LookupHitStep
<1>5. ASSUME NEW id \in Ids, StoreRefused(id)
      PROVE  IInv'
    BY <1>5, UndeclaredStep
<1>6. ASSUME NEW id \in Ids, NEW value \in Values, Store(id, value)
      PROVE  IInv'
    BY <1>6, StoreStep
<1>7. CASE ClearAll
    BY <1>7, ClearAllStep
<1>8. CASE PassTime
    BY <1>8, PassTimeStep
<1>9. CASE UNCHANGED vars
  <2>1. Typed' /\ now' >= now
      BY <1>9 DEF IInv, Typed, vars
  <2> QED
      BY <2>1, <1>9, IdleStep DEF vars
<1> QED
    BY <1>1, <1>2, <1>3, <1>4, <1>5, <1>6, <1>7, <1>8, <1>9 DEF Next

\* The inductive invariant holds in every reachable state.
THEOREM Inductive == Spec => []IInv
<1> QED
    BY InitIInv, NextIInv, PTL DEF Spec

\* The variables of the cache and of its history keep their types, and the
\* dictionary never holds more than max_entries items of all kinds together.
THEOREM TypeCorrect == Spec => []TypeOK
<1>1. IInv => TypeOK
    BY DEF IInv, Typed, WithinCapacity, TypeOK
<1> QED
    BY <1>1, Inductive, PTL

\* Every identifier ever added is held, evicted, expired or cleared, and the
\* counters exported by /metrics say which, for any sequence of calls.
THEOREM CountersConserve == Spec => []Conservation
<1>1. IInv => Conservation
    BY DEF IInv
<1> QED
    BY <1>1, Inductive, PTL

\* The LRU guarantee: an identifier lost to eviction was followed by at least
\* MaxEntries others, for any capacity and any number of identifiers.
THEOREM WorkingSetSafe == Spec => []WorkingSet
<1>1. IInv => WorkingSet
    BY DEF IInv
<1> QED
    BY <1>1, Inductive, PTL

\* An entry's age is counted from its last set, hits notwithstanding, and it
\* expires only beyond its kind's TTL.
THEOREM AgeCounted == Spec => []AgeFromLastSet
<1>1. IInv => AgeFromLastSet
    BY DEF IInv
<1> QED
    BY <1>1, Inductive, PTL
==============================================================================
