--------------------------- MODULE ReadThroughProofs ---------------------------
(***************************************************************************)
(* ReadThrough implements FreshRead, for every set of handlers, kinds and  *)
(* keys, every TTL table, every capacity and every fetch bound.            *)
(*                                                                         *)
(* The promise is about replies; what keeps it is in the cache.  Genuine   *)
(* is the set of entries the cache may hold: each describes its own        *)
(* object, was stored within FetchBound of being produced, and was stored  *)
(* no earlier than the newest payload any reader of its object has seen.   *)
(* The last part is what bounds how far a reader can travel back in time   *)
(* when an older fetch overwrites a newer one, and it needs the dictionary *)
(* to hold one entry per object (Distinct).                                *)
(***************************************************************************)
EXTENDS ReadThrough, CacheDataProofs

Genuine ==
    {e \in [id : Cacheable \X Keys, storedAt : Nat, value : Payloads] :
        /\ e.value.of = e.id
        /\ e.value.asOf <= e.storedAt
        /\ e.storedAt <= e.value.asOf + FetchBound
        /\ e.storedAt <= now
        /\ newest[e.id] <= e.storedAt}

InTransit ==
    \A t \in Tasks : pc[t] = "sending" =>
        /\ got[t] \in Payloads
        /\ got[t].of = want[t]
        /\ got[t].asOf <= now
        /\ now <= got[t].asOf + FetchBound

Handlers ==
    /\ now \in Nat
    /\ pc \in [Tasks -> Stages]
    /\ want \in [Tasks -> Ids \cup {None}]
    /\ got \in [Tasks -> Payloads \cup {None}]
    /\ reply \in [Tasks -> Replies \cup {None, Failed}]
    /\ requests \in Nat
    /\ newest \in [Ids -> Nat]
    /\ \A id \in Ids : newest[id] <= now
    /\ \A t \in Tasks : pc[t] = "idle" <=> want[t] = None
    /\ InTransit

IInv ==
    /\ data \in Seq(Genuine)
    /\ Distinct(data)
    /\ Handlers

------------------------------------------------------------------------------
\* A sequence all of whose elements are in T is a sequence over T.
LEMMA SeqOver ==
    ASSUME NEW S, NEW T, NEW s \in Seq(S), \A i \in 1 .. Len(s) : s[i] \in T
    PROVE  s \in Seq(T)
<1>1. Len(s) \in Nat /\ s \in [1 .. Len(s) -> S]
    BY LenProperties
<1>2. s \in [1 .. Len(s) -> T]
    BY <1>1
<1> QED
    BY <1>1, <1>2, SeqDef

\* The facts every step starts from: what the variables hold, and what an
\* entry of the cache says.
LEMMA Typing ==
    ASSUME IInv
    PROVE  /\ now \in Nat
           /\ FetchBound \in Nat
           /\ newest \in [Ids -> Nat]
           /\ data \in Seq(Genuine)
           /\ \A e \in Genuine :
                 /\ e.id \in Ids /\ e.id[1] \in Cacheable
                 /\ e.storedAt \in Nat
                 /\ e.value \in Payloads
           /\ \A p \in Payloads : p.of \in Ids /\ p.asOf \in Nat /\ p.null \in BOOLEAN
<1>1. /\ now \in Nat /\ newest \in [Ids -> Nat] /\ FetchBound \in Nat
    BY ReadAssumption DEF IInv, Handlers
<1>2. \A p \in Payloads : p.of \in Ids /\ p.asOf \in Nat /\ p.null \in BOOLEAN
    BY DEF Payloads
<1>3. ASSUME NEW e \in Genuine
      PROVE  /\ e.id \in Ids /\ e.id[1] \in Cacheable
             /\ e.storedAt \in Nat /\ e.value \in Payloads
  <2>1. e \in [id : Cacheable \X Keys, storedAt : Nat, value : Payloads]
      BY DEF Genuine
  <2>2. e.id \in Cacheable \X Keys /\ e.storedAt \in Nat /\ e.value \in Payloads
      BY <2>1
  <2> QED
      BY <2>2, CacheAssumption DEF Cacheable, Ids
<1> QED
    BY <1>1, <1>2, <1>3 DEF IInv

\* The inequalities that make an entry genuine.
LEMMA GenuineTimes ==
    ASSUME IInv, NEW e \in Genuine
    PROVE  /\ e.value.of = e.id
           /\ e.value.asOf <= e.storedAt
           /\ e.storedAt <= e.value.asOf + FetchBound
           /\ e.storedAt <= now
           /\ newest[e.id] <= e.storedAt
BY DEF Genuine

\* The entry a lookup finds is genuine, and is of the object looked up.
LEMMA FoundEntry ==
    ASSUME IInv, NEW id, Holds(data, id)
    PROVE  EntryFor(data, id) \in Genuine /\ EntryFor(data, id).id = id
<1>1. data \in Seq(Genuine)
    BY DEF IInv
<1>2. Position(data, id) \in 1 .. Len(data) /\ data[Position(data, id)].id = id
    BY <1>1, PositionFacts
<1> QED
    BY <1>1, <1>2, ElementOfSeq DEF EntryFor

\* Returning payload p makes only readers of its own object any wiser.
LEMMA ReturnFacts ==
    ASSUME IInv, NEW t \in Tasks, NEW p \in Payloads, p.asOf <= now, Return(t, p)
    PROVE  /\ now' = now
           /\ newest' \in [Ids -> Nat]
           /\ \A id \in Ids : id # p.of => newest'[id] = newest[id]
           /\ newest[p.of] >= p.asOf => newest'[p.of] = newest[p.of]
           /\ newest[p.of] < p.asOf => newest'[p.of] = p.asOf
           /\ \A id \in Ids : newest'[id] <= now
<1>1. now \in Nat /\ newest \in [Ids -> Nat] /\ p.of \in Ids /\ p.asOf \in Nat
    BY Typing
<1>2. \A id \in Ids : newest[id] <= now
    BY DEF IInv, Handlers
<1>3. now' = now /\ newest' = [newest EXCEPT ![p.of] = IF p.asOf > @ THEN p.asOf ELSE @]
    BY DEF Return
<1>4. newest[p.of] \in Nat
    BY <1>1
<1>5. newest'[p.of] = IF p.asOf > newest[p.of] THEN p.asOf ELSE newest[p.of]
    BY <1>1, <1>3
<1>6. \A id \in Ids : id # p.of => newest'[id] = newest[id]
    BY <1>1, <1>3
<1>7. newest' \in [Ids -> Nat]
    BY <1>1, <1>3, <1>4
<1>8. newest'[p.of] <= now
    BY <1>1, <1>2, <1>4, <1>5
<1> QED
    BY <1>1, <1>2, <1>3, <1>4, <1>5, <1>6, <1>7, <1>8

\* Entries the returned payload says nothing about stay genuine, and so does an
\* entry of p's object that is no older than p.
LEMMA StillGenuine ==
    ASSUME IInv, NEW t \in Tasks, NEW p \in Payloads, p.asOf <= now, Return(t, p),
           NEW g \in Genuine, g.id # p.of \/ p.asOf <= g.storedAt
    PROVE  g \in Genuine'
<1>1. /\ g \in [id : Cacheable \X Keys, storedAt : Nat, value : Payloads]
      /\ g.value.of = g.id
      /\ g.value.asOf <= g.storedAt
      /\ g.storedAt <= g.value.asOf + FetchBound
      /\ g.storedAt <= now
      /\ newest[g.id] <= g.storedAt
    BY DEF Genuine
<1>2. now' = now /\ g.id \in Ids
    BY Typing, ReturnFacts
<1>3. newest'[g.id] <= g.storedAt
  <2>1. CASE g.id # p.of
      BY <2>1, <1>1, <1>2, ReturnFacts
  <2>2. CASE g.id = p.of /\ p.asOf <= g.storedAt
    <3>1. newest[p.of] \in Nat /\ p.asOf \in Nat
        BY Typing
    <3>2. newest'[g.id] = newest[g.id] \/ newest'[g.id] = p.asOf
        BY <3>1, <2>2, ReturnFacts
    <3> QED
        BY <3>2, <2>2, <1>1
  <2> QED
      BY <2>1, <2>2
<1> QED
    BY <1>1, <1>2, <1>3 DEF Genuine

\* A cache whose entry for p's object is refreshed by a genuine entry e, while
\* p is returned, stays genuine as long as e is no older than p.
LEMMA RefreshedGenuine ==
    ASSUME IInv, NEW t \in Tasks, NEW p \in Payloads, p.asOf <= now, Return(t, p),
           NEW id, p.of = id,
           NEW e \in Genuine, e.id = id, p.asOf <= e.storedAt
    PROVE  LET new == Append(Without(data, id), e)
           IN  new \in Seq(Genuine') /\ Distinct(new)
<1> DEFINE new == Append(Without(data, id), e)
<1>1. data \in Seq(Genuine) /\ Distinct(data)
    BY DEF IInv
<1>2. /\ new \in Seq(Genuine)
      /\ new[Len(new)] = e
      /\ \A k \in 1 .. Len(new) - 1 : new[k].id # id
      /\ Distinct(new)
  <2>1. LET x == Append(Without(data, id), e)
        IN  /\ x \in Seq(Genuine)
            /\ x[Len(x)] = e
            /\ \A k \in 1 .. Len(x) - 1 : x[k].id # id
            /\ Distinct(x)
      BY <1>1, RefreshedFacts
  <2> QED
      BY <2>1
<1>3. Len(new) \in Nat
    BY <1>2, LenProperties
<1> HIDE DEF new
<1>4. \A g \in Genuine : g = e \/ g.id # p.of => g \in Genuine'
    BY StillGenuine
<1>5. \A k \in 1 .. Len(new) : new[k] \in Genuine'
  <2> SUFFICES ASSUME NEW k \in 1 .. Len(new)
               PROVE  new[k] \in Genuine'
      OBVIOUS
  <2>1. new[k] \in Genuine
      BY <1>2, ElementOfSeq
  <2>2. new[k] = e \/ new[k].id # id
    <3>1. k = Len(new) \/ k \in 1 .. Len(new) - 1
        BY <1>3
    <3> QED
        BY <3>1, <1>2
  <2> QED
      BY <2>1, <2>2, <1>4
<1>6. new \in Seq(Genuine')
    BY <1>2, <1>5, SeqOver
<1> QED
    BY <1>2, <1>6 DEF new

\* After a return, everything but the cache is as it should be.
LEMMA ReturnKeepsHandlers ==
    ASSUME IInv, NEW t \in Tasks, NEW p \in Payloads, p.asOf <= now, Return(t, p)
    PROVE  Handlers'
<1>1. Handlers
    BY DEF IInv
<1>2. /\ pc' = [pc EXCEPT ![t] = "idle"]
      /\ want' = [want EXCEPT ![t] = None]
      /\ got' = [got EXCEPT ![t] = None]
      /\ reply' = [reply EXCEPT ![t] = [of |-> p.of, age |-> now - p.asOf, null |-> p.null]]
      /\ now' = now /\ requests' = requests
    BY DEF Return
<1>3. pc' \in [Tasks -> Stages] /\ want' \in [Tasks -> Ids \cup {None}]
    BY <1>1, <1>2 DEF Handlers, Stages
<1>4. got' \in [Tasks -> Payloads \cup {None}]
    BY <1>1, <1>2 DEF Handlers
<1>5. reply' \in [Tasks -> Replies \cup {None, Failed}]
  <2>1. /\ p.of \in Ids /\ p.null \in BOOLEAN
        /\ p.asOf \in Nat /\ now \in Nat
      BY Typing
  <2>2. now - p.asOf \in Nat
      BY <2>1
  <2>3. [of |-> p.of, age |-> now - p.asOf, null |-> p.null] \in Replies
      BY <2>1, <2>2 DEF Replies
  <2> QED
      BY <1>1, <1>2, <2>3 DEF Handlers
<1>6. /\ now' \in Nat /\ requests' \in Nat
      /\ newest' \in [Ids -> Nat]
      /\ \A id \in Ids : newest'[id] <= now'
    BY <1>1, <1>2, ReturnFacts DEF Handlers
<1>7. \A u \in Tasks : pc'[u] = "idle" <=> want'[u] = None
    BY <1>1, <1>2 DEF Handlers
<1>8. InTransit'
  <2>1. InTransit
      BY <1>1 DEF Handlers
  <2> SUFFICES ASSUME NEW u \in Tasks, pc'[u] = "sending"
               PROVE  /\ got'[u] \in Payloads
                      /\ got'[u].of = want'[u]
                      /\ got'[u].asOf <= now'
                      /\ now' <= got'[u].asOf + FetchBound
      BY DEF InTransit
  <2>2. pc[u] = "sending" /\ got'[u] = got[u] /\ want'[u] = want[u]
      BY <1>1, <1>2 DEF Handlers
  <2> QED
      BY <1>2, <2>1, <2>2 DEF InTransit
<1> QED
    BY <1>3, <1>4, <1>5, <1>6, <1>7, <1>8 DEF Handlers

------------------------------------------------------------------------------
(* One lemma per action of ReadThrough.                                    *)

\* Actions that return nothing leave what Genuine refers to alone.
LEMMA SameGenuine ==
    ASSUME UNCHANGED <<now, newest>>
    PROVE  Genuine' = Genuine
BY DEF Genuine

\* At the start no request is known and the cache is empty.
LEMMA Initially == Init => IInv
<1> SUFFICES ASSUME Init
             PROVE  IInv
    OBVIOUS
<1>1. data \in Seq(Genuine) /\ Distinct(data)
  <2>1. data = <<>>
      BY DEF Init
  <2>2. data \in Seq(Genuine) /\ DOMAIN data = 1 .. Len(data) /\ Len(data) = 0
      BY <2>1, EmptySeq, LenProperties
  <2> QED
      BY <2>2 DEF Distinct
<1>2. Handlers
    BY DEF Init, Handlers, InTransit, Stages
<1> QED
    BY <1>1, <1>2 DEF IInv

LEMMA RequestStep ==
    ASSUME IInv, NEW t \in Tasks, NEW id \in Ids, Request(t, id)
    PROVE  IInv'
<1>0. /\ pc[t] = "idle"
      /\ pc' = [pc EXCEPT ![t] = "asked"]
      /\ want' = [want EXCEPT ![t] = id]
      /\ requests' = requests + 1
      /\ data' = data /\ now' = now /\ got' = got /\ reply' = reply /\ newest' = newest
    BY DEF Request
<1>1. data' \in Seq(Genuine') /\ Distinct(data')
    BY <1>0, SameGenuine DEF IInv
<1>2. Handlers'
    BY <1>0, ReadAssumption DEF IInv, Handlers, InTransit, Stages
<1> QED
    BY <1>1, <1>2 DEF IInv

LEMMA HitStep ==
    ASSUME IInv, NEW t \in Tasks, Hit(t)
    PROVE  IInv'
<1> DEFINE id == want[t]
           e == EntryFor(data, id)
<1>1. /\ Holds(data, id)
      /\ data' = Append(Without(data, id), e)
      /\ Return(t, e.value)
    BY DEF Hit, LiveEntry, Touched
<1>2. e \in Genuine /\ e.id = id
    BY <1>1, FoundEntry
<1> HIDE DEF e
<1>3. /\ e.value \in Payloads /\ e.value.of = id
      /\ e.value.asOf <= e.storedAt /\ e.value.asOf <= now
  <2>1. /\ e.value \in Payloads /\ e.value.of = id
        /\ e.value.asOf <= e.storedAt /\ e.storedAt <= now
      BY <1>2, Typing, GenuineTimes
  <2>2. e.value.asOf \in Nat /\ e.storedAt \in Nat /\ now \in Nat
      BY <1>2, <2>1, Typing
  <2> QED
      BY <2>1, <2>2
<1> HIDE DEF id
<1>4. LET new == Append(Without(data, id), e)
      IN  new \in Seq(Genuine') /\ Distinct(new)
    BY <1>1, <1>2, <1>3, RefreshedGenuine
<1>5. data' \in Seq(Genuine') /\ Distinct(data')
    BY <1>1, <1>4 DEF Distinct
<1>6. Handlers'
    BY <1>1, <1>3, ReturnKeepsHandlers
<1> QED
    BY <1>5, <1>6 DEF IInv

LEMMA MissStep ==
    ASSUME IInv, NEW t \in Tasks, Miss(t)
    PROVE  IInv'
<1> DEFINE id == want[t]
<1>0. /\ pc[t] = "asked"
      /\ data' = IF LiveEntry(id) THEN Touched(data, id) ELSE Without(data, id)
      /\ pc' = [pc EXCEPT ![t] = "fetching"]
      /\ now' = now /\ want' = want /\ got' = got /\ reply' = reply
      /\ requests' = requests /\ newest' = newest
    BY DEF Miss
<1>1. data \in Seq(Genuine) /\ Distinct(data)
    BY DEF IInv
<1>2. data' \in Seq(Genuine) /\ Distinct(data')
  <2>1. CASE LiveEntry(id)
    <3>1. EntryFor(data, id) \in Genuine /\ EntryFor(data, id).id = id
        BY <2>1, FoundEntry DEF LiveEntry
    <3>2. LET new == Append(Without(data, id), EntryFor(data, id))
          IN  new \in Seq(Genuine) /\ Distinct(new)
        BY <1>1, <3>1, RefreshedFacts
    <3> QED
        BY <1>0, <2>1, <3>2 DEF Touched
  <2>2. CASE ~LiveEntry(id)
    <3>1. data' = Without(data, id)
        BY <1>0, <2>2
    <3>2. Without(data, id) \in Seq(Genuine)
        BY <1>1, WithoutFacts DEF Without
    <3> QED
        BY <3>1, <3>2, <1>1, WithoutHolds
  <2> QED
      BY <2>1, <2>2
<1>3. data' \in Seq(Genuine') /\ Distinct(data')
    BY <1>0, <1>2, SameGenuine
<1>4. Handlers'
    BY <1>0 DEF IInv, Handlers, InTransit, Stages
<1> QED
    BY <1>3, <1>4 DEF IInv

LEMMA UpstreamSendsStep ==
    ASSUME IInv, NEW t \in Tasks, NEW null \in BOOLEAN, UpstreamSends(t, null)
    PROVE  IInv'
<1> DEFINE p == [of |-> want[t], asOf |-> now, null |-> null]
<1>0. /\ pc[t] = "fetching"
      /\ pc' = [pc EXCEPT ![t] = "sending"]
      /\ got' = [got EXCEPT ![t] = p]
      /\ data' = data /\ now' = now /\ want' = want /\ reply' = reply
      /\ requests' = requests /\ newest' = newest
    BY DEF UpstreamSends
<1>1. data' \in Seq(Genuine') /\ Distinct(data')
    BY <1>0, SameGenuine DEF IInv
<1>2. Handlers /\ now \in Nat /\ FetchBound \in Nat
    BY Typing DEF IInv
<1>3. p \in Payloads /\ p.of = want[t] /\ p.asOf = now
  <2>1. want[t] \in Ids
      BY <1>0, <1>2 DEF Handlers
  <2> QED
      BY <1>2, <2>1 DEF Payloads
<1> HIDE DEF p
<1>4. InTransit'
  <2> SUFFICES ASSUME NEW u \in Tasks, pc'[u] = "sending"
               PROVE  /\ got'[u] \in Payloads
                      /\ got'[u].of = want'[u]
                      /\ got'[u].asOf <= now'
                      /\ now' <= got'[u].asOf + FetchBound
      BY DEF InTransit
  <2>1. CASE u = t
    <3>1. got'[u] = p
        BY <2>1, <1>0, <1>2 DEF Handlers
    <3> QED
        BY <3>1, <2>1, <1>0, <1>2, <1>3
  <2>2. CASE u # t
    <3>1. pc[u] = "sending" /\ got'[u] = got[u]
        BY <2>2, <1>0, <1>2 DEF Handlers
    <3> QED
        BY <3>1, <1>0, <1>2 DEF Handlers, InTransit
  <2> QED
      BY <2>1, <2>2
<1>5. /\ pc' \in [Tasks -> Stages]
      /\ got' \in [Tasks -> Payloads \cup {None}]
      /\ \A u \in Tasks : pc'[u] = "idle" <=> want'[u] = None
    BY <1>0, <1>2, <1>3 DEF Handlers, Stages
<1>6. Handlers'
    BY <1>0, <1>2, <1>4, <1>5 DEF Handlers
<1> QED
    BY <1>1, <1>6 DEF IInv

LEMMA FetchReturnsStep ==
    ASSUME IInv, NEW t \in Tasks, FetchReturns(t)
    PROVE  IInv'
<1> DEFINE id == want[t]
           p == got[t]
           e == [id |-> id, storedAt |-> now, value |-> p]
<1>0. /\ pc[t] = "sending"
      /\ data' = Kept(id, p)
      /\ Return(t, p)
    BY DEF FetchReturns
<1>1. /\ p \in Payloads /\ p.of = id
      /\ p.asOf <= now /\ now <= p.asOf + FetchBound
    BY <1>0 DEF IInv, Handlers, InTransit
<1>2. /\ now \in Nat /\ id \in Ids /\ newest[id] <= now
      /\ data \in Seq(Genuine) /\ Distinct(data)
    BY <1>1, Typing DEF IInv, Handlers
<1>3. Handlers'
    BY <1>0, <1>1, ReturnKeepsHandlers
<1>4. CASE id[1] \in Cacheable
  <2>1. e \in Genuine /\ e.id = id /\ e.storedAt = now
    <3>1. id \in Cacheable \X Keys
        BY <1>2, <1>4 DEF Ids
    <3> QED
        BY <3>1, <1>1, <1>2 DEF Genuine
  <2>2. data' = Trimmed(Append(Without(data, id), e))
      BY <1>0, <1>4 DEF Kept, Stored
  <2> HIDE DEF e
  <2>3. LET new == Append(Without(data, id), e)
        IN  new \in Seq(Genuine') /\ Distinct(new)
    <3> HIDE DEF id, p
    <3> QED
        BY <1>0, <1>1, <2>1, RefreshedGenuine
  <2> DEFINE new == Append(Without(data, id), e)
  <2>4. new \in Seq(Genuine') /\ Distinct(new)
      BY <2>3
  <2> HIDE DEF new
  <2>5. Trimmed(new) \in Seq(Genuine') /\ Distinct(Trimmed(new))
      BY <2>4, TrimmedFacts, TrimmedHolds
  <2> QED
      BY <2>2, <2>5, <1>3 DEF IInv, new
<1>5. CASE id[1] \notin Cacheable
  <2>1. data' = data
      BY <1>0, <1>5 DEF Kept
  <2>2. \A g \in Genuine : g \in Genuine'
    <3> SUFFICES ASSUME NEW g \in Genuine
                 PROVE  g \in Genuine'
        OBVIOUS
    <3>1. g.id # p.of
        BY <1>1, <1>5, Typing
    <3> QED
        BY <3>1, <1>0, <1>1, StillGenuine
  <2>3. data' \in Seq(Genuine') /\ Distinct(data')
    <3>1. Genuine \subseteq Genuine'
        BY <2>2
    <3> QED
        BY <3>1, <2>1, <1>2, SeqMonotonic
  <2> QED
      BY <2>3, <1>3 DEF IInv
<1> QED
    BY <1>4, <1>5

LEMMA FetchFailsStep ==
    ASSUME IInv, NEW t \in Tasks, FetchFails(t)
    PROVE  IInv'
<1>0. /\ pc' = [pc EXCEPT ![t] = "idle"]
      /\ want' = [want EXCEPT ![t] = None]
      /\ got' = [got EXCEPT ![t] = None]
      /\ reply' = [reply EXCEPT ![t] = Failed]
      /\ data' = data /\ now' = now /\ requests' = requests /\ newest' = newest
    BY DEF FetchFails
<1>1. data' \in Seq(Genuine') /\ Distinct(data')
    BY <1>0, SameGenuine DEF IInv
<1>2. Handlers'
    BY <1>0 DEF IInv, Handlers, InTransit, Stages
<1> QED
    BY <1>1, <1>2 DEF IInv

LEMMA TickStep ==
    ASSUME IInv, Tick
    PROVE  IInv'
<1>0. /\ \A t \in Tasks : pc[t] = "sending" => now - got[t].asOf < FetchBound
      /\ now' = now + 1
      /\ data' = data /\ pc' = pc /\ want' = want /\ got' = got /\ reply' = reply
      /\ requests' = requests /\ newest' = newest
    BY DEF Tick
<1>1. Handlers /\ now \in Nat /\ FetchBound \in Nat /\ newest \in [Ids -> Nat]
    BY Typing DEF IInv
<1>2. Genuine \subseteq Genuine'
  <2> SUFFICES ASSUME NEW g \in Genuine
               PROVE  g \in Genuine'
      OBVIOUS
  <2>1. g \in [id : Cacheable \X Keys, storedAt : Nat, value : Payloads]
      BY DEF Genuine
  <2>2. /\ g.value.of = g.id
        /\ g.value.asOf <= g.storedAt
        /\ g.storedAt <= g.value.asOf + FetchBound
        /\ g.storedAt <= now
        /\ newest[g.id] <= g.storedAt
      BY GenuineTimes
  <2>3. g.storedAt \in Nat
      BY <2>1
  <2>4. g.storedAt <= now'
      BY <1>0, <1>1, <2>2, <2>3
  <2> QED
      BY <1>0, <2>1, <2>2, <2>4 DEF Genuine
<1>3. data' \in Seq(Genuine') /\ Distinct(data')
    BY <1>0, <1>2, SeqMonotonic DEF IInv
<1>4. InTransit'
  <2> SUFFICES ASSUME NEW u \in Tasks, pc[u] = "sending"
               PROVE  /\ got[u] \in Payloads
                      /\ got[u].of = want[u]
                      /\ got[u].asOf <= now + 1
                      /\ now + 1 <= got[u].asOf + FetchBound
      BY <1>0 DEF InTransit
  <2>1. got[u] \in Payloads /\ got[u].of = want[u] /\ got[u].asOf <= now
      BY <1>1 DEF Handlers, InTransit
  <2>2. got[u].asOf \in Nat
      BY <2>1, Typing
  <2>3. now - got[u].asOf < FetchBound
      BY <1>0
  <2> QED
      BY <1>1, <2>1, <2>2, <2>3
<1>5. \A id \in Ids : newest[id] <= now + 1
  <2> SUFFICES ASSUME NEW id \in Ids
               PROVE  newest[id] <= now + 1
      OBVIOUS
  <2>1. newest[id] <= now /\ newest[id] \in Nat
      BY <1>1 DEF Handlers
  <2> QED
      BY <1>1, <2>1
<1>6. Handlers'
    BY <1>0, <1>1, <1>4, <1>5 DEF Handlers
<1> QED
    BY <1>3, <1>6 DEF IInv

\* IInv is inductive: the cache only ever holds genuine entries.
THEOREM Inductive == Spec => []IInv
<1>1. Init => IInv
    BY Initially
<1>2. IInv /\ [Next]_vars => IInv'
  <2> SUFFICES ASSUME IInv, [Next]_vars
               PROVE  IInv'
      OBVIOUS
  <2>1. ASSUME NEW t \in Tasks, NEW id \in Ids, Request(t, id)
        PROVE  IInv'
      BY <2>1, RequestStep
  <2>2. ASSUME NEW t \in Tasks, Hit(t)
        PROVE  IInv'
      BY <2>2, HitStep
  <2>3. ASSUME NEW t \in Tasks, Miss(t)
        PROVE  IInv'
      BY <2>3, MissStep
  <2>4. ASSUME NEW t \in Tasks, NEW null \in BOOLEAN, UpstreamSends(t, null)
        PROVE  IInv'
      BY <2>4, UpstreamSendsStep
  <2>5. ASSUME NEW t \in Tasks, FetchReturns(t)
        PROVE  IInv'
      BY <2>5, FetchReturnsStep
  <2>6. ASSUME NEW t \in Tasks, FetchFails(t)
        PROVE  IInv'
      BY <2>6, FetchFailsStep
  <2>7. CASE Tick
      BY <2>7, TickStep
  <2>8. CASE UNCHANGED vars
      BY <2>8 DEF vars, IInv, Handlers, InTransit, Genuine, Distinct
  <2> QED
      BY <2>1, <2>2, <2>3, <2>4, <2>5, <2>6, <2>7, <2>8 DEF Next
<1> QED
    BY <1>1, <1>2, PTL DEF Spec

\* The variables of ReadThrough keep their types.
THEOREM TypeCorrect == Spec => []TypeOK
<1>1. IInv => TypeOK
  <2> SUFFICES ASSUME IInv
               PROVE  TypeOK
      OBVIOUS
  <2>1. Genuine \subseteq [id : Cacheable \X Keys, storedAt : Nat, value : Payloads]
      BY DEF Genuine
  <2>2. data \in Seq([id : Cacheable \X Keys, storedAt : Nat, value : Payloads])
      BY <2>1, SeqMonotonic DEF IInv
  <2> QED
      BY <2>2 DEF IInv, Handlers, TypeOK
<1> QED
    BY <1>1, Inductive, PTL

------------------------------------------------------------------------------
(* The refinement of FreshRead.                                            *)

\* Returning a payload that is recent enough is a Serve of the promise.
LEMMA ReturnServes ==
    ASSUME IInv, NEW t \in Tasks, NEW p \in Payloads, Return(t, p),
           want[t] = p.of,
           p.asOf <= now,
           now - p.asOf <= Promise!Window(p.of[1]),
           p.asOf + FetchBound >= newest[p.of]
    PROVE  Promise!Next
<1>1. Promise!Serve(t, p.of, p.asOf, p.null)
    BY DEF Promise!Serve, Return
<1>2. p.of \in Ids /\ p.asOf \in 0 .. now /\ p.null \in BOOLEAN
    BY Typing
<1> QED
    BY <1>1, <1>2 DEF Promise!Next, Promise!Objects, Ids

\* What a hit returns is no older than TTL plus one fetch.
LEMMA HitServes ==
    ASSUME IInv, NEW t \in Tasks, Hit(t)
    PROVE  Promise!Next
<1> DEFINE id == want[t]
           e == EntryFor(data, id)
<1>1. Holds(data, id) /\ ~TooOld(e, now) /\ Return(t, e.value)
    BY DEF Hit, LiveEntry
<1>2. e \in Genuine /\ e.id = id
    BY <1>1, FoundEntry
<1> HIDE DEF e
<1>3. /\ e.value \in Payloads /\ e.value.of = id
      /\ e.value.asOf <= e.storedAt
      /\ e.storedAt <= e.value.asOf + FetchBound
      /\ e.storedAt <= now
      /\ newest[id] <= e.storedAt
    BY <1>2, Typing, GenuineTimes
<1>4. /\ e.value.asOf \in Nat /\ e.storedAt \in Nat /\ now \in Nat /\ FetchBound \in Nat
      /\ id \in Ids /\ newest[id] \in Nat
      /\ id[1] \in Cacheable /\ TTL[id[1]] \in Nat
    BY <1>2, <1>3, Typing, CacheAssumption DEF Cacheable
<1>5. now - e.storedAt <= TTL[id[1]]
  <2>1. ~(now - e.storedAt > TTL[id[1]])
      BY <1>1, <1>2 DEF TooOld
  <2> QED
      BY <2>1, <1>4
<1> HIDE DEF id
<1>6. Promise!Window(id[1]) = FetchBound + TTL[id[1]]
    BY <1>4 DEF Promise!Window, Cacheable
<1>7. /\ e.value.asOf <= now
      /\ now - e.value.asOf <= FetchBound + TTL[id[1]]
      /\ e.value.asOf + FetchBound >= newest[id]
    BY <1>3, <1>4, <1>5
<1>8. want[t] = e.value.of
    BY <1>3 DEF id
<1> QED
    BY <1>1, <1>3, <1>6, <1>7, <1>8, ReturnServes

\* A fetched payload is younger still, whatever the cache did meanwhile.
LEMMA FetchServes ==
    ASSUME IInv, NEW t \in Tasks, FetchReturns(t)
    PROVE  Promise!Next
<1> DEFINE p == got[t]
<1>1. pc[t] = "sending" /\ Return(t, p)
    BY DEF FetchReturns
<1>2. /\ p \in Payloads /\ p.of = want[t]
      /\ p.asOf <= now /\ now <= p.asOf + FetchBound
    BY <1>1 DEF IInv, Handlers, InTransit
<1>3. /\ p.of \in Ids /\ p.asOf \in Nat /\ now \in Nat /\ FetchBound \in Nat
      /\ newest[p.of] \in Nat
    BY <1>2, Typing
<1>4. newest[p.of] <= now
    BY <1>3 DEF IInv, Handlers
<1> HIDE DEF p
<1>5. now - p.asOf <= Promise!Window(p.of[1])
  <2>1. CASE p.of[1] \in DOMAIN TTL
    <3>1. TTL[p.of[1]] \in Nat
        BY <2>1, CacheAssumption
    <3>2. Promise!Window(p.of[1]) = FetchBound + TTL[p.of[1]]
        BY <2>1 DEF Promise!Window
    <3> QED
        BY <3>1, <3>2, <1>2, <1>3
  <2>2. CASE p.of[1] \notin DOMAIN TTL
    <3>1. Promise!Window(p.of[1]) = FetchBound + 0
        BY <2>2 DEF Promise!Window
    <3> QED
        BY <3>1, <1>2, <1>3
  <2> QED
      BY <2>1, <2>2
<1>6. p.asOf + FetchBound >= newest[p.of]
    BY <1>2, <1>3, <1>4
<1> QED
    BY <1>1, <1>2, <1>5, <1>6, ReturnServes

\* Every handler is kept to FreshRead's promise: its answer is of the object it
\* asked for, at most TTL plus one fetch old, and at most one fetch older than
\* what any reader of that object has seen (get_or_fetch, get and set).
THEOREM Refines == Spec => KeepsPromise
<1>1. Init => Promise!Init
    BY DEF Init, Promise!Init, Promise!Objects, Ids
<1>2. IInv /\ [Next]_vars => [Promise!Next]_<<now, want, reply, newest>>
  <2> SUFFICES ASSUME IInv, [Next]_vars
               PROVE  Promise!Next \/ UNCHANGED <<now, want, reply, newest>>
      OBVIOUS
  <2>1. ASSUME NEW t \in Tasks, NEW id \in Ids, Request(t, id)
        PROVE  Promise!Next
    <3>1. want[t] = None
        BY <2>1 DEF IInv, Handlers, Request
    <3>2. Promise!Ask(t, id)
        BY <2>1, <3>1 DEF Request, Promise!Ask
    <3> QED
        BY <3>2 DEF Promise!Next, Promise!Objects, Ids
  <2>2. ASSUME NEW t \in Tasks, Hit(t)
        PROVE  Promise!Next
      BY <2>2, HitServes
  <2>3. ASSUME NEW t \in Tasks, Miss(t)
        PROVE  UNCHANGED <<now, want, reply, newest>>
      BY <2>3 DEF Miss
  <2>4. ASSUME NEW t \in Tasks, NEW null \in BOOLEAN, UpstreamSends(t, null)
        PROVE  UNCHANGED <<now, want, reply, newest>>
      BY <2>4 DEF UpstreamSends
  <2>5. ASSUME NEW t \in Tasks, FetchReturns(t)
        PROVE  Promise!Next
      BY <2>5, FetchServes
  <2>6. ASSUME NEW t \in Tasks, FetchFails(t)
        PROVE  Promise!Next
    <3>1. want[t] # None
        BY <2>6 DEF IInv, Handlers, FetchFails
    <3>2. Promise!Fail(t)
        BY <2>6, <3>1 DEF FetchFails, Promise!Fail
    <3> QED
        BY <3>2 DEF Promise!Next
  <2>7. CASE Tick
    <3>1. Promise!TimePasses
        BY <2>7 DEF Tick, Promise!TimePasses
    <3> QED
        BY <3>1 DEF Promise!Next
  <2>8. CASE UNCHANGED vars
      BY <2>8 DEF vars
  <2> QED
      BY <2>1, <2>2, <2>3, <2>4, <2>5, <2>6, <2>7, <2>8 DEF Next
<1> QED
    BY <1>1, <1>2, Inductive, PTL DEF Spec, KeepsPromise, Promise!Spec
==============================================================================
