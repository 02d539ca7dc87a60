------------------------------ MODULE ReadThrough ------------------------------
(***************************************************************************)
(* TTLCache.get_or_fetch as the block, transaction, asset and application  *)
(* handlers of service.py run it: many requests on one event loop, one     *)
(* cache.  A handler runs without interruption between awaits, so a lookup *)
(* is a step, and so are the set and return that follow a fetch.  Between  *)
(* them the fetch is awaited and anything may happen, a second fetch of    *)
(* the same key included: there is no single-flight.                       *)
(*                                                                         *)
(* A payload is abstracted to the object it describes, the moment the      *)
(* upstream produced it, and whether it is null (a 200 with an empty body  *)
(* decodes to None).  The counters of the cache, which influence nothing   *)
(* here, are modelled in TTLCache.                                         *)
(***************************************************************************)
EXTENDS CacheData, FiniteSets

CONSTANTS
    Tasks,           (* request handlers                                   *)
    Prompt,          (* those whose upstream calls come back, one day      *)
    FetchBound,      (* ALGORAND_TIMEOUT_S: from the upstream producing a  *)
                     (* payload to the handler holding it, in ticks        *)
    None, Failed,
    MaxRequests,     (* bound: requests served                             *)
    MaxTime          (* bound: ticks of the clock                          *)

ASSUME ReadAssumption ==
    /\ Prompt \subseteq Tasks
    /\ FetchBound \in Nat
    /\ MaxRequests \in Nat /\ MaxTime \in Nat
    /\ None \notin Ids

VARIABLES
    data,            (* the cache, as in CacheData                         *)
    now,             (* time.monotonic(), in ticks                         *)
    pc,              (* where each handler is in get_or_fetch              *)
    want,            (* the (kind, key) it was asked for, None when idle   *)
    got,             (* the payload the upstream is sending it             *)
    reply,           (* what get_or_fetch last returned to it              *)
    requests,        (* requests accepted so far                           *)
    newest           (* id -> moment of the newest payload ever returned   *)

vars == <<data, now, pc, want, got, reply, requests, newest>>

Payloads == [of : Ids, asOf : Nat, null : BOOLEAN]
Replies == [of : Ids, age : Nat, null : BOOLEAN]
Stages == {"idle", "asked", "fetching", "sending"}

Init ==
    /\ data = <<>>
    /\ now = 0
    /\ pc = [t \in Tasks |-> "idle"]
    /\ want = [t \in Tasks |-> None]
    /\ got = [t \in Tasks |-> None]
    /\ reply = [t \in Tasks |-> None]
    /\ requests = 0
    /\ newest = [id \in Ids |-> 0]

------------------------------------------------------------------------------
\* A request reaches its handler; the handler has not run yet.
Request(t, id) ==
    /\ requests < MaxRequests
    /\ requests' = requests + 1
    /\ pc[t] = "idle"
    /\ pc' = [pc EXCEPT ![t] = "asked"]
    /\ want' = [want EXCEPT ![t] = id]
    /\ UNCHANGED <<data, now, got, reply, newest>>

\* get_or_fetch returns payload p to handler t.
Return(t, p) ==
    /\ pc' = [pc EXCEPT ![t] = "idle"]
    /\ want' = [want EXCEPT ![t] = None]
    /\ got' = [got EXCEPT ![t] = None]
    /\ reply' = [reply EXCEPT ![t] = [of |-> p.of, age |-> now - p.asOf, null |-> p.null]]
    /\ newest' = [newest EXCEPT ![p.of] = IF p.asOf > @ THEN p.asOf ELSE @]
    /\ UNCHANGED <<now, requests>>

\* get() finds a live entry for id, and moves it to the recent end.
LiveEntry(id) == Holds(data, id) /\ ~TooOld(EntryFor(data, id), now)

\* "if hit is not None: return hit".
Hit(t) ==
    LET id == want[t] IN
    /\ pc[t] = "asked"
    /\ LiveEntry(id)
    /\ ~EntryFor(data, id).value.null
    /\ data' = Touched(data, id)
    /\ Return(t, EntryFor(data, id).value)

\* get() found nothing, an expired entry (which it deletes), or a live entry
\* holding None (which it moves to the end): in every case the fetch starts.
MissWaitMutant(t) ==                       \* one fetch per key at a time
    LET id == want[t] IN
    /\ pc[t] = "asked"
    /\ LiveEntry(id) => EntryFor(data, id).value.null
    /\ \A u \in Tasks \ {t} : want[u] = id => pc[u] = "asked"
    /\ data' = IF LiveEntry(id) THEN Touched(data, id) ELSE Without(data, id)
    /\ pc' = [pc EXCEPT ![t] = "fetching"]
    /\ UNCHANGED <<now, want, got, reply, requests, newest>>

Miss(t) ==
    LET id == want[t] IN
    /\ pc[t] = "asked"
    /\ LiveEntry(id) => EntryFor(data, id).value.null
    /\ data' = IF LiveEntry(id) THEN Touched(data, id) ELSE Without(data, id)
    /\ pc' = [pc EXCEPT ![t] = "fetching"]
    /\ UNCHANGED <<now, want, got, reply, requests, newest>>

\* The upstream reads its state and begins to send what it read.
UpstreamSends(t, null) ==
    /\ pc[t] = "fetching"
    /\ pc' = [pc EXCEPT ![t] = "sending"]
    /\ got' = [got EXCEPT ![t] = [of |-> want[t], asOf |-> now, null |-> null]]
    /\ UNCHANGED <<data, now, want, reply, requests, newest>>

KeptUndeclaredMutant(id, p) == Trimmed(Stored(data, id, now, p))

\* The fetch returns: set and return, in one go.  An older payload may
\* overwrite a newer one fetched meanwhile.
Kept(id, p) ==
    IF id[1] \in Cacheable THEN Trimmed(Stored(data, id, now, p)) ELSE data

FetchReturns(t) ==
    /\ pc[t] = "sending"
    /\ data' = Kept(want[t], got[t])
    /\ Return(t, got[t])

\* The fetch raises (an AlgorandError, an undecodable body) or the request is
\* cancelled: nothing is stored and the exception passes through.
FetchFails(t) ==
    /\ pc[t] \in {"fetching", "sending"}
    /\ pc' = [pc EXCEPT ![t] = "idle"]
    /\ want' = [want EXCEPT ![t] = None]
    /\ got' = [got EXCEPT ![t] = None]
    /\ reply' = [reply EXCEPT ![t] = Failed]
    /\ UNCHANGED <<data, now, requests, newest>>

\* The total timeout of the session covers the response body, so a payload is
\* in hand, or its attempt has failed, within FetchBound of being produced.
Tick ==
    /\ now < MaxTime
    /\ \A t \in Tasks : pc[t] = "sending" => now - got[t].asOf < FetchBound
    /\ now' = now + 1
    /\ UNCHANGED <<data, pc, want, got, reply, requests, newest>>

FetchEnds(t) == FetchReturns(t) \/ FetchFails(t)

Next ==
    \/ \E t \in Tasks :
          \/ \E id \in Ids : Request(t, id)
          \/ Hit(t)
          \/ Miss(t)
          \/ \E null \in BOOLEAN : UpstreamSends(t, null)
          \/ FetchReturns(t)
          \/ FetchFails(t)
    \/ Tick

\* The event loop runs every handler that can run.  Only the fetches of the
\* Prompt handlers are known to end: the others may hang for ever.
Fairness ==
    \A t \in Prompt :
        /\ WF_vars(Hit(t) \/ Miss(t))
        /\ WF_vars((\E null \in BOOLEAN : UpstreamSends(t, null)) \/ FetchEnds(t))

Spec == Init /\ [][Next]_vars

FairSpec == Spec /\ Fairness

------------------------------------------------------------------------------
(* Type invariant.                                                         *)
TypeOK ==
    /\ data \in Seq([id : Cacheable \X Keys, storedAt : Nat, value : Payloads])
    /\ now \in Nat
    /\ pc \in [Tasks -> Stages]
    /\ want \in [Tasks -> Ids \cup {None}]
    /\ got \in [Tasks -> Payloads \cup {None}]
    /\ reply \in [Tasks -> Replies \cup {None, Failed}]
    /\ requests \in Nat
    /\ newest \in [Ids -> Nat]

\* Handlers are built from FreshRead's promise and nothing else: every reply
\* is of the object asked for, no older than TTL plus one fetch, and no reader
\* goes back in time by more than one fetch, however the lookups, fetches,
\* evictions and overwrites of all handlers interleave.
Promise == INSTANCE FreshRead WITH clock <- now, waiting <- want, answer <- reply

KeepsPromise == Promise!Spec

\* One stuck upstream call blocks nobody else: a handler whose own fetch ends
\* is answered, even when another handler hangs for ever on the same key
\* ("a stuck fetch blocking every waiter", get_or_fetch).
PromptServed == \A t \in Prompt : pc[t] = "asked" ~> pc[t] = "idle"

\* "Never cached ...: accounts, balances, transaction lists, stats and health
\* all change per round, and serving a stale balance is the kind of wrong
\* answer this project exists to avoid" (cache.py:36-39).  A transaction
\* payload carries current-round, from which get_transaction computes the
\* confirmations; data that changes per round is never older than its fetch.
ConfirmationsFromTip ==
    \A t \in Tasks :
        reply[t] \in Replies /\ reply[t].of[1] = "transaction"
            => reply[t].age <= FetchBound
==============================================================================
