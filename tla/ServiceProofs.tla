----------------------------- MODULE ServiceProofs -----------------------------
(***************************************************************************)
(* A search, alone and inside the service.  The service runs it as Search  *)
(* does (SearchInside), so what is proved of Search holds of the service;  *)
(* then what a search has in common with the routes, what the counters     *)
(* count, and what a scrape shows of them, for any terms and any number of requests.                *)
(*                                                                         *)
(* The inductive invariant of the search says where a namespace can be     *)
(* that matched all along: found, failed, or still to be probed.           *)
(***************************************************************************)
EXTENDS Service, FiniteSetTheorems, TLAPS

\* The namespaces that are still to be probed.
Ahead ==
    {n \in Namespaces :
        n = pc \/ (pc = "asset" /\ n = "application") \/ (pc = "unit" /\ n = "name")}

Typed ==
    /\ term \in Terms
    /\ pc \in Namespaces \cup {"new", "done"}
    /\ results \in Seq(Namespaces)
    /\ matching \subseteq CanMatch(term)
    /\ always \subseteq matching
    /\ asked \in Seq(Namespaces)
    /\ failed \subseteq Namespaces

Staged ==
    /\ pc # "done" => reply = None
    /\ pc = "new" => asked = <<>> /\ failed = {}
    /\ pc \in Namespaces => pc \in Searched(term) /\ asked # <<>>

FoundOrAhead ==
    pc \in Namespaces \/ reply = 200 =>
        \A n \in (always \cap Searched(term)) \ failed :
            n \in Found \/ n \in Ahead \/ (n = "name" /\ "unit" \in Found)

\* Of a number it is asked exactly if it can be one.
AskedRightly ==
    Shape(term) = "numeric" /\ pc # "new" =>
        (asked # <<>> <=> term.number # None /\ ValidUint64(term))

IInv == Typed /\ Staged /\ FoundOrAhead /\ OutageShows /\ AskedRightly
           /\ Found \subseteq CanMatch(term)
           /\ (Shape(term) = "other" /\ failed # {} => pc = "done")

------------------------------------------------------------------------------
LEMMA Shapes == ASSUME NEW t PROVE Shape(t) \in {"address", "transaction", "numeric", "other"}
BY DEF Shape

LEMMA SearchedIs ==
    ASSUME NEW t
    PROVE  /\ Shape(t) = "address" => Searched(t) = {"account"} /\ FirstProbe(t) = "account"
           /\ Shape(t) = "transaction" =>
                 Searched(t) = {"transaction"} /\ FirstProbe(t) = "transaction"
           /\ Shape(t) = "numeric" =>
                 Searched(t) = {"asset", "application"} /\ FirstProbe(t) = "asset"
           /\ Shape(t) = "other" => Searched(t) = {"unit", "name"} /\ FirstProbe(t) = "unit"
BY DEF Searched, FirstProbe

\* What an id must be to match something.
LEMMA NumbersMatch ==
    ASSUME NEW t
    PROVE  /\ "asset" \in CanMatch(t) <=> t.number # None /\ ValidUint64(t)
           /\ "application" \in CanMatch(t) <=> t.number # None /\ ValidUint64(t)
BY DEF CanMatch, ValidUint64

LEMMA CanMatchOnly == ASSUME NEW t PROVE CanMatch(t) \subseteq Namespaces
BY DEF CanMatch, Namespaces

LEMMA FoundGrows ==
    ASSUME results \in Seq(Namespaces), NEW n \in Namespaces, results' = Append(results, n)
    PROVE  results' \in Seq(Namespaces) /\ Found' = Found \cup {n}
<1>1. results' \in Seq(Namespaces) /\ Len(results') = Len(results) + 1
  OBVIOUS
<1>2. /\ \A i \in DOMAIN results : results'[i] = results[i]
      /\ results'[Len(results) + 1] = n
  OBVIOUS
<1>3. DOMAIN results' = DOMAIN results \cup {Len(results) + 1}
  BY <1>1
<1>4. Found' = Found \cup {n}
  BY <1>2, <1>3 DEF Found
<1>5. QED
  BY <1>1, <1>4

LEMMA AfterIs ==
    ASSUME NEW n \in Namespaces, NEW hit \in BOOLEAN
    PROVE  /\ n = "asset" => After(n, hit) = "application"
           /\ n = "unit" /\ ~hit => After(n, hit) = "name"
           /\ n # "asset" /\ ~(n = "unit" /\ ~hit) => After(n, hit) = "done"
BY DEF After

LEMMA AttributedIsNot200 == ASSUME NEW failure \in Failures PROVE Attributed(failure) # 200
BY DEF Attributed, Failures, NoStatus

------------------------------------------------------------------------------
LEMMA InitInv == Init => IInv
<1>1. SUFFICES ASSUME Init PROVE IInv
  OBVIOUS
<1>2. Typed
  BY <1>1 DEF Init, Typed
<1>3. pc = "new" /\ "new" \notin Namespaces /\ reply = None
  BY <1>1 DEF Init, Namespaces
<1>4. Found = {}
  BY <1>1 DEF Init, Found
<1>5. QED
  BY <1>1, <1>2, <1>3, <1>4 DEF IInv, Init, Staged, FoundOrAhead, OutageShows, AskedRightly

LEMMA ArriveInv == ASSUME IInv, Arrive PROVE IInv'
<1>1. /\ pc = "new" /\ always' = matching
      /\ UNCHANGED <<term, results, matching, changes, failed>>
  BY DEF Arrive
<1>2. Typed /\ asked = <<>> /\ failed = {} /\ reply = None
  BY <1>1 DEF IInv, Staged
<1>a. Found' \subseteq CanMatch(term)'
  BY <1>1 DEF IInv, Found
<1>3. CASE Shape(term) = "numeric" /\ ~(term.number # None /\ ValidUint64(term))
  <2>1. pc' = "done" /\ reply' \in {200, 500} /\ asked' = <<>>
    BY <1>2, <1>3 DEF Arrive, Respond
  <2>2. always' \cap Searched(term) = {}
    <3>1. "asset" \notin matching /\ "application" \notin matching
      BY <1>2, <1>3, NumbersMatch DEF Typed
    <3>2. QED
      BY <1>1, <1>3, <3>1, SearchedIs
  <2>3. Typed'
    BY <1>1, <1>2, <2>1 DEF Typed
  <2>4. Staged'
    BY <2>1 DEF Staged, Namespaces
  <2>5. FoundOrAhead'
    BY <1>1, <2>2 DEF FoundOrAhead, Searched, Shape
  <2>6. OutageShows' /\ AskedRightly' /\ (Shape(term) = "other" /\ failed # {} => pc = "done")'
    BY <1>1, <1>2, <1>3, <2>1 DEF OutageShows, AskedRightly
  <2>7. QED
    BY <1>a, <2>3, <2>4, <2>5, <2>6 DEF IInv
<1>4. CASE ~(Shape(term) = "numeric" /\ ~(term.number # None /\ ValidUint64(term)))
  <2>1. /\ pc' = FirstProbe(term) /\ asked' = Append(asked, FirstProbe(term))
        /\ UNCHANGED reply
    BY <1>4 DEF Arrive, Probe
  <2>2. /\ pc' \in Namespaces /\ pc' \in Searched(term)
        /\ \A n \in Searched(term) : n = pc' \/ (pc' = "asset" /\ n = "application")
                                             \/ (pc' = "unit" /\ n = "name")
    BY <2>1, Shapes, SearchedIs DEF Namespaces
  <2>3. asked' \in Seq(Namespaces) /\ asked' # <<>>
    BY <1>2, <2>1, <2>2
  <2>4. Typed'
    BY <1>1, <1>2, <2>2, <2>3 DEF Typed
  <2>5. Staged'
    BY <1>1, <1>2, <2>1, <2>2, <2>3 DEF Staged, Namespaces, Searched, Shape
  <2>6. Searched(term)' = Searched(term)
    BY <1>1
  <2>7. Searched(term) \subseteq Namespaces
    BY Shapes, SearchedIs DEF Namespaces
  <2>8. FoundOrAhead'
    BY <2>2, <2>6, <2>7 DEF FoundOrAhead, Ahead
  <2>9. reply' # 200
    BY <1>2, <2>1, TermAssumption
  <2>10. OutageShows' /\ AskedRightly' /\ (Shape(term) = "other" /\ failed # {} => pc = "done")'
    BY <1>1, <1>2, <1>4, <2>3, <2>9 DEF OutageShows, AskedRightly
  <2>11. QED
    BY <1>a, <2>4, <2>5, <2>8, <2>10 DEF IInv
<1>5. QED
  BY <1>3, <1>4

\* The probe of n is over: what it left behind is accounted for.
LEMMA ContinueInv ==
    ASSUME IInv, NEW n \in Namespaces, pc = n, NEW hit \in BOOLEAN, Continue(n, hit),
           results' \in Seq(Namespaces), failed' \subseteq Namespaces,
           Found \subseteq Found', Found' \subseteq CanMatch(term), failed \subseteq failed',
           hit => n \in Found',
           n \in always /\ ~hit => n \in failed',
           Shape(term) = "other" => failed' = failed
    PROVE  IInv'
<1>1. Typed /\ Staged /\ FoundOrAhead /\ AskedRightly /\ n \in Searched(term)
  BY DEF IInv, Staged
<1>2. UNCHANGED <<term, matching, changes, always>>
  BY DEF Continue
<1>3. n # "new" /\ n # "done"
  BY DEF Namespaces
<1>4. Searched(term)' = Searched(term) /\ Shape(term)' = Shape(term)
  BY <1>2
<1>5. asked # <<>>
  BY DEF IInv, Staged
<1>6. Shape(term) = "other" => failed = {}
  BY <1>3 DEF IInv
<1>7. CASE After(n, hit) = "done"
  <2>1. pc' = "done" /\ reply' = 200 /\ asked' = asked
    BY <1>7 DEF Continue, Respond
  <2>2. Typed'
    BY <1>1, <1>2, <2>1 DEF Typed
  <2>3. Staged'
    BY <2>1 DEF Staged, Namespaces
  <2>4. n # "asset" /\ (n = "unit" => hit)
    BY <1>7, AfterIs
  <2>5. ASSUME NEW m \in (always' \cap Searched(term)') \ failed'
        PROVE  m \in Found' \/ (m = "name" /\ "unit" \in Found')
    <3>1. m \in (always \cap Searched(term)) \ failed
      BY <1>2, <1>4, <2>5
    <3>2. m \in Found \/ m \in Ahead \/ (m = "name" /\ "unit" \in Found)
      BY <1>1, <3>1 DEF FoundOrAhead
    <3>3. m \in Ahead => m = n \/ (n = "unit" /\ m = "name")
      BY <2>4 DEF Ahead
    <3>4. QED
      BY <1>2, <2>4, <2>5, <3>2, <3>3
  <2>6. FoundOrAhead'
    BY <2>5 DEF FoundOrAhead
  <2>7. OutageShows'
    BY <1>4, <1>6 DEF OutageShows
  <2>8. AskedRightly'
    BY <1>1, <1>2, <1>3, <2>1 DEF AskedRightly
  <2>9. QED
    BY <1>2, <2>1, <2>2, <2>3, <2>6, <2>7, <2>8 DEF IInv
<1>8. CASE After(n, hit) # "done"
  <2>1. pc' = After(n, hit) /\ asked' = Append(asked, After(n, hit)) /\ reply' = reply
    BY <1>8 DEF Continue, Probe
  <2>2. (n = "asset" /\ pc' = "application") \/ (n = "unit" /\ ~hit /\ pc' = "name")
    BY <1>8, <2>1, AfterIs
  <2>3. pc' \in Namespaces /\ pc' # "done" /\ pc' # "new"
    BY <2>2 DEF Namespaces
  <2>4. asked' \in Seq(Namespaces) /\ asked' # <<>>
    BY <1>1, <2>1, <2>3 DEF Typed
  <2>5. Typed'
    BY <1>1, <1>2, <2>3, <2>4 DEF Typed
  <2>6. pc' \in Searched(term)
    BY <1>1, <2>2, Shapes, SearchedIs
  <2>7. reply' = None /\ reply' # 200
    BY TermAssumption, SearchAssumption, <1>1, <1>3, <2>1 DEF Staged
  <2>8. Staged'
    BY <1>4, <2>3, <2>4, <2>6, <2>7 DEF Staged
  <2>9. ASSUME NEW m \in (always' \cap Searched(term)') \ failed'
        PROVE  m \in Found' \/ m \in Ahead' \/ (m = "name" /\ "unit" \in Found')
    <3>1. m \in (always \cap Searched(term)) \ failed /\ m \in Namespaces
      BY <1>1, <1>2, <1>4, <2>9, CanMatchOnly DEF Typed
    <3>2. m \in Found \/ m \in Ahead \/ (m = "name" /\ "unit" \in Found)
      BY <1>1, <3>1 DEF FoundOrAhead
    <3>3. m \in Ahead => m = n \/ m = pc'
      BY <2>2 DEF Ahead
    <3>4. m = n => m \in Found'
      BY <1>2, <2>9
    <3>5. m = pc' => m \in Ahead'
      BY <3>1 DEF Ahead
    <3>6. QED
      BY <3>2, <3>3, <3>4, <3>5
  <2>10. FoundOrAhead'
    BY <2>9 DEF FoundOrAhead
  <2>11. OutageShows'
    BY <2>7 DEF OutageShows
  <2>12. AskedRightly'
    BY <1>1, <1>2, <1>3, <1>5, <2>4 DEF AskedRightly
  <2>13. (Shape(term) = "other" /\ failed # {} => pc = "done")'
    BY <1>4, <1>6
  <2>14. QED
    BY <1>2, <2>5, <2>8, <2>10, <2>11, <2>12, <2>13 DEF IInv
<1>9. QED
  BY <1>7, <1>8

\* A response other than 200 owes nothing.
LEMMA FailingInv ==
    ASSUME IInv, NEW n \in Namespaces, pc = n, NEW code, code # 200,
           Respond(code), failed' \subseteq Namespaces,
           UNCHANGED <<term, results, matching, always, asked>>
    PROVE  IInv'
<1>1. Typed /\ AskedRightly /\ pc' = "done" /\ reply' = code /\ n # "new"
  BY DEF IInv, Respond, Namespaces
<1>2. Typed'
  BY <1>1 DEF Typed
<1>3. Staged' /\ FoundOrAhead' /\ OutageShows'
  BY <1>1 DEF Staged, FoundOrAhead, OutageShows, Namespaces
<1>4. AskedRightly'
  BY <1>1 DEF AskedRightly
<1>5. Found' \subseteq CanMatch(term)'
  BY DEF IInv, Found
<1>6. QED
  BY <1>1, <1>2, <1>3, <1>4, <1>5 DEF IInv

LEMMA HitInv == ASSUME IInv, NEW n \in Namespaces, Hit(n) PROVE IInv'
<1>1. /\ pc = n /\ n \in matching
      /\ results' = Append(results, n) /\ Continue(n, TRUE) /\ failed' = failed
  BY DEF Hit
<1>2. Typed
  BY DEF IInv
<1>3. results' \in Seq(Namespaces) /\ Found' = Found \cup {n}
  BY <1>1, <1>2, FoundGrows DEF Typed
<1>4. failed' \subseteq Namespaces
  BY <1>1, <1>2 DEF Typed
<1>5. Found' \subseteq CanMatch(term)
  BY <1>1, <1>2, <1>3 DEF IInv, Typed
<1>6. QED
  BY <1>1, <1>3, <1>4, <1>5, ContinueInv

LEMMA MissInv == ASSUME IInv, NEW n \in Namespaces, Miss(n) PROVE IInv'
<1>1. pc = n /\ n \notin matching /\ Continue(n, FALSE) /\ UNCHANGED <<results, failed>>
  BY DEF Miss
<1>2. Typed
  BY DEF IInv
<1>3. n \notin always
  BY <1>1, <1>2 DEF Typed
<1>4. results' \in Seq(Namespaces) /\ Found' = Found /\ failed' \subseteq Namespaces
  BY <1>1, <1>2 DEF Typed, Found
<1>5. Found' \subseteq CanMatch(term)
  BY <1>4 DEF IInv
<1>6. QED
  BY <1>1, <1>3, <1>4, <1>5, ContinueInv

LEMMA ProbeFailsInv ==
    ASSUME IInv, NEW n \in Namespaces, NEW failure \in Failures, ProbeFails(n, failure)
    PROVE  IInv'
<1>1. pc = n /\ failed' = failed \cup {n} /\ results' = results
  BY DEF ProbeFails
<1>2. Typed
  BY DEF IInv
<1>3. results' \in Seq(Namespaces) /\ Found' = Found /\ failed' \subseteq Namespaces
  BY <1>1, <1>2 DEF Typed, Found
<1>a. Found' \subseteq CanMatch(term)
  BY <1>3 DEF IInv
<1>4. CASE LetsThrough(n)
  <2>1. Respond(Attributed(failure)) /\ UNCHANGED <<term, matching, changes, always, asked>>
    BY <1>4 DEF ProbeFails
  <2>2. QED
    BY <1>1, <1>3, <2>1, AttributedIsNot200, FailingInv
<1>5. CASE ~LetsThrough(n)
  <2>1. Continue(n, FALSE)
    BY <1>5 DEF ProbeFails
  <2>2. Shape(term) # "other"
    <3>1. n \in Searched(term)
      BY <1>1 DEF IInv, Staged
    <3>2. QED
      BY <1>5, <3>1, SearchedIs DEF LetsThrough
  <2>3. QED
    BY <1>1, <1>3, <1>a, <2>1, <2>2, ContinueInv
<1>6. QED
  BY <1>4, <1>5

LEMMA ProbeRaisesInv == ASSUME IInv, ProbeRaises PROVE IInv'
<1>1. /\ pc \in Namespaces /\ Respond(500) /\ failed' = failed \cup {pc}
      /\ UNCHANGED <<term, results, matching, always, asked>>
  BY DEF ProbeRaises
<1>2. failed' \subseteq Namespaces
  BY <1>1 DEF IInv, Typed
<1>3. QED
  BY <1>1, <1>2, FailingInv

LEMMA ChainChangesInv ==
    ASSUME IInv, NEW n \in CanMatch(term), ChainChanges(n) PROVE IInv'
<1>1. /\ matching' \subseteq matching \cup {n} /\ always' = always \cap matching'
      /\ UNCHANGED <<term, pc, results, reply, asked, failed>>
  BY DEF ChainChanges
<1>2. Typed'
  BY <1>1 DEF IInv, Typed
<1>3. Found' = Found /\ Ahead' = Ahead /\ Searched(term)' = Searched(term)
  BY <1>1 DEF Found, Ahead
<1>4. FoundOrAhead'
  BY <1>1, <1>3 DEF IInv, FoundOrAhead
<1>5. Staged' /\ OutageShows' /\ AskedRightly'
  BY <1>1, <1>3 DEF IInv, Staged, OutageShows, AskedRightly
<1>6. Found' \subseteq CanMatch(term)'
  BY <1>1, <1>3 DEF IInv
<1>7. QED
  BY <1>1, <1>2, <1>4, <1>5, <1>6 DEF IInv

LEMMA SearchStutters == ASSUME IInv, UNCHANGED vars PROVE IInv'
<1>1. Typed' /\ Found' = Found /\ Ahead' = Ahead /\ Searched(term)' = Searched(term)
  BY DEF vars, IInv, Typed, Found, Ahead
<1>2. Staged' /\ FoundOrAhead' /\ OutageShows' /\ AskedRightly'
  BY <1>1 DEF vars, IInv, Staged, FoundOrAhead, OutageShows, AskedRightly
<1>3. QED
  BY <1>1, <1>2 DEF vars, IInv

LEMMA NextInv == IInv /\ [Next]_vars => IInv'
BY ArriveInv, HitInv, MissInv, ProbeFailsInv, ProbeRaisesInv, ChainChangesInv, SearchStutters
   DEF Next

------------------------------------------------------------------------------
(* The search inside the service.                                          *)

\* The service takes the steps of Search and leaves its variables alone
\* otherwise: the middleware, the handlers and the other requests do not
\* interfere.
LEMMA ServiceStep == [ServiceNext]_<<vars, serviceVars>> => [Next]_vars
<1>1. SUFFICES ASSUME [ServiceNext]_<<vars, serviceVars>> PROVE [Next]_vars
  OBVIOUS
<1>2. CASE SearchRuns
  BY <1>2 DEF SearchRuns, SearchEnds, Next
<1>3. CASE ChainMoves
  BY <1>3 DEF ChainMoves, Next
<1>4. ASSUME NEW q \in Others
      PROVE  /\ \A a \in Asks : Begin(q, a) => UNCHANGED vars
             /\ AnswerLocally(q) \/ AnswerFromCache(q) \/ CachedRaises(q) \/ AskUpstream(q)
                   \/ UpstreamAnswers(q) \/ HandlerRaises(q) => UNCHANGED vars
             /\ \A failure \in Failures : UpstreamFails(q, failure) => UNCHANGED vars
  BY DEF Begin, AnswerLocally, AnswerFromCache, CachedRaises, AskUpstream, UpstreamAnswers, HandlerRaises,
         UpstreamFails, Move
<1>5. ASSUME NEW q \in Others \cup {Query}
      PROVE  /\ \A d \in Durations : Deliver(q, d) \/ Reraise(q, d) => UNCHANGED vars
             /\ Cancel(q) => UNCHANGED vars
  BY DEF Deliver, Reraise, Cancel, Send
<1>6. QED
  BY <1>1, <1>2, <1>3, <1>4, <1>5 DEF ServiceNext

\* A search is the same inside the service as alone: it shares nothing with the
\* other requests but METRICS (search, service.py:403-462).
THEOREM SearchInside == ServiceSpec => Spec
<1>1. ServiceInit => Init
  BY DEF ServiceInit
<1>2. QED
  BY <1>1, ServiceStep, PTL DEF ServiceSpec, Spec

\* The inductive invariant of a search: every namespace that matched all along
\* is found, failed or still ahead (search, service.py:422-457).
THEOREM SearchInductive == Spec => []IInv
<1>1. Init => IInv
  BY InitInv
<1>2. IInv /\ [Next]_vars => IInv'
  BY NextInv
<1>3. QED
  BY <1>1, <1>2, PTL DEF Spec

LEMMA InvFindsLasting == IInv => LastingIsFound
<1>1. SUFFICES ASSUME IInv, reply = 200 PROVE LastingIsFound
  BY DEF LastingIsFound
<1>2. pc = "done"
  BY <1>1, TermAssumption DEF IInv, Staged
<1>3. Ahead = {}
  BY <1>2 DEF Ahead, Namespaces
<1>4. QED
  BY <1>1, <1>3 DEF IInv, FoundOrAhead, LastingIsFound

\* What matched all through a search is in its answer unless the probe that
\* would have found it failed, for any terms and any number of changes
\* (search, service.py:411).
THEOREM LastingIsAlwaysFound == ServiceSpec => []LastingIsFound
<1>1. IInv => LastingIsFound
  BY InvFindsLasting
<1>2. QED
  BY <1>1, SearchInside, SearchInductive, PTL

\* A search for a name that answers 200 had no probe fail.
THEOREM OutagesShow == ServiceSpec => []OutageShows
<1>1. IInv => OutageShows
  BY DEF IInv
<1>2. QED
  BY <1>1, SearchInside, SearchInductive, PTL

------------------------------------------------------------------------------
(* What a search has in common with the routes.                            *)

\* The routes that name an object refuse what could name none.
LEMMA MatchingIsAccepted ==
    ASSUME NEW t, NEW n \in CanMatch(t), NEW route \in Routes, Namespace(route) = n
    PROVE  LocalReply([route |-> route, term |-> t]) = None
<1> DEFINE a == [route |-> route, term |-> t]
<1>1. n # None
  BY CanMatchOnly, SearchAssumption
<1>2. route \in {"/addresses/{address}", "/transactions/{txid}"} \/ ById(route)
  BY <1>1 DEF Namespace, ById
<1>3. a.route = route /\ a.term = t
  OBVIOUS
<1>4. /\ route # None /\ Allowlisted(a)
      /\ route \notin {"/livez", "/metrics", "/capabilities"} /\ route # "/search"
  BY <1>2, <1>3, ServiceAssumption DEF Allowlisted, ById, Routes
<1>5. ~(ById(route) /\ t.number = None) /\ ~Malformed(a)
  <2>1. CASE route = "/addresses/{address}"
    <3>1. ValidAddress(t)
      BY <2>1 DEF Namespace, CanMatch, ValidAddress
    <3>2. QED
      BY <1>3, <2>1, <3>1 DEF Malformed, ById
  <2>2. CASE route = "/transactions/{txid}"
    <3>1. ValidTxid(t)
      BY <2>2 DEF Namespace, CanMatch, ValidTxid
    <3>2. QED
      BY <1>3, <2>2, <3>1 DEF Malformed, ById
  <2>3. CASE ById(route)
    <3>1. n \in {"asset", "application"}
      BY <2>3 DEF Namespace, ById
    <3>2. t.number # None /\ ValidUint64(t)
      BY <3>1, NumbersMatch
    <3>3. QED
      BY <1>3, <2>3, <3>2 DEF Malformed, ById
  <2>4. QED
    BY <1>2, <2>1, <2>2, <2>3
<1> HIDE DEF a
<1>6. LocalReply(a) = None
  BY <1>3, <1>4, <1>5, ZenonT(30) DEF LocalReply
<1>7. QED
  BY <1>6 DEF a

\* ... and an id is refused if it is no uint64.
LEMMA NumberIsRefused ==
    ASSUME NEW t, ~(t.number # None /\ ValidUint64(t))
    PROVE  LocalReply([route |-> "/tokens/{asset_id}", term |-> t]) # None
<1> DEFINE a == [route |-> "/tokens/{asset_id}", term |-> t]
<1>1. a.route = "/tokens/{asset_id}" /\ a.term = t
  OBVIOUS
<1> HIDE DEF a
<1>2. /\ a.route # None /\ Allowlisted(a) /\ ById(a.route)
      /\ a.route \notin {"/livez", "/metrics", "/capabilities"} /\ a.route # "/search"
  BY <1>1, ServiceAssumption DEF Allowlisted, ById, Routes
<1>3. None \notin {400, 422}
  BY TermAssumption
<1>4. CASE t.number = None
  <2>1. a.term.number = None /\ ~Malformed(a)
    BY <1>1, <1>4, ServiceAssumption DEF Malformed
  <2>2. LocalReply(a) = 422
    BY <1>2, <2>1, ZenonT(30) DEF LocalReply
  <2>3. LocalReply(a) # None
    BY <1>3, <2>2
  <2>4. QED
    BY <2>3 DEF a
<1>5. CASE t.number # None
  <2>1. Malformed(a) /\ a.term.number # None
    BY <1>1, <1>2, <1>5 DEF Malformed
  <2>2. LocalReply(a) = 400
    BY <1>2, <2>1, ZenonT(30) DEF LocalReply
  <2>3. LocalReply(a) # None
    BY <1>3, <2>2
  <2>4. QED
    BY <2>3 DEF a
<1>6. QED
  BY <1>4, <1>5

LEMMA InvFoundOpens == IInv => FoundCanBeOpened
<1>1. SUFFICES ASSUME IInv PROVE FoundCanBeOpened
  OBVIOUS
<1>2. ASSUME NEW n \in CanMatch(term) PROVE ~Refused(n)
  BY <1>2, MatchingIsAccepted DEF Refused
<1>3. ASSUME NEW n \in Found PROVE ~Refused(n)
  BY <1>1, <1>2, <1>3 DEF IInv
<1>4. term.number # None /\ ValidUint64(term) <=> ~Refused("asset") /\ ~Refused("application")
  <2>1. CASE term.number # None /\ ValidUint64(term)
    BY <1>2, <2>1, NumbersMatch
  <2>2. CASE ~(term.number # None /\ ValidUint64(term))
    <3>1. "/tokens/{asset_id}" \in Routes /\ Namespace("/tokens/{asset_id}") = "asset"
      BY DEF Routes, Namespace
    <3>2. Refused("asset")
      BY <2>2, <3>1, NumberIsRefused DEF Refused
    <3>3. QED
      BY <2>2, <3>2
  <2>3. QED
    BY <2>1, <2>2
<1>5. Shape(term) = "numeric" /\ pc # "new" =>
         (asked # <<>> <=> ~Refused("asset") /\ ~Refused("application"))
  BY <1>1, <1>4 DEF IInv, AskedRightly
<1>6. QED
  BY <1>3, <1>5 DEF FoundCanBeOpened

\* Whatever a search found can be opened under the route of its namespace, and it
\* asks about a number exactly if the routes of ids would: for any terms, any
\* chain and any failures (search, service.py:436-450).
THEOREM FoundCanAlwaysBeOpened == ServiceSpec => []FoundCanBeOpened
<1>1. IInv => FoundCanBeOpened
  BY InvFoundOpens
<1>2. QED
  BY <1>1, SearchInside, SearchInductive, PTL

------------------------------------------------------------------------------
(* When an upstream is asked.                                              *)

\* An upstream is asked only if there is no local reply, and nothing has been
\* answered before.
AskedWhenDue(q) ==
    /\ stage[q] \in {"new", "handling"} => status[q] = None /\ ~called[q]
    /\ stage[q] = "awaiting" => called[q]
    /\ called[q] => LocalReply(ask[q]) = None

RequestFunctions ==
    /\ stage = [q \in Others |-> stage[q]]
    /\ status = [q \in Others |-> status[q]]
    /\ called \in [Others -> BOOLEAN]
    /\ ask = [q \in Others |-> ask[q]]

AskedInOrder == RequestFunctions /\ \A q \in Others : AskedWhenDue(q)

\* Only the request that takes a step is to be looked at.
Takes(q, to, code, asking, a) ==
    /\ stage' = [stage EXCEPT ![q] = to] /\ status' = [status EXCEPT ![q] = code]
    /\ called' = [called EXCEPT ![q] = asking] /\ ask' = [ask EXCEPT ![q] = a]
    /\ to \in {"new", "handling"} => code = None /\ ~asking
    /\ to = "awaiting" => asking
    /\ asking => LocalReply(a) = None

LEMMA OneAsks ==
    ASSUME AskedInOrder, NEW q \in Others, NEW to, NEW code, NEW asking \in BOOLEAN, NEW a,
           Takes(q, to, code, asking, a)
    PROVE  AskedInOrder'
<1>1. RequestFunctions'
  BY DEF AskedInOrder, RequestFunctions, Takes
<1>2. AskedWhenDue(q)'
  <2>1. stage'[q] = to /\ status'[q] = code /\ called'[q] = asking /\ ask'[q] = a
    BY DEF AskedInOrder, RequestFunctions, Takes
  <2>2. QED
    BY <2>1 DEF AskedWhenDue, Takes
<1>3. ASSUME NEW p \in Others, p # q PROVE AskedWhenDue(p)'
  <2>1. /\ stage'[p] = stage[p] /\ status'[p] = status[p]
        /\ called'[p] = called[p] /\ ask'[p] = ask[p]
    BY <1>3 DEF AskedInOrder, RequestFunctions, Takes
  <2>2. AskedWhenDue(p)
    BY DEF AskedInOrder
  <2>3. QED
    BY <2>1, <2>2 DEF AskedWhenDue
<1>4. QED
  BY <1>1, <1>2, <1>3 DEF AskedInOrder

\* A variable a step leaves alone keeps its value at the request too.
LEMMA KeptAt ==
    ASSUME RequestFunctions, NEW q \in Others
    PROVE  /\ stage = [stage EXCEPT ![q] = stage[q]] /\ status = [status EXCEPT ![q] = status[q]]
           /\ called = [called EXCEPT ![q] = called[q]] /\ ask = [ask EXCEPT ![q] = ask[q]]
           /\ called[q] \in BOOLEAN
BY DEF RequestFunctions

LEMMA AskedInOrderStep ==
    AskedInOrder /\ [ServiceNext]_<<vars, serviceVars>> => AskedInOrder'
<1>1. SUFFICES ASSUME AskedInOrder, [ServiceNext]_<<vars, serviceVars>>
               PROVE  AskedInOrder'
  OBVIOUS
<1>2. ASSUME UNCHANGED <<ask, stage, status, called>>
      PROVE  AskedInOrder'
  BY <1>1, <1>2 DEF AskedInOrder, RequestFunctions, AskedWhenDue
<1>3. CASE SearchRuns \/ ChainMoves
  BY <1>2, <1>3 DEF SearchRuns, ChainMoves, serviceVars
<1>a. \A q \in Others : AskedWhenDue(q)
  BY <1>1 DEF AskedInOrder
<1>b. ASSUME NEW q \in Others
      PROVE  /\ stage = [stage EXCEPT ![q] = stage[q]] /\ status = [status EXCEPT ![q] = status[q]]
             /\ called = [called EXCEPT ![q] = called[q]] /\ ask = [ask EXCEPT ![q] = ask[q]]
             /\ called[q] \in BOOLEAN
  BY <1>1, KeptAt DEF AskedInOrder
<1>4. ASSUME NEW q \in Others, NEW a \in Asks, Begin(q, a)
      PROVE  AskedInOrder'
  <2>1. /\ stage[q] = "new" /\ stage' = [stage EXCEPT ![q] = "handling"]
        /\ ask' = [ask EXCEPT ![q] = a] /\ status' = status /\ called' = called
    BY <1>4 DEF Begin, Move
  <2>2. status[q] = None /\ ~called[q]
    BY <1>a, <2>1 DEF AskedWhenDue
  <2>3. /\ status' = [status EXCEPT ![q] = status[q]]
        /\ called' = [called EXCEPT ![q] = called[q]]
    BY <1>b, <2>1
  <2>4. Takes(q, "handling", status[q], called[q], a)
    BY <2>1, <2>2, <2>3 DEF Takes
  <2>5. QED
    BY <1>1, <1>b, <2>4, OneAsks
<1>5. ASSUME NEW q \in Others, AnswerLocally(q) \/ AnswerFromCache(q) \/ CachedRaises(q)
      PROVE  AskedInOrder'
  <2>1. stage[q] = "handling" /\ ask' = ask /\ called' = called
    BY <1>5 DEF AnswerLocally, AnswerFromCache, CachedRaises, Move
  <2>a. PICK to \in {"answered", "raised"} : stage' = [stage EXCEPT ![q] = to]
    BY <1>5 DEF AnswerLocally, AnswerFromCache, CachedRaises, Move
  <2>2. PICK code : status' = [status EXCEPT ![q] = code]
    BY <1>5 DEF AnswerLocally, AnswerFromCache, CachedRaises, Answer
  <2>3. ~called[q]
    BY <1>a, <2>1 DEF AskedWhenDue
  <2>4. ask' = [ask EXCEPT ![q] = ask[q]] /\ called' = [called EXCEPT ![q] = called[q]]
    BY <1>b, <2>1
  <2>5. Takes(q, to, code, called[q], ask[q])
    BY <2>a, <2>2, <2>3, <2>4 DEF Takes
  <2>6. QED
    BY <1>1, <1>b, <2>5, OneAsks
<1>6. ASSUME NEW q \in Others, AskUpstream(q)
      PROVE  AskedInOrder'
  <2>1. /\ stage' = [stage EXCEPT ![q] = "awaiting"]
        /\ called' = [called EXCEPT ![q] = TRUE] /\ ask' = ask /\ status' = status
    BY <1>6 DEF AskUpstream, Move
  <2>2. LocalReply(ask[q]) = None
    BY <1>6 DEF AskUpstream
  <2>3. ask' = [ask EXCEPT ![q] = ask[q]] /\ status' = [status EXCEPT ![q] = status[q]]
    BY <1>b, <2>1
  <2>4. Takes(q, "awaiting", status[q], TRUE, ask[q])
    BY <2>1, <2>2, <2>3 DEF Takes
  <2>5. QED
    BY <1>1, <2>4, OneAsks
<1>7. ASSUME NEW q \in Others, UpstreamAnswers(q) \/ HandlerRaises(q)
                                  \/ \E failure \in Failures : UpstreamFails(q, failure)
      PROVE  AskedInOrder'
  <2>1. stage[q] = "awaiting" /\ ask' = ask /\ called' = called
    BY <1>7 DEF UpstreamAnswers, HandlerRaises, UpstreamFails, Move
  <2>a. PICK to \in {"answered", "raised"} : stage' = [stage EXCEPT ![q] = to]
    BY <1>7 DEF UpstreamAnswers, HandlerRaises, UpstreamFails, Move
  <2>2. PICK code : status' = [status EXCEPT ![q] = code]
    BY <1>7 DEF UpstreamAnswers, HandlerRaises, UpstreamFails, Answer
  <2>3. called[q] /\ LocalReply(ask[q]) = None
    BY <1>a, <2>1 DEF AskedWhenDue
  <2>4. ask' = [ask EXCEPT ![q] = ask[q]] /\ called' = [called EXCEPT ![q] = called[q]]
    BY <1>b, <2>1
  <2>5. Takes(q, to, code, called[q], ask[q])
    BY <2>a, <2>2, <2>3, <2>4 DEF Takes
  <2>6. QED
    BY <1>1, <1>b, <2>5, OneAsks
<1>8. ASSUME NEW q \in Others \cup {Query},
             Cancel(q) \/ \E d \in Durations : Deliver(q, d) \/ Reraise(q, d)
      PROVE  AskedInOrder'
  BY <1>2, <1>8 DEF Cancel, Deliver, Reraise, Send, requestVars
<1>9. CASE UNCHANGED <<vars, serviceVars>>
  BY <1>2, <1>9 DEF serviceVars
<1>10. QED
  BY <1>1, <1>3, <1>4, <1>5, <1>6, <1>7, <1>8, <1>9 DEF ServiceNext

------------------------------------------------------------------------------
(* Who is counted, and who is blamed.                                      *)
(*                                                                         *)
(* Each counter is the number of requests of which something is true: a    *)
(* request is counted in the step that makes it true, and it stays so.     *)

Everyone == Others \cup {Query}

\* The responses behind one request counter, and the failures behind one
\* upstream counter.
Behind(label, code) == {q \in Sent : RouteFor(AskOf(q)) = label /\ response[q].status = code}
Charged(outcome) ==
    {q \in Everyone : blamed[q] # None /\ Outcome(Attributed(blamed[q])) = outcome}

Counter(counts) == counts \in [DOMAIN counts -> Nat]

Functions ==
    /\ stage = [q \in Others |-> stage[q]]
    /\ status = [q \in Others |-> status[q]]
    /\ ask = [q \in Others |-> ask[q]]
    /\ response = [q \in Everyone |-> response[q]]
    /\ blamed = [q \in Everyone |-> blamed[q]]

Counters ==
    /\ metrics = [requests |-> metrics.requests, upstream |-> metrics.upstream,
                  latency |-> metrics.latency, count |-> metrics.count]
    /\ Counter(metrics.requests)
    /\ Counter(metrics.upstream)

\* A request that is over has a status.
Decided ==
    /\ \A q \in Others : stage[q] \in {"answered", "raised"} => status[q] \in Int
    /\ pc = "done" => reply \in Int

\* Blame is for what became the response.
BlamedFor ==
    \A q \in Everyone : blamed[q] # None =>
        /\ blamed[q] \in Failures
        /\ StageOf(q) = "answered"
        /\ StatusOf(q) = Attributed(blamed[q])

RequestsCounted ==
    \A label, code : Copies(<<label, code>>, metrics.requests) = Cardinality(Behind(label, code))

FailuresCounted ==
    \A outcome :
        Copies(<<"indexer", outcome>>, metrics.upstream) = Cardinality(Charged(outcome))

Accounts == Functions /\ Counters /\ Decided /\ BlamedFor /\ RequestsCounted /\ FailuresCounted

------------------------------------------------------------------------------
LEMMA CopiesAdded ==
    ASSUME NEW counts, NEW x, Counter(counts)
    PROVE  /\ Counter(Incremented(counts, x))
           /\ \A key : Copies(key, Incremented(counts, x)) =
                          IF key = x THEN Copies(key, counts) + 1 ELSE Copies(key, counts)
BY DEF Counter, Incremented, SetToBag, (+), Copies, BagIn, BagToSet

LEMMA RequestObserved ==
    ASSUME Counters, NEW route, NEW code, NEW duration,
           metrics' = ObserveRequest(metrics, route, code, duration)
    PROVE  /\ Counters'
           /\ metrics'.requests = Incremented(metrics.requests, <<route, code>>)
           /\ metrics'.upstream = metrics.upstream
<1>1. /\ metrics'.requests = Incremented(metrics.requests, <<route, code>>)
      /\ metrics'.upstream = metrics.upstream
      /\ metrics' = [requests |-> metrics'.requests, upstream |-> metrics'.upstream,
                     latency |-> metrics'.latency, count |-> metrics'.count]
  BY DEF Counters, ObserveRequest
<1>2. QED
  BY <1>1, CopiesAdded DEF Counters

LEMMA FailureObserved ==
    ASSUME Counters, NEW upstream, NEW outcome,
           metrics' = ObserveUpstream(metrics, upstream, outcome)
    PROVE  /\ Counters'
           /\ metrics'.requests = metrics.requests
           /\ metrics'.upstream = Incremented(metrics.upstream, <<upstream, outcome>>)
<1>1. /\ metrics'.requests = metrics.requests
      /\ metrics'.upstream = Incremented(metrics.upstream, <<upstream, outcome>>)
      /\ metrics' = [requests |-> metrics'.requests, upstream |-> metrics'.upstream,
                     latency |-> metrics'.latency, count |-> metrics'.count]
  BY DEF Counters, ObserveUpstream
<1>2. QED
  BY <1>1, CopiesAdded DEF Counters

LEMMA FinitelyMany ==
    ASSUME Functions
    PROVE  /\ IsFiniteSet(Sent)
           /\ \A label, code : IsFiniteSet(Behind(label, code))
           /\ \A outcome : IsFiniteSet(Charged(outcome))
<1>1. IsFiniteSet(Everyone)
  BY ServiceAssumption, FS_AddElement DEF Everyone
<1>2. Sent \subseteq Everyone
  BY DEF Functions, Sent
<1>3. /\ \A label, code : Behind(label, code) \subseteq Everyone
      /\ \A outcome : Charged(outcome) \subseteq Everyone
  BY <1>2 DEF Behind, Charged
<1>4. QED
  BY <1>1, <1>2, <1>3, FS_Subset

\* The label of a request depends on what it asked and nothing else.
LEMMA LabelsStay ==
    ASSUME NEW q \in Everyone, q \in Others => ask'[q] = ask[q]
    PROVE  RouteFor(AskOf(q))' = RouteFor(AskOf(q))
<1>1. CASE q = Query
  BY <1>1, ServiceAssumption DEF RouteFor, AskOf
<1>2. CASE q \in Others
  BY <1>2, ServiceAssumption DEF RouteFor, AskOf
<1>3. QED
  BY <1>1, <1>2 DEF Everyone

\* A step that sends nothing and counts no request keeps the account of them.
LEMMA NothingSent ==
    ASSUME Functions, RequestsCounted,
           Sent' = Sent, \A q \in Sent : response'[q] = response[q],
           metrics'.requests = metrics.requests,
           \A q \in Others : ask'[q] = ask[q] \/ response[q] = None
    PROVE  RequestsCounted'
<1>1. \A q \in Sent : RouteFor(AskOf(q))' = RouteFor(AskOf(q))
  <2>1. Sent \subseteq Everyone /\ \A q \in Sent : response[q] # None
    BY DEF Functions, Sent
  <2>2. QED
    BY <2>1, LabelsStay
<1>2. \A label, code : Behind(label, code)' = Behind(label, code)
  BY <1>1 DEF Behind
<1>3. QED
  BY <1>2 DEF RequestsCounted

\* A step that blames nobody keeps the account of the blame.
LEMMA NobodyBlamed ==
    ASSUME FailuresCounted, blamed' = blamed, metrics'.upstream = metrics.upstream
    PROVE  FailuresCounted'
<1>1. \A outcome : Charged(outcome)' = Charged(outcome)
  BY DEF Charged
<1>2. QED
  BY <1>1 DEF FailuresCounted

\* A response is counted in the step that sends it.
LEMMA SendingCounts ==
    ASSUME Accounts, NEW q \in Everyone, NEW code \in Int, NEW id \in BOOLEAN,
           NEW duration \in Durations, Send(q, code, id, duration),
           metrics' = ObserveRequest(metrics, RouteFor(AskOf(q)), code, duration)
    PROVE  Accounts'
<1>1. /\ response[q] = None
      /\ response' = [response EXCEPT ![q] = [status |-> code, id |-> id, duration |-> duration]]
      /\ UNCHANGED <<ask, stage, status, called, blamed>> /\ UNCHANGED vars
  BY DEF Send, requestVars
<1>2. Functions' /\ response'[q] = [status |-> code, id |-> id, duration |-> duration]
  BY <1>1 DEF Accounts, Functions
<1>3. /\ Counters' /\ metrics'.upstream = metrics.upstream
      /\ metrics'.requests = Incremented(metrics.requests, <<RouteFor(AskOf(q)), code>>)
  BY RequestObserved DEF Accounts
<1>4. \A p \in Everyone : RouteFor(AskOf(p))' = RouteFor(AskOf(p))
  BY <1>1, LabelsStay
<1>5. response'[q] # None /\ response'[q] # Gone /\ response'[q].status = code
  <2>1. response'[q] \in [status : Int, id : BOOLEAN, duration : Nat]
    BY <1>2, ServiceAssumption
  <2>2. response'[q] # None
    BY <2>1, ServiceAssumption
  <2>3. response'[q].status = code /\ Gone.status = None
    BY <1>2 DEF Gone
  <2>4. response'[q] # Gone
    BY <2>3, TermAssumption
  <2>5. QED
    BY <2>2, <2>3, <2>4
<1>6. Sent' = Sent \cup {q} /\ q \notin Sent /\ Sent \subseteq Everyone
  BY <1>1, <1>2, <1>5 DEF Accounts, Functions, Sent
<1>7. \A p \in Sent : response'[p] = response[p]
  BY <1>1, <1>6 DEF Accounts, Functions
<1>8. ASSUME NEW label, NEW c
      PROVE  Copies(<<label, c>>, metrics'.requests) = Cardinality(Behind(label, c)')
  <2>1. Behind(label, c)' = IF label = RouteFor(AskOf(q)) /\ c = code
                            THEN Behind(label, c) \cup {q} ELSE Behind(label, c)
    BY <1>4, <1>5, <1>6, <1>7 DEF Behind
  <2>2. q \notin Behind(label, c) /\ IsFiniteSet(Behind(label, c))
    BY <1>6, FinitelyMany DEF Behind, Accounts
  <2>3. Cardinality(Behind(label, c)') =
            IF label = RouteFor(AskOf(q)) /\ c = code
            THEN Cardinality(Behind(label, c)) + 1 ELSE Cardinality(Behind(label, c))
    BY <2>1, <2>2, FS_AddElement
  <2>4. Copies(<<label, c>>, metrics'.requests) =
            IF <<label, c>> = <<RouteFor(AskOf(q)), code>>
            THEN Copies(<<label, c>>, metrics.requests) + 1
            ELSE Copies(<<label, c>>, metrics.requests)
    BY <1>3, CopiesAdded DEF Accounts, Counters
  <2>5. QED
    BY <2>3, <2>4 DEF Accounts, RequestsCounted
<1>9. RequestsCounted'
  BY <1>8 DEF RequestsCounted
<1>10. FailuresCounted'
  BY <1>1, <1>3, NobodyBlamed DEF Accounts
<1>11. Decided' /\ BlamedFor'
  BY <1>1 DEF Accounts, Decided, BlamedFor, StageOf, StatusOf, vars
<1>12. QED
  BY <1>2, <1>3, <1>9, <1>10, <1>11 DEF Accounts

\* A failure is counted in the step that makes it the response.
LEMMA BlamingCounts ==
    ASSUME Accounts, NEW q \in Everyone, blamed[q] = None, NEW failure \in Failures,
           Attribute(q, failure)
    PROVE  /\ Counters' /\ FailuresCounted' /\ metrics'.requests = metrics.requests
           /\ blamed' = [blamed EXCEPT ![q] = failure]
<1>1. /\ blamed' = [blamed EXCEPT ![q] = failure]
      /\ metrics' = ObserveUpstream(metrics, "indexer", Outcome(Attributed(failure)))
  BY DEF Attribute
<1>2. /\ Counters' /\ metrics'.requests = metrics.requests
      /\ metrics'.upstream =
            Incremented(metrics.upstream, <<"indexer", Outcome(Attributed(failure))>>)
  BY <1>1, FailureObserved DEF Accounts
<1>3. failure # None
  BY TermAssumption DEF Failures, NoStatus
<1>4. blamed'[q] = failure /\ \A p \in Everyone : p # q => blamed'[p] = blamed[p]
  BY <1>1 DEF Accounts, Functions
<1>5. ASSUME NEW outcome
      PROVE  Copies(<<"indexer", outcome>>, metrics'.upstream) = Cardinality(Charged(outcome)')
  <2>1. Charged(outcome)' = IF outcome = Outcome(Attributed(failure))
                            THEN Charged(outcome) \cup {q} ELSE Charged(outcome)
    BY <1>3, <1>4 DEF Charged
  <2>2. q \notin Charged(outcome) /\ IsFiniteSet(Charged(outcome))
    BY FinitelyMany DEF Charged, Accounts
  <2>3. Cardinality(Charged(outcome)') =
            IF outcome = Outcome(Attributed(failure))
            THEN Cardinality(Charged(outcome)) + 1 ELSE Cardinality(Charged(outcome))
    BY <2>1, <2>2, FS_AddElement
  <2>4. Copies(<<"indexer", outcome>>, metrics'.upstream) =
            IF outcome = Outcome(Attributed(failure))
            THEN Copies(<<"indexer", outcome>>, metrics.upstream) + 1
            ELSE Copies(<<"indexer", outcome>>, metrics.upstream)
    BY <1>2, CopiesAdded DEF Accounts, Counters
  <2>5. QED
    BY <2>3, <2>4 DEF Accounts, FailuresCounted
<1>6. QED
  BY <1>1, <1>2, <1>5 DEF FailuresCounted
------------------------------------------------------------------------------
\* A step of the search, or of a request that is not yet answered, that blames
\* nobody and sends nothing.
LEMMA QuietStep ==
    ASSUME Accounts, Functions', Decided', NEW q \in Everyone,
           StageOf(q) \notin {"answered", "raised"}, response[q] = None,
           UNCHANGED <<blamed, response, metrics>>,
           \A p \in Others \ {q} :
               stage'[p] = stage[p] /\ status'[p] = status[p] /\ ask'[p] = ask[p],
           q # Query => UNCHANGED <<pc, reply>>
    PROVE  Accounts'
<1>1. Counters'
  BY DEF Accounts, Counters
<1>2. RequestsCounted'
  <2>1. Sent' = Sent /\ \A p \in Sent : response'[p] = response[p]
    BY DEF Sent
  <2>2. \A p \in Others : ask'[p] = ask[p] \/ response[p] = None
    OBVIOUS
  <2>3. QED
    BY <2>1, <2>2, NothingSent DEF Accounts
<1>3. FailuresCounted'
  BY NobodyBlamed DEF Accounts
<1>4. BlamedFor'
  <2>1. blamed[q] = None
    BY DEF Accounts, BlamedFor
  <2>2. ASSUME NEW p \in Everyone, p # q
        PROVE  StageOf(p)' = StageOf(p) /\ StatusOf(p)' = StatusOf(p)
    BY <2>2 DEF Everyone, StageOf, StatusOf
  <2>3. QED
    BY <2>1, <2>2 DEF Accounts, BlamedFor
<1>5. QED
  BY <1>1, <1>2, <1>3, <1>4 DEF Accounts

\* The step in which a failure ends request q.
LEMMA BlamingStep ==
    ASSUME Accounts, Functions', Decided', NEW q \in Everyone, NEW failure \in Failures,
           StageOf(q) # "answered", Attribute(q, failure), UNCHANGED <<ask, response>>,
           StageOf(q)' = "answered", StatusOf(q)' = Attributed(failure),
           \A p \in Others \ {q} : stage'[p] = stage[p] /\ status'[p] = status[p],
           q # Query => UNCHANGED <<pc, reply>>
    PROVE  Accounts'
<1>1. blamed[q] = None
  BY DEF Accounts, BlamedFor
<1>2. /\ Counters' /\ FailuresCounted' /\ metrics'.requests = metrics.requests
      /\ blamed' = [blamed EXCEPT ![q] = failure]
  BY <1>1, BlamingCounts
<1>3. RequestsCounted'
  <2>1. Sent' = Sent /\ \A p \in Sent : response'[p] = response[p]
    BY DEF Sent
  <2>2. QED
    BY <1>2, <2>1, NothingSent DEF Accounts
<1>4. blamed'[q] = failure /\ \A p \in Everyone : p # q => blamed'[p] = blamed[p]
  BY <1>2 DEF Accounts, Functions
<1>5. BlamedFor'
  <2>1. ASSUME NEW p \in Everyone, p # q
        PROVE  StageOf(p)' = StageOf(p) /\ StatusOf(p)' = StatusOf(p)
    BY <2>1 DEF Everyone, StageOf, StatusOf
  <2>2. QED
    BY <1>4, <2>1 DEF Accounts, BlamedFor
<1>6. QED
  BY <1>2, <1>3, <1>5 DEF Accounts

LEMMA RepliesAreStatuses ==
    /\ \A a : LocalReply(a) \in Int \cup {None}
    /\ \A route : Missing(route) \in Int \cup {None}
    /\ \A failure \in Failures : Attributed(failure) \in Int /\ Attributed(failure) # 500
<1>1. \A a : LocalReply(a) \in Int \cup {None}
  BY DEF LocalReply
<1>2. \A route : Missing(route) \in Int \cup {None}
  BY DEF Missing
<1>3. \A failure \in Failures : Attributed(failure) \in Int /\ Attributed(failure) # 500
  BY DEF Attributed, Failures, NoStatus
<1>4. QED
  BY <1>1, <1>2, <1>3

\* A request besides the search moves on to another stage.
LEMMA MovedOn ==
    ASSUME Accounts, NEW q \in Others, NEW from \in {"new", "handling", "awaiting"}, NEW to,
           Move(q, from, to)
    PROVE  /\ q \in Everyone /\ q # Query /\ StageOf(q) = from /\ StageOf(q)' = to
           /\ response[q] = None /\ UNCHANGED <<response, pc, reply>>
           /\ stage' = [stage EXCEPT ![q] = to]
           /\ \A p \in Others \ {q} : stage'[p] = stage[p]
<1>1. q \in Everyone /\ q # Query
  BY ServiceAssumption DEF Everyone
<1>2. stage[q] = from /\ response[q] = None /\ stage' = [stage EXCEPT ![q] = to]
  BY DEF Move
<1>3. stage'[q] = to /\ \A p \in Others \ {q} : stage'[p] = stage[p]
  BY <1>2 DEF Accounts, Functions
<1>4. StageOf(q) = from /\ StageOf(q)' = to
  BY <1>1, <1>2, <1>3 DEF StageOf
<1>5. UNCHANGED <<response, pc, reply>>
  BY DEF Move, vars
<1>6. QED
  BY <1>1, <1>2, <1>3, <1>4, <1>5

LEMMA BeginAccounts ==
    ASSUME Accounts, NEW q \in Others, NEW a \in Asks, Begin(q, a) PROVE Accounts'
<1>1. /\ Move(q, "new", "handling") /\ ask' = [ask EXCEPT ![q] = a]
      /\ UNCHANGED <<status, blamed, metrics>>
  BY DEF Begin
<1>2. /\ q \in Everyone /\ q # Query /\ StageOf(q) = "new"
      /\ response[q] = None /\ UNCHANGED <<response, pc, reply>>
      /\ stage' = [stage EXCEPT ![q] = "handling"]
      /\ \A p \in Others \ {q} : stage'[p] = stage[p]
  BY <1>1, MovedOn
<1>3. Functions' /\ Decided'
  BY <1>1, <1>2 DEF Accounts, Functions, Decided
<1>4. \A p \in Others \ {q} : ask'[p] = ask[p]
  BY <1>1 DEF Accounts, Functions
<1>5. QED
  BY <1>1, <1>2, <1>3, <1>4, QuietStep

LEMMA AskUpstreamAccounts ==
    ASSUME Accounts, NEW q \in Others, AskUpstream(q) PROVE Accounts'
<1>1. Move(q, "handling", "awaiting") /\ UNCHANGED <<ask, status, blamed, metrics>>
  BY DEF AskUpstream
<1>2. /\ q \in Everyone /\ q # Query /\ StageOf(q) = "handling"
      /\ response[q] = None /\ UNCHANGED <<response, pc, reply>>
      /\ stage' = [stage EXCEPT ![q] = "awaiting"]
      /\ \A p \in Others \ {q} : stage'[p] = stage[p]
  BY <1>1, MovedOn
<1>3. Functions' /\ Decided'
  BY <1>1, <1>2 DEF Accounts, Functions, Decided
<1>4. QED
  BY <1>1, <1>2, <1>3, QuietStep

\* A request that is answered, or raises, for which nobody is blamed.
LEMMA AnswerAccounts ==
    ASSUME Accounts, NEW q \in Others, NEW from \in {"handling", "awaiting"},
           NEW to \in {"answered", "raised"}, NEW code \in Int,
           Move(q, from, to), Answer(q, code), UNCHANGED <<ask, blamed, metrics>>
    PROVE  Accounts'
<1>1. /\ q \in Everyone /\ q # Query /\ StageOf(q) = from
      /\ response[q] = None /\ UNCHANGED <<response, pc, reply>>
      /\ stage' = [stage EXCEPT ![q] = to]
      /\ \A p \in Others \ {q} : stage'[p] = stage[p]
  BY MovedOn
<1>2. status' = [status EXCEPT ![q] = code]
  BY DEF Answer
<1>3. Functions' /\ Decided' /\ \A p \in Others \ {q} : status'[p] = status[p]
  BY <1>1, <1>2 DEF Accounts, Functions, Decided
<1>4. QED
  BY <1>1, <1>3, QuietStep

LEMMA UpstreamFailsAccounts ==
    ASSUME Accounts, NEW q \in Others, NEW failure \in Failures, UpstreamFails(q, failure)
    PROVE  Accounts'
<1>1. /\ Move(q, "awaiting", "answered") /\ Answer(q, Attributed(failure))
      /\ Attribute(q, failure) /\ UNCHANGED ask
  BY DEF UpstreamFails
<1>2. /\ q \in Everyone /\ q # Query /\ StageOf(q) = "awaiting" /\ StageOf(q)' = "answered"
      /\ response[q] = None /\ UNCHANGED <<response, pc, reply>>
      /\ stage' = [stage EXCEPT ![q] = "answered"]
      /\ \A p \in Others \ {q} : stage'[p] = stage[p]
  BY <1>1, MovedOn
<1>3. status' = [status EXCEPT ![q] = Attributed(failure)]
  BY <1>1 DEF Answer
<1>4. blamed' = [blamed EXCEPT ![q] = failure]
  BY <1>1 DEF Attribute
<1>5. Attributed(failure) \in Int
  BY RepliesAreStatuses
<1>6. Functions'
  BY <1>1, <1>2, <1>3, <1>4 DEF Accounts, Functions
<1>7. Decided'
  BY <1>2, <1>3, <1>5 DEF Accounts, Functions, Decided
<1>8. /\ StatusOf(q)' = Attributed(failure)
      /\ \A p \in Others \ {q} : status'[p] = status[p]
  BY <1>2, <1>3 DEF Accounts, Functions, StatusOf
<1>9. QED
  BY <1>1, <1>2, <1>6, <1>7, <1>8, BlamingStep

\* The search: it is decided when it ends.
LEMMA SearchDecides ==
    ASSUME NEW n \in Namespaces, NEW hit \in BOOLEAN, Continue(n, hit)
    PROVE  pc' = "done" => reply' \in Int
<1>1. After(n, hit) = "done" => reply' = 200
  BY DEF Continue, Respond
<1>2. After(n, hit) # "done" => pc' = After(n, hit)
  BY DEF Continue, Probe
<1>3. QED
  BY <1>1, <1>2

LEMMA SearchAccounts ==
    ASSUME Accounts, SearchRuns PROVE Accounts'
<1>1. response[Query] = None /\ UNCHANGED <<ask, stage, status, called, response>>
  BY DEF SearchRuns
<1>2. Query \in Everyone /\ "done" \notin Namespaces /\ "new" \notin Namespaces
  BY DEF Everyone, Namespaces
<1>3. ASSUME pc # "done", pc' = "done" => reply' \in Int, UNCHANGED <<blamed, metrics>>
      PROVE  Accounts'
  <2>1. StageOf(Query) = "handling"
    BY <1>3 DEF StageOf
  <2>2. Functions' /\ Decided'
    BY <1>1, <1>3 DEF Accounts, Functions, Decided
  <2>3. QED
    BY <1>1, <1>2, <1>3, <2>1, <2>2, QuietStep
<1>4. CASE Arrive /\ UNCHANGED <<blamed, metrics>>
  <2>1. pc = "new"
    BY <1>4 DEF Arrive
  <2>2. FirstProbe(term) # "done"
    BY DEF FirstProbe
  <2>3. pc' = "done" => reply' \in Int
    BY <1>4, <2>2 DEF Arrive, Respond, Probe
  <2>4. QED
    BY <1>3, <1>4, <2>1, <2>3
<1>5. CASE ProbeRaises /\ UNCHANGED <<blamed, metrics>>
  BY <1>2, <1>3, <1>5 DEF ProbeRaises, Respond
<1>6. ASSUME NEW n \in Namespaces, Hit(n) \/ Miss(n), UNCHANGED <<blamed, metrics>>
      PROVE  Accounts'
  <2>1. pc = n /\ (Continue(n, TRUE) \/ Continue(n, FALSE))
    BY <1>6 DEF Hit, Miss
  <2>2. pc' = "done" => reply' \in Int
    BY <2>1, SearchDecides
  <2>3. QED
    BY <1>2, <1>3, <1>6, <2>1, <2>2
<1>7. ASSUME NEW n \in Namespaces, NEW failure \in Failures, SearchEnds(n, failure)
      PROVE  Accounts'
  <2>1. pc = n /\ ProbeFails(n, failure)
    BY <1>7 DEF SearchEnds, ProbeFails
  <2>2. CASE LetsThrough(n)
    <3>1. pc' = "done" /\ reply' = Attributed(failure) /\ Attribute(Query, failure)
      BY <1>7, <2>1, <2>2 DEF SearchEnds, ProbeFails, Respond
    <3>2. StageOf(Query) # "answered"
      BY <1>2, <2>1 DEF StageOf
    <3>3. reply' \in Int /\ reply' # 500
      BY <3>1, RepliesAreStatuses
    <3>4. StageOf(Query)' = "answered" /\ StatusOf(Query)' = Attributed(failure)
      BY <3>1, <3>3 DEF StageOf, StatusOf
    <3>5. blamed' = [blamed EXCEPT ![Query] = failure]
      BY <3>1 DEF Attribute
    <3>6. Functions' /\ Decided'
      BY <1>1, <3>3, <3>5 DEF Accounts, Functions, Decided
    <3>7. QED
      BY <1>1, <1>2, <3>1, <3>2, <3>4, <3>6, BlamingStep
  <2>3. CASE ~LetsThrough(n)
    <3>1. Continue(n, FALSE) /\ UNCHANGED <<blamed, metrics>>
      BY <1>7, <2>1, <2>3 DEF SearchEnds, ProbeFails
    <3>2. QED
      BY <1>2, <1>3, <2>1, <3>1, SearchDecides
  <2>4. QED
    BY <2>2, <2>3
<1>8. QED
  BY <1>4, <1>5, <1>6, <1>7 DEF SearchRuns

LEMMA DeliveryAccounts ==
    ASSUME Accounts, NEW q \in Everyone, NEW d \in Durations, Deliver(q, d) \/ Reraise(q, d)
    PROVE  Accounts'
<1>1. CASE Deliver(q, d)
  <2>1. /\ StageOf(q) = "answered" /\ Send(q, StatusOf(q), TRUE, d)
        /\ metrics' = ObserveRequest(metrics, RouteFor(AskOf(q)), StatusOf(q), d)
    BY <1>1 DEF Deliver
  <2>2. StatusOf(q) \in Int /\ TRUE \in BOOLEAN
    BY <2>1 DEF Everyone, Accounts, Decided, StageOf, StatusOf
  <2>3. QED
    BY <2>1, <2>2, SendingCounts, Zenon
<1>2. CASE Reraise(q, d)
  <2>1. PICK code \in Int : code = 500
    OBVIOUS
  <2>2. PICK id \in BOOLEAN : id = FALSE
    OBVIOUS
  <2>3. /\ Send(q, code, id, d)
        /\ metrics' = ObserveRequest(metrics, RouteFor(AskOf(q)), code, d)
    BY <1>2, <2>1, <2>2 DEF Reraise
  <2>4. QED
    BY <2>3, SendingCounts, Zenon
<1>3. QED
  BY <1>1, <1>2

LEMMA CancelAccounts ==
    ASSUME Accounts, NEW q \in Everyone, Cancel(q) PROVE Accounts'
<1>1. /\ response[q] = None /\ response' = [response EXCEPT ![q] = Gone]
      /\ UNCHANGED <<ask, stage, status, blamed, metrics>> /\ UNCHANGED vars
  BY DEF Cancel, requestVars
<1>2. Functions'
  BY <1>1 DEF Accounts, Functions
<1>3. Sent' = Sent /\ \A p \in Sent : response'[p] = response[p]
  BY <1>1 DEF Accounts, Functions, Sent, Gone
<1>4. RequestsCounted'
  BY <1>1, <1>3, NothingSent DEF Accounts
<1>5. FailuresCounted'
  BY <1>1, NobodyBlamed DEF Accounts
<1>6. Counters' /\ Decided' /\ BlamedFor'
  BY <1>1 DEF Accounts, Counters, Decided, BlamedFor, StageOf, StatusOf, vars
<1>7. QED
  BY <1>2, <1>4, <1>5, <1>6 DEF Accounts

\* What changes nothing an account is kept of.
LEMMA StillAccounts ==
    ASSUME Accounts, UNCHANGED serviceVars, UNCHANGED <<pc, reply>> PROVE Accounts'
<1>1. UNCHANGED <<ask, stage, status, blamed, response, metrics>>
  BY DEF serviceVars
<1>2. Sent' = Sent /\ \A p \in Sent : response'[p] = response[p]
  BY <1>1 DEF Sent
<1>3. RequestsCounted' /\ FailuresCounted'
  BY <1>1, <1>2, NothingSent, NobodyBlamed DEF Accounts
<1>4. Functions' /\ Counters' /\ Decided'
  BY <1>1 DEF Accounts, Functions, Counters, Decided
<1>5. BlamedFor'
  BY <1>1 DEF Accounts, BlamedFor, StageOf, StatusOf
<1>6. QED
  BY <1>3, <1>4, <1>5 DEF Accounts

LEMMA AccountsStep == Accounts /\ [ServiceNext]_<<vars, serviceVars>> => Accounts'
<1>1. SUFFICES ASSUME Accounts, [ServiceNext]_<<vars, serviceVars>> PROVE Accounts'
  OBVIOUS
<1>2. CASE SearchRuns
  BY <1>1, <1>2, SearchAccounts
<1>3. CASE ChainMoves
  BY <1>1, <1>3, StillAccounts DEF ChainMoves, ChainChanges
<1>4. ASSUME NEW q \in Others, NEW a \in Asks, Begin(q, a)
      PROVE  Accounts'
  BY <1>1, <1>4, BeginAccounts
<1>5. ASSUME NEW q \in Others, AnswerLocally(q)
      PROVE  Accounts'
  <2>1. LocalReply(ask[q]) \in Int
    BY <1>5, RepliesAreStatuses DEF AnswerLocally
  <2>2. QED
    BY <1>1, <1>5, <2>1, AnswerAccounts DEF AnswerLocally
<1>6. ASSUME NEW q \in Others, AnswerFromCache(q)
      PROVE  Accounts'
  <2>1. PICK code \in Replies(ask[q].route) : Answer(q, code)
    BY <1>6 DEF AnswerFromCache
  <2>2. code \in Int
    BY RepliesAreStatuses DEF Replies
  <2>3. QED
    BY <1>1, <1>6, <2>1, <2>2, AnswerAccounts DEF AnswerFromCache
<1>7. ASSUME NEW q \in Others, AskUpstream(q)
      PROVE  Accounts'
  BY <1>1, <1>7, AskUpstreamAccounts
<1>8. ASSUME NEW q \in Others, UpstreamAnswers(q)
      PROVE  Accounts'
  <2>1. PICK code \in Replies(ask[q].route) : Answer(q, code)
    BY <1>8 DEF UpstreamAnswers
  <2>2. code \in Int
    BY RepliesAreStatuses DEF Replies
  <2>3. QED
    BY <1>1, <1>8, <2>1, <2>2, AnswerAccounts DEF UpstreamAnswers
<1>9. ASSUME NEW q \in Others, NEW failure \in Failures, UpstreamFails(q, failure)
      PROVE  Accounts'
  BY <1>1, <1>9, UpstreamFailsAccounts
<1>10. ASSUME NEW q \in Others, HandlerRaises(q) \/ CachedRaises(q)
       PROVE  Accounts'
  BY <1>1, <1>10, AnswerAccounts DEF HandlerRaises, CachedRaises
<1>11. ASSUME NEW q \in Others \cup {Query}, NEW d \in Durations, Deliver(q, d) \/ Reraise(q, d)
       PROVE  Accounts'
  BY <1>1, <1>11, DeliveryAccounts DEF Everyone
<1>12. ASSUME NEW q \in Others \cup {Query}, Cancel(q)
       PROVE  Accounts'
  BY <1>1, <1>12, CancelAccounts DEF Everyone
<1>13. CASE UNCHANGED <<vars, serviceVars>>
  BY <1>1, <1>13, StillAccounts DEF vars
<1>14. QED
  BY <1>1, <1>2, <1>3, <1>4, <1>5, <1>6, <1>7, <1>8, <1>9, <1>10, <1>11, <1>12, <1>13
     DEF ServiceNext

LEMMA AccountsInit == ServiceInit => Accounts
<1>1. SUFFICES ASSUME ServiceInit PROVE Accounts
  OBVIOUS
<1>2. Functions
  BY <1>1 DEF ServiceInit, Functions, Everyone
<1>3. Sent = {} /\ \A q \in Everyone : blamed[q] = None
  BY <1>1 DEF ServiceInit, Sent, Everyone
<1>4. metrics = [requests |-> EmptyBag, upstream |-> EmptyBag,
                 latency |-> EmptyBag, count |-> EmptyBag]
  BY <1>1 DEF ServiceInit, NoMetrics
<1>5. Counter(EmptyBag) /\ \A key : Copies(key, EmptyBag) = 0
  BY DEF Counter, Copies, EmptyBag, SetToBag, BagIn, BagToSet
<1>6. Counters
  BY <1>4, <1>5 DEF Counters
<1>7. RequestsCounted
  BY <1>3, <1>4, <1>5, FS_EmptySet DEF RequestsCounted, Behind
<1>8. FailuresCounted
  BY <1>3, <1>4, <1>5, FS_EmptySet DEF FailuresCounted, Charged
<1>9. pc = "new" /\ stage = [q \in Others |-> "new"]
  BY <1>1 DEF ServiceInit, Init
<1>10. Decided /\ BlamedFor
  BY <1>3, <1>9 DEF Decided, BlamedFor
<1>11. QED
  BY <1>2, <1>6, <1>7, <1>8, <1>10 DEF Accounts

\* The counters of METRICS are numbers of requests at every moment: what makes a
\* request count happens in the step that counts it (observability and
\* algorand_error_handler, service.py:107-172).
THEOREM AccountsKept == ServiceSpec => []Accounts
<1>1. ServiceInit => Accounts
  BY AccountsInit
<1>2. Accounts /\ [ServiceNext]_<<vars, serviceVars>> => Accounts'
  BY AccountsStep
<1>3. QED
  BY <1>1, <1>2, PTL DEF ServiceSpec

\* Each response sent is counted once, under its route and status, and a
\* cancelled request is not, for any number of requests (observability,
\* service.py:107-145).
THEOREM EveryResponseCounted == ServiceSpec => []AccountedFor
<1>1. Accounts => AccountedFor
  BY DEF Accounts, RequestsCounted, AccountedFor, Behind
<1>2. QED
  BY <1>1, AccountsKept, PTL

LEMMA OutcomeIsBlame ==
    ASSUME NEW failure \in Failures
    PROVE  /\ (Attributed(failure) >= 500) <=> Genuine(failure)
           /\ (Attributed(failure) = 429) <=> (failure = 429)
           /\ (Outcome(Attributed(failure)) = "upstream_error") <=> Genuine(failure)
           /\ (Outcome(Attributed(failure)) = "caller_error") <=> ~Genuine(failure)
BY DEF Failures, NoStatus, Attributed, Genuine, Outcome

\* An outage is a 502, a caller's mistake and a 429 are not, and the upstream
\* counters hold one count for each failure that ended a request, for any
\* number of requests (algorand_error_handler, service.py:154-172).
THEOREM BlameIsAlwaysFair == ServiceSpec => []BlameIsFair
<1>1. ASSUME Accounts PROVE BlameIsFair
  <2>1. DOMAIN blamed = Everyone
    BY <1>1 DEF Accounts, Functions
  <2>2. \A q \in Everyone : blamed[q] # None =>
           blamed[q] \in Failures /\ StatusOf(q) = Attributed(blamed[q])
    BY <1>1 DEF Accounts, BlamedFor
  <2> DEFINE Blamed == {q \in DOMAIN blamed : blamed[q] # None}
  <2>3. /\ Charged("upstream_error") = {q \in Blamed : Genuine(blamed[q])}
        /\ Charged("caller_error") = {q \in Blamed : ~Genuine(blamed[q])}
    BY <2>1, <2>2, OutcomeIsBlame DEF Charged
  <2>4. \A q \in Blamed : /\ (StatusOf(q) >= 500) <=> Genuine(blamed[q])
                          /\ (StatusOf(q) = 429) <=> (blamed[q] = 429)
    BY <2>1, <2>2, OutcomeIsBlame
  <2>5. \A outcome :
           Copies(<<"indexer", outcome>>, metrics.upstream) = Cardinality(Charged(outcome))
    BY <1>1 DEF Accounts, FailuresCounted
  <2>6. /\ Copies(<<"indexer", "upstream_error">>, metrics.upstream) =
              Cardinality({q \in Blamed : Genuine(blamed[q])})
        /\ Copies(<<"indexer", "caller_error">>, metrics.upstream) =
              Cardinality({q \in Blamed : ~Genuine(blamed[q])})
    BY <2>3, <2>5, Zenon
  <2>7. QED
    BY <2>4, <2>6 DEF BlameIsFair
<1>2. QED
  BY <1>1, AccountsKept, PTL
------------------------------------------------------------------------------
(* Sums of counters.  A sum over a set of keys is what a recursive function *)
(* on the subsets of that set makes of the whole; if each counter counts    *)
(* the members of one set by a key, a smallest subset with a wrong sum      *)
(* cannot exist, so the sum counts those whose key is in the set.           *)

Element(s) == CHOOSE x \in s : TRUE

\* h adds up, over each part of D, how many of S have each of its keys.
Adding(h, D, S, key) ==
    h = [s \in SUBSET D |->
           IF s = {} THEN 0
           ELSE Cardinality({q \in S : key[q] = Element(s)}) + h[s \ {Element(s)}]]

\* Every nonempty family of subsets of a finite set has a smallest member.
LEMMA SmallestMember ==
    ASSUME NEW D, IsFiniteSet(D), NEW T, T \subseteq SUBSET D, T # {}
    PROVE  \E s \in T : \A t \in SUBSET s : t \in T => t = s
<1>1. IsWellFoundedOn(StrictSubsetOrdering(D), SUBSET D)
  BY FS_StrictSubsetOrderingWellFounded, FS_FiniteSubsetsOfFinite
<1>2. PICK s \in T : \A t \in T : ~(<<t, s>> \in StrictSubsetOrdering(D))
  BY <1>1, WFMin
<1>3. ASSUME NEW t \in SUBSET s, t \in T, t # s PROVE FALSE
  BY <1>2, <1>3 DEF StrictSubsetOrdering
<1>4. QED
  BY <1>2, <1>3

\* The count of those of S whose key is in s, by one element of s.
LEMMA CountSplits ==
    ASSUME NEW S, IsFiniteSet(S), NEW key, NEW s, NEW x \in s
    PROVE  Cardinality({q \in S : key[q] \in s}) =
              Cardinality({q \in S : key[q] = x}) + Cardinality({q \in S : key[q] \in s \ {x}})
<1> DEFINE One == {q \in S : key[q] = x}
           Rest == {q \in S : key[q] \in s \ {x}}
<1>1. IsFiniteSet(One) /\ IsFiniteSet(Rest)
  BY FS_Subset
<1>2. {q \in S : key[q] \in s} = One \cup Rest /\ One \cap Rest = {}
  OBVIOUS
<1>3. Cardinality({}) = 0
  BY FS_EmptySet
<1>4. Cardinality(One \cup Rest) = Cardinality(One) + Cardinality(Rest) - 0
  BY <1>1, <1>2, <1>3, FS_Union
<1>5. Cardinality(One) \in Nat /\ Cardinality(Rest) \in Nat
  BY <1>1, FS_CardinalityType
<1>6. QED
  BY <1>2, <1>4, <1>5

\* Whatever adds up counts key by key counts those whose key it went through.
LEMMA SumCounts ==
    ASSUME NEW D, IsFiniteSet(D), NEW S, IsFiniteSet(S), NEW key, NEW h,
           Adding(h, D, S, key)
    PROVE  h[D] = Cardinality({q \in S : key[q] \in D})
<1>0. \A s \in SUBSET D :
         h[s] = IF s = {} THEN 0
                ELSE Cardinality({q \in S : key[q] = Element(s)}) + h[s \ {Element(s)}]
  BY DEF Adding
<1> DEFINE Wrong == {s \in SUBSET D : h[s] # Cardinality({q \in S : key[q] \in s})}
<1>1. SUFFICES ASSUME Wrong # {} PROVE FALSE
  OBVIOUS
<1>2. PICK s \in Wrong : \A t \in SUBSET s : t \in Wrong => t = s
  <2>1. Wrong \subseteq SUBSET D
    OBVIOUS
  <2> HIDE DEF Wrong
  <2>2. QED
    BY <1>1, <2>1, SmallestMember
<1>3. CASE s = {}
  <2>1. {q \in S : key[q] \in s} = {}
    BY <1>3
  <2>2. h[s] = 0
    BY <1>0, <1>2, <1>3
  <2>3. QED
    BY <1>2, <2>1, <2>2, FS_EmptySet
<1>4. CASE s # {}
  <2>1. Element(s) \in s
    BY <1>4 DEF Element
  <2>2. s \ {Element(s)} \in SUBSET s /\ s \ {Element(s)} # s /\ s \ {Element(s)} \in SUBSET D
    BY <1>2, <2>1
  <2>3. h[s \ {Element(s)}] = Cardinality({q \in S : key[q] \in s \ {Element(s)}})
    BY <1>2, <2>2
  <2>4. h[s] = Cardinality({q \in S : key[q] = Element(s)}) + h[s \ {Element(s)}]
    BY <1>0, <1>2, <1>4
  <2>5. QED
    BY <1>2, <2>1, <2>3, <2>4, CountSplits
<1>5. QED
  BY <1>3, <1>4

\* The counts themselves add up so.
LEMMA CountsAddUp ==
    ASSUME NEW D, IsFiniteSet(D), NEW S, IsFiniteSet(S), NEW key
    PROVE  \E h : Adding(h, D, S, key)
<1> DEFINE count == [s \in SUBSET D |-> Cardinality({q \in S : key[q] \in s})]
<1>1. ASSUME NEW s \in SUBSET D
      PROVE  count[s] = IF s = {} THEN 0
                        ELSE Cardinality({q \in S : key[q] = Element(s)}) + count[s \ {Element(s)}]
  <2>1. CASE s = {}
    <3>1. {q \in S : key[q] \in s} = {}
      BY <2>1
    <3>2. QED
      BY <2>1, <3>1, FS_EmptySet
  <2>2. CASE s # {}
    <3>1. Element(s) \in s
      BY <2>2 DEF Element
    <3>2. Cardinality({q \in S : key[q] \in s}) =
              Cardinality({q \in S : key[q] = Element(s)})
                 + Cardinality({q \in S : key[q] \in s \ {Element(s)}})
      BY <3>1, CountSplits
    <3>3. QED
      BY <2>2, <3>2
  <2>3. QED
    BY <2>1, <2>2
<1>2. count = [s \in SUBSET D |->
                  IF s = {} THEN 0
                  ELSE Cardinality({q \in S : key[q] = Element(s)}) + count[s \ {Element(s)}]]
  <2> HIDE DEF count
  <2>1. count = [s \in SUBSET D |-> count[s]]
    BY DEF count
  <2>2. QED
    BY <1>1, <2>1
<1>3. QED
  BY <1>2 DEF Adding

\* The sums of the model: of one status over labels, and of one label over
\* statuses or buckets.
LabelSum(D, code, counts) == MapThenSumSet(LAMBDA x : Copies(<<x, code>>, counts), D)
KeySum(D, label, counts) == MapThenSumSet(LAMBDA x : Copies(<<label, x>>, counts), D)

LEMMA SumOverLabels ==
    ASSUME NEW D, IsFiniteSet(D), NEW S, IsFiniteSet(S), NEW key, NEW counts, NEW code,
           \A x \in D : Copies(<<x, code>>, counts) = Cardinality({q \in S : key[q] = x})
    PROVE  LabelSum(D, code, counts) =
              Cardinality({q \in S : key[q] \in D})
<1> DEFINE Adds(h) ==
            h = [s \in SUBSET D |->
                   IF s = {} THEN 0
                   ELSE Copies(<<CHOOSE x \in s : TRUE, code>>, counts)
                          + h[s \ {CHOOSE x \in s : TRUE}]]
<1>1. LabelSum(D, code, counts) = (CHOOSE h : Adds(h))[D]
  BY DEF LabelSum, MapThenSumSet, MapThenFoldSet
<1>2. ASSUME NEW s \in SUBSET D, s # {}
      PROVE  Copies(<<Element(s), code>>, counts) = Cardinality({q \in S : key[q] = Element(s)})
  <2>1. Element(s) \in D
    BY <1>2 DEF Element
  <2>2. QED
    BY <2>1
<1>3. ASSUME NEW h PROVE Adding(h, D, S, key) <=> Adds(h)
  <2> DEFINE Counted(s) ==
               IF s = {} THEN 0
               ELSE Cardinality({q \in S : key[q] = Element(s)}) + h[s \ {Element(s)}]
             Copied(s) ==
               IF s = {} THEN 0
               ELSE Copies(<<CHOOSE x \in s : TRUE, code>>, counts)
                      + h[s \ {CHOOSE x \in s : TRUE}]
  <2>1. \A s \in SUBSET D : Counted(s) = Copied(s)
    BY <1>2 DEF Element
  <2>2. [s \in SUBSET D |-> Counted(s)] = [s \in SUBSET D |-> Copied(s)]
    <3> HIDE DEF Counted, Copied
    <3>1. QED
      BY <2>1
  <2>3. Adding(h, D, S, key) <=> h = [s \in SUBSET D |-> Counted(s)]
    BY DEF Adding
  <2>4. Adds(h) <=> h = [s \in SUBSET D |-> Copied(s)]
    OBVIOUS
  <2> HIDE DEF Counted, Copied, Adds
  <2>5. QED
    BY <2>2, <2>3, <2>4
<1>4. PICK h : h = (CHOOSE g : Adds(g)) /\ Adds(h)
  <2> HIDE DEF Adds
  <2>1. \E h : Adds(h)
    BY <1>3, CountsAddUp
  <2>2. QED
    BY <2>1
<1>5. h[D] = Cardinality({q \in S : key[q] \in D})
  <2> HIDE DEF Adds
  <2>1. QED
    BY <1>3, <1>4, SumCounts
<1>6. QED
  BY <1>1, <1>4, <1>5

LEMMA SumOverKeys ==
    ASSUME NEW D, IsFiniteSet(D), NEW S, IsFiniteSet(S), NEW key, NEW counts, NEW label,
           \A x \in D : Copies(<<label, x>>, counts) = Cardinality({q \in S : key[q] = x})
    PROVE  KeySum(D, label, counts) =
              Cardinality({q \in S : key[q] \in D})
<1> DEFINE Adds(h) ==
            h = [s \in SUBSET D |->
                   IF s = {} THEN 0
                   ELSE Copies(<<label, CHOOSE x \in s : TRUE>>, counts)
                          + h[s \ {CHOOSE x \in s : TRUE}]]
<1>1. KeySum(D, label, counts) = (CHOOSE h : Adds(h))[D]
  BY DEF KeySum, MapThenSumSet, MapThenFoldSet
<1>2. ASSUME NEW s \in SUBSET D, s # {}
      PROVE  Copies(<<label, Element(s)>>, counts) = Cardinality({q \in S : key[q] = Element(s)})
  <2>1. Element(s) \in D
    BY <1>2 DEF Element
  <2>2. QED
    BY <2>1
<1>3. ASSUME NEW h PROVE Adding(h, D, S, key) <=> Adds(h)
  <2> DEFINE Counted(s) ==
               IF s = {} THEN 0
               ELSE Cardinality({q \in S : key[q] = Element(s)}) + h[s \ {Element(s)}]
             Copied(s) ==
               IF s = {} THEN 0
               ELSE Copies(<<label, CHOOSE x \in s : TRUE>>, counts)
                      + h[s \ {CHOOSE x \in s : TRUE}]
  <2>1. \A s \in SUBSET D : Counted(s) = Copied(s)
    BY <1>2 DEF Element
  <2>2. [s \in SUBSET D |-> Counted(s)] = [s \in SUBSET D |-> Copied(s)]
    <3> HIDE DEF Counted, Copied
    <3>1. QED
      BY <2>1
  <2>3. Adding(h, D, S, key) <=> h = [s \in SUBSET D |-> Counted(s)]
    BY DEF Adding
  <2>4. Adds(h) <=> h = [s \in SUBSET D |-> Copied(s)]
    OBVIOUS
  <2> HIDE DEF Counted, Copied, Adds
  <2>5. QED
    BY <2>2, <2>3, <2>4
<1>4. PICK h : h = (CHOOSE g : Adds(g)) /\ Adds(h)
  <2> HIDE DEF Adds
  <2>1. \E h : Adds(h)
    BY <1>3, CountsAddUp
  <2>2. QED
    BY <2>1
<1>5. h[D] = Cardinality({q \in S : key[q] \in D})
  <2> HIDE DEF Adds
  <2>1. QED
    BY <1>3, <1>4, SumCounts
<1>6. QED
  BY <1>1, <1>4, <1>5

\* A duration is put in exactly one bucket, and in one of the first i exactly if
\* it does not exceed the i-th edge.
LEMMA BucketIs ==
    ASSUME NEW d \in Nat
    PROVE  /\ Bucket(d) \in 1 .. Len(LatencyBuckets) + 1
           /\ \A i \in DOMAIN LatencyBuckets : Bucket(d) \in 1 .. i <=> d <= LatencyBuckets[i]
<1> DEFINE Last == Len(LatencyBuckets)
           Fits(b) == b <= Last => d <= LatencyBuckets[b]
           Right(b) == Fits(b) /\ \A i \in 1 .. b - 1 : d > LatencyBuckets[i]
           Room == {b \in 1 .. Last + 1 : Fits(b)}
<1>1. /\ Last \in Nat /\ DOMAIN LatencyBuckets = 1 .. Last
      /\ \A i \in 1 .. Last : LatencyBuckets[i] \in Nat
  BY BucketAssumption
<1>2. Room \subseteq Nat /\ Last + 1 \in Room
  BY <1>1
<1>3. PICK least \in Room : \A b \in Room : ~(b < least)
  <2>1. Room # {}
    BY <1>2
  <2>2. PICK least \in Room : \A b \in Room : ~(<<b, least>> \in OpToRel(<, Nat))
    <3> HIDE DEF Room
    <3>1. QED
      BY <1>2, <2>1, NatLessThanWellFounded, WFMin
  <2>3. QED
    BY <1>2, <2>2 DEF OpToRel
<1>4. Right(least)
  <2>1. Fits(least) /\ least \in 1 .. Last + 1
    OBVIOUS
  <2>2. ASSUME NEW i \in 1 .. least - 1 PROVE d > LatencyBuckets[i]
    <3>1. i \in 1 .. Last /\ i < least
      BY <1>1, <2>1
    <3>2. ~Fits(i)
      BY <1>1, <1>3, <3>1
    <3>3. QED
      BY <1>1, <3>1, <3>2
  <2>3. QED
    BY <2>1, <2>2
<1>5. Bucket(d) = CHOOSE b \in 1 .. Last + 1 : Right(b)
  BY DEF Bucket
<1>6. Bucket(d) \in 1 .. Last + 1 /\ Right(Bucket(d))
  <2>1. least \in 1 .. Last + 1
    OBVIOUS
  <2> HIDE DEF Right
  <2>2. QED
    BY <1>4, <1>5, <2>1
<1>7. ASSUME NEW i \in 1 .. Last PROVE Bucket(d) \in 1 .. i <=> d <= LatencyBuckets[i]
  <2>1. CASE Bucket(d) <= i
    <3>1. d <= LatencyBuckets[Bucket(d)] /\ Bucket(d) \in 1 .. Last
      BY <1>1, <1>6, <2>1
    <3>2. LatencyBuckets[Bucket(d)] <= LatencyBuckets[i]
      <4>1. CASE Bucket(d) = i
        BY <1>1, <4>1
      <4>2. CASE Bucket(d) < i
        BY <1>1, <3>1, <4>2, BucketAssumption
      <4>3. QED
        BY <1>1, <2>1, <3>1, <4>1, <4>2
    <3>3. QED
      BY <1>1, <2>1, <3>1, <3>2
  <2>2. CASE i < Bucket(d)
    <3>1. i \in 1 .. Bucket(d) - 1
      BY <1>1, <1>6, <2>2
    <3>2. d > LatencyBuckets[i]
      BY <1>6, <3>1
    <3>3. QED
      BY <1>1, <2>2, <3>2
  <2>3. QED
    BY <1>1, <1>6, <2>1, <2>2
<1>8. QED
  BY <1>1, <1>6, <1>7
------------------------------------------------------------------------------
(* Types: what each request is, and what became of it.                     *)

\* The statuses a request can end with.
LEMMA CodesAre ==
    /\ \A a : LocalReply(a) \in (Codes \cup {None}) \ {502}
    /\ \A route : /\ Missing(route) \in Codes \cup {None}
                  /\ Missing(route) = 502 => route = "/blocks"
    /\ \A failure \in Failures : Attributed(failure) \in {400, 404, 429, 502}
    /\ \A failure \in Failures :
          Outcome(Attributed(failure)) \in {"caller_error", "upstream_error"}
    /\ Codes \subseteq Int /\ None \notin Codes
<1>0. Codes \subseteq Int /\ None \notin Codes
  BY TermAssumption DEF Codes
<1>1. \A a : LocalReply(a) \in (Codes \cup {None}) \ {502}
  <2>1. \A a : LocalReply(a) \in {200, 400, 403, 404, 422, None}
    BY DEF LocalReply
  <2>2. {200, 400, 403, 404, 422, None} \subseteq (Codes \cup {None}) \ {502}
    BY <1>0 DEF Codes
  <2>3. QED
    BY <2>1, <2>2
<1>2. ASSUME NEW route
      PROVE  Missing(route) \in Codes \cup {None} /\ (Missing(route) = 502 => route = "/blocks")
  <2>1. CASE route = "/transactions/{txid}"
    <3>1. Missing(route) = 404
      BY <2>1 DEF Missing
    <3>2. QED
      BY <3>1 DEF Codes
  <2>2. CASE route = "/blocks"
    BY <2>2 DEF Missing, Codes
  <2>3. CASE route \notin {"/transactions/{txid}", "/blocks"}
    <3>1. Missing(route) = None
      BY <2>3 DEF Missing
    <3>2. QED
      BY <1>0, <3>1 DEF Codes
  <2>4. QED
    BY <2>1, <2>2, <2>3
<1>3. \A failure \in Failures : Attributed(failure) \in {400, 404, 429, 502}
  BY DEF Attributed, Failures, NoStatus
<1>4. \A failure \in Failures :
         Outcome(Attributed(failure)) \in {"caller_error", "upstream_error"}
  BY DEF Outcome
<1>5. QED
  BY <1>0, <1>1, <1>2, <1>3, <1>4

\* What a handler answers to a payload is a status, and 502 for one route only.
LEMMA RepliesInCodes ==
    ASSUME NEW route
    PROVE  /\ Replies(route) \subseteq Codes
           /\ 502 \in Replies(route) => route = "/blocks"
<1>1. 200 \in Codes
  BY DEF Codes
<1>2. QED
  BY <1>1, CodesAre DEF Replies

\* The replies of a search, step by step.
Replied == reply \in {None, 200, 400, 404, 429, 500, 502}

LEMMA RepliedStep == Replied /\ [Next]_vars => Replied'
<1>1. SUFFICES ASSUME Replied, [Next]_vars PROVE Replied'
  OBVIOUS
<1>2. ASSUME NEW n, NEW hit, Continue(n, hit) PROVE Replied'
  BY <1>1, <1>2 DEF Replied, Continue, Respond, Probe
<1>3. CASE Arrive
  BY <1>1, <1>3 DEF Replied, Arrive, Respond, Probe
<1>4. ASSUME NEW n \in Namespaces, Hit(n) \/ Miss(n) PROVE Replied'
  BY <1>2, <1>4 DEF Hit, Miss
<1>5. ASSUME NEW n \in Namespaces, NEW failure \in Failures, ProbeFails(n, failure) PROVE Replied'
  <2>1. CASE LetsThrough(n)
    <3>1. reply' = Attributed(failure)
      BY <1>5, <2>1 DEF ProbeFails, Respond
    <3>2. QED
      BY <3>1, CodesAre DEF Replied
  <2>2. CASE ~LetsThrough(n)
    BY <1>2, <1>5, <2>2 DEF ProbeFails
  <2>3. QED
    BY <2>1, <2>2
<1>6. CASE ProbeRaises
  BY <1>6 DEF Replied, ProbeRaises, Respond
<1>7. ASSUME NEW n \in CanMatch(term), ChainChanges(n) PROVE Replied'
  BY <1>1, <1>7 DEF Replied, ChainChanges
<1>8. CASE UNCHANGED vars
  BY <1>1, <1>8 DEF Replied, vars
<1>9. QED
  BY <1>1, <1>3, <1>4, <1>5, <1>6, <1>7, <1>8 DEF Next

------------------------------------------------------------------------------
(* Types of the service's own variables.  A request that is under way has   *)
(* asked something.                                                        *)
Stages == {"new", "handling", "awaiting", "answered", "raised"}
Responses == {None, Gone} \cup [status : Codes, id : BOOLEAN, duration : Durations]

Requests ==
    /\ ask \in [Others -> Asks \cup {None}]
    /\ stage \in [Others -> Stages]
    /\ status \in [Others -> Codes \cup {None}]
    /\ called \in [Others -> BOOLEAN]
    /\ blamed \in [Everyone -> Failures \cup {None}]
    /\ response \in [Everyone -> Responses]
    /\ \A q \in Others : stage[q] # "new" => ask[q] \in Asks

\* What is sent as an answer is one of the statuses.
LEMMA AnsweredInCodes ==
    ASSUME Accounts, Requests, Replied, NEW q \in Everyone, StageOf(q) = "answered"
    PROVE  StatusOf(q) \in Codes
<1>1. CASE q = Query
  <2>1. pc = "done"
    BY <1>1 DEF StageOf
  <2>2. reply # None
    BY <2>1, TermAssumption DEF Accounts, Decided
  <2>3. QED
    BY <1>1, <2>2 DEF Replied, Codes, StatusOf
<1>2. CASE q # Query
  <2>1. q \in Others /\ stage[q] = "answered"
    BY <1>2 DEF Everyone, StageOf
  <2>2. status[q] # None
    BY <2>1, TermAssumption DEF Accounts, Decided
  <2>3. QED
    BY <1>2, <2>1, <2>2 DEF Requests, StatusOf
<1>3. QED
  BY <1>1, <1>2

LEMMA RequestMoves ==
    ASSUME Requests, NEW q \in Others, NEW from \in Stages \ {"new"}, NEW to \in Stages,
           Move(q, from, to), UNCHANGED ask
    PROVE  /\ stage' \in [Others -> Stages]
           /\ response' \in [Everyone -> Responses]
           /\ ask' \in [Others -> Asks \cup {None}]
           /\ \A p \in Others : stage'[p] # "new" => ask'[p] \in Asks
<1>1. stage[q] = from /\ stage' = [stage EXCEPT ![q] = to] /\ UNCHANGED response
  BY DEF Move
<1>2. stage' \in [Others -> Stages] /\ response' \in [Everyone -> Responses]
  BY <1>1 DEF Requests
<1>3. \A p \in Others : stage'[p] # "new" => stage[p] # "new"
  BY <1>1 DEF Requests
<1>4. QED
  BY <1>2, <1>3 DEF Requests

LEMMA RequestsStep ==
    ASSUME Accounts, Requests, Replied, [ServiceNext]_<<vars, serviceVars>>
    PROVE  Requests'
<1>0. Query \in Everyone /\ Others \subseteq Everyone /\ Query \notin Others
  BY ServiceAssumption DEF Everyone
<1>1. CASE SearchRuns
  <2>1. UNCHANGED <<ask, stage, status, called, response>>
    BY <1>1 DEF SearchRuns
  <2>2. \/ UNCHANGED blamed
        \/ \E failure \in Failures : blamed' = [blamed EXCEPT ![Query] = failure]
    BY <1>1 DEF SearchRuns, SearchEnds, Attribute
  <2>3. blamed' \in [Everyone -> Failures \cup {None}]
    BY <1>0, <2>2 DEF Requests
  <2>4. QED
    BY <2>1, <2>3 DEF Requests
<1>2. CASE ChainMoves
  BY <1>2 DEF ChainMoves, serviceVars, Requests
<1>3. ASSUME NEW q \in Others, NEW a \in Asks, Begin(q, a)
      PROVE  Requests'
  <2>1. /\ stage' = [stage EXCEPT ![q] = "handling"] /\ ask' = [ask EXCEPT ![q] = a]
        /\ UNCHANGED <<status, called, blamed, response>>
    BY <1>3 DEF Begin, Move
  <2>2. \A p \in Others : stage'[p] # "new" => ask'[p] \in Asks
    BY <2>1 DEF Requests
  <2>3. QED
    BY <2>1, <2>2 DEF Requests, Stages
<1>4. ASSUME NEW q \in Others, NEW from \in {"handling", "awaiting"},
             NEW to \in {"answered", "raised"}, NEW code \in Codes, Move(q, from, to), Answer(q, code), UNCHANGED <<ask, called>>,
             blamed' \in [Everyone -> Failures \cup {None}]
      PROVE  Requests'
  <2>1. from \in Stages \ {"new"} /\ to \in Stages
    BY DEF Stages
  <2>2. status' \in [Others -> Codes \cup {None}]
    BY <1>4 DEF Answer, Requests
  <2>3. QED
    BY <1>4, <2>1, <2>2, RequestMoves DEF Requests
<1>5. ASSUME NEW q \in Others, AnswerLocally(q)
      PROVE  Requests'
  <2>1. LocalReply(ask[q]) \in Codes /\ blamed' \in [Everyone -> Failures \cup {None}]
    BY <1>5, CodesAre DEF AnswerLocally, Requests
  <2>2. QED
    BY <1>4, <1>5, <2>1 DEF AnswerLocally
<1>6. ASSUME NEW q \in Others, AnswerFromCache(q)
      PROVE  Requests'
  <2>1. PICK code \in Replies(ask[q].route) : Answer(q, code)
    BY <1>6 DEF AnswerFromCache
  <2>2. code \in Codes /\ blamed' \in [Everyone -> Failures \cup {None}]
    BY <1>6, RepliesInCodes DEF AnswerFromCache, Requests
  <2>3. QED
    BY <1>4, <1>6, <2>1, <2>2 DEF AnswerFromCache
<1>7. ASSUME NEW q \in Others, AskUpstream(q)
      PROVE  Requests'
  <2>1. /\ Move(q, "handling", "awaiting") /\ UNCHANGED <<ask, status, blamed>>
        /\ called' = [called EXCEPT ![q] = TRUE]
    BY <1>7 DEF AskUpstream
  <2>2. "handling" \in Stages \ {"new"} /\ "awaiting" \in Stages
    BY DEF Stages
  <2>3. called' \in [Others -> BOOLEAN]
    BY <2>1 DEF Requests
  <2>4. QED
    BY <2>1, <2>2, <2>3, RequestMoves DEF Requests
<1>8. ASSUME NEW q \in Others, UpstreamAnswers(q)
      PROVE  Requests'
  <2>1. PICK code \in Replies(ask[q].route) : Answer(q, code)
    BY <1>8 DEF UpstreamAnswers
  <2>2. code \in Codes /\ blamed' \in [Everyone -> Failures \cup {None}]
    BY <1>8, RepliesInCodes DEF UpstreamAnswers, Requests
  <2>3. QED
    BY <1>4, <1>8, <2>1, <2>2 DEF UpstreamAnswers
<1>9. ASSUME NEW q \in Others, NEW failure \in Failures, UpstreamFails(q, failure)
      PROVE  Requests'
  <2>1. blamed' \in [Everyone -> Failures \cup {None}]
    BY <1>0, <1>9 DEF UpstreamFails, Attribute, Requests
  <2>2. Attributed(failure) \in Codes
    BY CodesAre DEF Codes
  <2>3. QED
    BY <1>4, <1>9, <2>1, <2>2 DEF UpstreamFails
<1>10. ASSUME NEW q \in Others, HandlerRaises(q) \/ CachedRaises(q)
       PROVE  Requests'
  <2>1. 500 \in Codes /\ blamed' \in [Everyone -> Failures \cup {None}]
    BY <1>10 DEF HandlerRaises, CachedRaises, Requests, Codes
  <2>2. QED
    BY <1>4, <1>10, <2>1 DEF HandlerRaises, CachedRaises
<1>11. ASSUME NEW q \in Everyone, NEW code \in Codes, NEW id \in BOOLEAN, NEW d \in Durations,
              Send(q, code, id, d)
       PROVE  Requests'
  <2>1. /\ response' = [response EXCEPT ![q] = [status |-> code, id |-> id, duration |-> d]]
        /\ UNCHANGED <<ask, stage, status, called, blamed>>
    BY <1>11 DEF Send, requestVars
  <2>2. [status |-> code, id |-> id, duration |-> d] \in Responses
    BY DEF Responses
  <2>3. response' \in [Everyone -> Responses]
    BY <2>1, <2>2 DEF Requests
  <2>4. QED
    BY <2>1, <2>3 DEF Requests
<1>12. ASSUME NEW q \in Others \cup {Query}, NEW d \in Durations, Deliver(q, d)
       PROVE  Requests'
  <2>1. PICK id \in BOOLEAN : id = TRUE
    OBVIOUS
  <2>2. Send(q, StatusOf(q), id, d)
    BY <1>12, <2>1 DEF Deliver
  <2>3. q \in Everyone /\ StatusOf(q) \in Codes
    BY <1>12, AnsweredInCodes DEF Deliver, Everyone
  <2>4. QED
    BY <1>11, <2>2, <2>3, Zenon
<1>13. ASSUME NEW q \in Others \cup {Query}, NEW d \in Durations, Reraise(q, d)
       PROVE  Requests'
  <2>1. PICK code \in Codes : code = 500
    BY DEF Codes
  <2>2. PICK id \in BOOLEAN : id = FALSE
    OBVIOUS
  <2>3. Send(q, code, id, d)
    BY <1>13, <2>1, <2>2 DEF Reraise
  <2>4. q \in Everyone
    BY DEF Everyone
  <2>5. QED
    BY <1>11, <2>3, <2>4, Zenon
<1>14. ASSUME NEW q \in Others \cup {Query}, Cancel(q)
       PROVE  Requests'
  <2>1. /\ response' = [response EXCEPT ![q] = Gone]
        /\ UNCHANGED <<ask, stage, status, called, blamed>>
    BY <1>14 DEF Cancel, requestVars
  <2>2. response' \in [Everyone -> Responses]
    BY <2>1 DEF Requests, Responses
  <2>3. QED
    BY <2>1, <2>2 DEF Requests
<1>15. CASE UNCHANGED <<vars, serviceVars>>
  BY <1>15 DEF serviceVars, Requests
<1>16. QED
  BY <1>1, <1>2, <1>3, <1>5, <1>6, <1>7, <1>8, <1>9, <1>10, <1>12, <1>13, <1>14, <1>15
     DEF ServiceNext
------------------------------------------------------------------------------
(* What a step of the service may do to METRICS: count a request that is   *)
(* sent, or no request at all.                                             *)
Counting(q, code, id, d) ==
    /\ StageOf(q) \in {"answered", "raised"}
    /\ Send(q, code, id, d)
    /\ metrics' = ObserveRequest(metrics, RouteFor(AskOf(q)), code, d)

Uncounted ==
    /\ Sent' = Sent /\ \A q \in Sent : response'[q] = response[q]
    /\ \A q \in Others : ask'[q] = ask[q] \/ response[q] = None
    /\ \/ metrics' = metrics
       \/ \E failure \in Failures :
             metrics' = ObserveUpstream(metrics, "indexer", Outcome(Attributed(failure)))

LEMMA StepsCount ==
    ASSUME Accounts, Requests, Replied, [ServiceNext]_<<vars, serviceVars>>
    PROVE  \/ Uncounted
           \/ \E q \in Everyone, code \in Codes, id \in BOOLEAN, d \in Durations :
                 Counting(q, code, id, d)
<1>1. ASSUME UNCHANGED response, UNCHANGED ask \/ \E q \in Others, a \in Asks : Begin(q, a),
             \/ metrics' = metrics
             \/ \E q \in Everyone, failure \in Failures : Attribute(q, failure)
      PROVE  Uncounted
  <2>1. Sent' = Sent /\ \A q \in Sent : response'[q] = response[q]
    BY <1>1 DEF Sent
  <2>2. \A q \in Others : ask'[q] = ask[q] \/ response[q] = None
    BY <1>1 DEF Begin, Move, Requests
  <2>3. QED
    BY <1>1, <2>1, <2>2 DEF Uncounted, Attribute
<1>2. CASE SearchRuns
  <2>1. UNCHANGED <<response, ask>>
    BY <1>2 DEF SearchRuns
  <2>2. \/ metrics' = metrics
        \/ \E failure \in Failures : Attribute(Query, failure)
    BY <1>2 DEF SearchRuns, SearchEnds
  <2>3. QED
    BY <1>1, <2>1, <2>2 DEF Everyone
<1>3. CASE ChainMoves \/ UNCHANGED <<vars, serviceVars>>
  BY <1>1, <1>3 DEF ChainMoves, serviceVars
<1>4. ASSUME NEW q \in Others, NEW a \in Asks, Begin(q, a)
      PROVE  Uncounted
  BY <1>1, <1>4 DEF Begin, Move
<1>5. ASSUME NEW q \in Others,
             \/ AnswerLocally(q) \/ AnswerFromCache(q) \/ CachedRaises(q) \/ AskUpstream(q)
             \/ UpstreamAnswers(q) \/ HandlerRaises(q)
      PROVE  Uncounted
  BY <1>1, <1>5
     DEF AnswerLocally, AnswerFromCache, CachedRaises, AskUpstream, UpstreamAnswers,
         HandlerRaises, Move
<1>6. ASSUME NEW q \in Others, NEW failure \in Failures, UpstreamFails(q, failure)
      PROVE  Uncounted
  BY <1>1, <1>6 DEF UpstreamFails, Move, Everyone
<1>7. ASSUME NEW q \in Others \cup {Query}, Cancel(q)
      PROVE  Uncounted
  <2>1. /\ response[q] = None /\ response' = [response EXCEPT ![q] = Gone]
        /\ UNCHANGED <<ask, metrics>>
    BY <1>7 DEF Cancel, requestVars
  <2>2. Sent' = Sent /\ \A p \in Sent : response'[p] = response[p]
    BY <2>1 DEF Accounts, Functions, Sent, Gone
  <2>3. QED
    BY <2>1, <2>2 DEF Uncounted
<1>8. ASSUME NEW q \in Others \cup {Query}, NEW d \in Durations, Deliver(q, d)
      PROVE  \E p \in Everyone, code \in Codes, id \in BOOLEAN, e \in Durations :
                Counting(p, code, id, e)
  <2>1. PICK id \in BOOLEAN : id = TRUE
    OBVIOUS
  <2>2. Counting(q, StatusOf(q), id, d) /\ StatusOf(q) \in Codes /\ q \in Everyone
    BY <1>8, <2>1, AnsweredInCodes DEF Deliver, Counting, Everyone
  <2>3. QED
    BY <2>2, Zenon
<1>9. ASSUME NEW q \in Others \cup {Query}, NEW d \in Durations, Reraise(q, d)
      PROVE  \E p \in Everyone, code \in Codes, id \in BOOLEAN, e \in Durations :
                Counting(p, code, id, e)
  <2>1. PICK code \in Codes : code = 500
    BY DEF Codes
  <2>2. PICK id \in BOOLEAN : id = FALSE
    OBVIOUS
  <2>3. Counting(q, code, id, d) /\ q \in Everyone
    BY <1>9, <2>1, <2>2 DEF Reraise, Counting, Everyone
  <2>4. QED
    BY <2>3, Zenon
<1>10. QED
  BY <1>2, <1>3, <1>4, <1>5, <1>6, <1>7, <1>8, <1>9 DEF ServiceNext

------------------------------------------------------------------------------
\* The responses of one label, and those of them in one bucket.
Took(label) == {q \in Sent : RouteFor(AskOf(q)) = label}
Within(label, b) == {q \in Took(label) : Bucket(response[q].duration) = b}

Timed ==
    /\ Counter(metrics.latency) /\ Counter(metrics.count)
    /\ \A label : Copies(label, metrics.count) = Cardinality(Took(label))
    /\ \A label, b : Copies(<<label, b>>, metrics.latency) = Cardinality(Within(label, b))

\* The labels of the counters are a closed set.
Closed ==
    /\ DOMAIN metrics.requests \subseteq Labels \X Codes
    /\ DOMAIN metrics.upstream \subseteq {"indexer"} \X {"caller_error", "upstream_error"}

LEMMA UncountedKeeps ==
    ASSUME Accounts, Timed, Uncounted
    PROVE  Timed'
<1>1. metrics'.latency = metrics.latency /\ metrics'.count = metrics.count
  BY DEF Accounts, Counters, Uncounted, ObserveUpstream
<1>2. Sent' = Sent /\ \A q \in Sent : response'[q] = response[q]
  BY DEF Uncounted
<1>3. \A q \in Sent : RouteFor(AskOf(q))' = RouteFor(AskOf(q))
  <2>1. Sent \subseteq Everyone /\ \A q \in Sent : response[q] # None
    BY DEF Accounts, Functions, Sent
  <2>2. QED
    BY <2>1, LabelsStay DEF Uncounted
<1>4. \A label : Took(label)' = Took(label)
  BY <1>2, <1>3 DEF Took
<1>5. \A label, b : Within(label, b)' = Within(label, b)
  <2>1. \A label : Took(label) \subseteq Sent
    BY DEF Took
  <2>2. \A q \in Sent : Bucket(response[q].duration)' = Bucket(response[q].duration)
    BY <1>2
  <2>3. QED
    BY <1>4, <2>1, <2>2 DEF Within
<1>6. QED
  BY <1>1, <1>4, <1>5 DEF Timed

LEMMA CountingKeeps ==
    ASSUME Accounts, Timed, NEW q \in Everyone, NEW code \in Codes, NEW id \in BOOLEAN,
           NEW d \in Durations, Counting(q, code, id, d)
    PROVE  Timed'
<1>1. /\ response[q] = None
      /\ response' = [response EXCEPT ![q] = [status |-> code, id |-> id, duration |-> d]]
      /\ UNCHANGED <<ask, stage, status, called, blamed>> /\ UNCHANGED vars
  BY DEF Counting, Send, requestVars
<1>2. /\ response'[q] = [status |-> code, id |-> id, duration |-> d]
      /\ \A p \in Everyone : p # q => response'[p] = response[p]
  BY <1>1 DEF Accounts, Functions
<1>3. DOMAIN response = Everyone /\ DOMAIN response' = Everyone
  BY <1>1 DEF Accounts, Functions
<1>4. response'[q] # None /\ response'[q] # Gone /\ response'[q].duration = d
  <2>1. response'[q] \in [status : Int, id : BOOLEAN, duration : Nat]
    BY <1>2, CodesAre, ServiceAssumption
  <2>2. response'[q] # None
    BY <2>1, ServiceAssumption
  <2>3. response'[q].status = code /\ Gone.status = None
    BY <1>2 DEF Gone
  <2>4. response'[q] # Gone
    BY <2>3, CodesAre
  <2>5. QED
    BY <1>2, <2>2, <2>4
<1>5. /\ Sent' = Sent \cup {q} /\ q \notin Sent
      /\ \A p \in Sent : response'[p] = response[p]
      /\ Sent \subseteq Everyone
  BY <1>1, <1>2, <1>3, <1>4 DEF Sent
<1>6. \A p \in Everyone : RouteFor(AskOf(p))' = RouteFor(AskOf(p))
  BY <1>1, LabelsStay
<1> DEFINE mine == RouteFor(AskOf(q))
<1>7. \A label : Took(label)' = IF label = mine THEN Took(label) \cup {q} ELSE Took(label)
  BY <1>5, <1>6 DEF Took
<1>8. \A label, b : Within(label, b)' = IF <<label, b>> = <<mine, Bucket(d)>>
                                        THEN Within(label, b) \cup {q} ELSE Within(label, b)
  <2>1. \A label : q \notin Took(label) /\ Took(label) \subseteq Sent
    BY <1>5 DEF Took
  <2>2. \A p \in Sent : Bucket(response[p].duration)' = Bucket(response[p].duration)
    BY <1>5
  <2>3. Bucket(response[q].duration)' = Bucket(d)
    BY <1>4
  <2>4. QED
    BY <1>7, <2>1, <2>2, <2>3 DEF Within
<1>9. /\ metrics'.count = Incremented(metrics.count, mine)
      /\ metrics'.latency = Incremented(metrics.latency, <<mine, Bucket(d)>>)
  BY DEF Accounts, Counters, Counting, ObserveRequest
<1> HIDE DEF mine
<1>10. \A label, b : /\ q \notin Took(label) /\ IsFiniteSet(Took(label))
                     /\ q \notin Within(label, b) /\ IsFiniteSet(Within(label, b))
  <2>1. \A label, b : Took(label) \subseteq Sent /\ Within(label, b) \subseteq Sent
    BY DEF Took, Within
  <2>2. QED
    BY <1>5, <2>1, FinitelyMany, FS_Subset DEF Accounts
<1>11. Counter(metrics'.count) /\ Counter(metrics'.latency)
  BY <1>9, CopiesAdded DEF Timed
<1>12. ASSUME NEW label
       PROVE  Copies(label, metrics'.count) = Cardinality(Took(label)')
  <2>1. Cardinality(Took(label)') =
           IF label = mine THEN Cardinality(Took(label)) + 1 ELSE Cardinality(Took(label))
    BY <1>7, <1>10, FS_AddElement
  <2>2. Copies(label, metrics'.count) =
           IF label = mine THEN Copies(label, metrics.count) + 1 ELSE Copies(label, metrics.count)
    BY <1>9, CopiesAdded DEF Timed
  <2>3. QED
    BY <2>1, <2>2 DEF Timed
<1>13. ASSUME NEW label, NEW b
       PROVE  Copies(<<label, b>>, metrics'.latency) = Cardinality(Within(label, b)')
  <2>1. Cardinality(Within(label, b)') =
           IF <<label, b>> = <<mine, Bucket(d)>>
           THEN Cardinality(Within(label, b)) + 1 ELSE Cardinality(Within(label, b))
    BY <1>8, <1>10, FS_AddElement
  <2>2. Copies(<<label, b>>, metrics'.latency) =
           IF <<label, b>> = <<mine, Bucket(d)>>
           THEN Copies(<<label, b>>, metrics.latency) + 1
           ELSE Copies(<<label, b>>, metrics.latency)
    BY <1>9, CopiesAdded DEF Timed
  <2>3. QED
    BY <2>1, <2>2 DEF Timed
<1>14. QED
  BY <1>11, <1>12, <1>13 DEF Timed

LEMMA ClosedStep ==
    ASSUME Accounts, Requests, Replied, Closed, [ServiceNext]_<<vars, serviceVars>>
    PROVE  Closed'
<1>1. \A counts, x : DOMAIN Incremented(counts, x) \subseteq DOMAIN counts \cup {x}
  BY DEF Incremented, SetToBag, (+)
<1>2. CASE Uncounted
  <2>1. metrics'.requests = metrics.requests
    BY <1>2 DEF Accounts, Counters, Uncounted, ObserveUpstream
  <2>2. \/ metrics'.upstream = metrics.upstream
        \/ \E failure \in Failures :
              metrics'.upstream =
                 Incremented(metrics.upstream, <<"indexer", Outcome(Attributed(failure))>>)
    BY <1>2 DEF Accounts, Counters, Uncounted, ObserveUpstream
  <2>a. \A failure \in Failures :
           <<"indexer", Outcome(Attributed(failure))>> \in
              {"indexer"} \X {"caller_error", "upstream_error"}
    BY CodesAre
  <2>3. DOMAIN metrics'.upstream \subseteq {"indexer"} \X {"caller_error", "upstream_error"}
    <3>1. CASE metrics'.upstream = metrics.upstream
      BY <3>1 DEF Closed
    <3>2. ASSUME NEW x \in {"indexer"} \X {"caller_error", "upstream_error"},
                 metrics'.upstream = Incremented(metrics.upstream, x)
          PROVE  DOMAIN metrics'.upstream \subseteq
                    {"indexer"} \X {"caller_error", "upstream_error"}
      BY <1>1, <3>2 DEF Closed
    <3>3. QED
      BY <2>2, <2>a, <3>1, <3>2
  <2>4. QED
    BY <2>1, <2>3 DEF Closed
<1>3. ASSUME NEW q \in Everyone, NEW code \in Codes, NEW id \in BOOLEAN, NEW d \in Durations,
             Counting(q, code, id, d)
      PROVE  Closed'
  <2>1. /\ metrics'.requests = Incremented(metrics.requests, <<RouteFor(AskOf(q)), code>>)
        /\ metrics'.upstream = metrics.upstream
    BY <1>3 DEF Accounts, Counters, Counting, ObserveRequest
  <2>2. RouteFor(AskOf(q)) \in Labels
    <3>1. CASE q = Query
      BY <3>1 DEF RouteFor, AskOf, Labels, Routes
    <3>2. CASE q # Query
      <4>1. ask[q] \in Asks /\ AskOf(q) = ask[q]
        BY <1>3, <3>2 DEF Counting, StageOf, AskOf, Everyone, Requests
      <4>2. QED
        BY <4>1, ServiceAssumption DEF RouteFor, Labels
    <3>3. QED
      BY <3>1, <3>2
  <2>3. DOMAIN metrics'.requests \subseteq Labels \X Codes
    BY <1>1, <2>1, <2>2 DEF Closed
  <2>4. QED
    BY <2>1, <2>3 DEF Closed
<1>4. QED
  BY <1>2, <1>3, StepsCount
------------------------------------------------------------------------------
(* A 502 blames the upstream, or is the latest block's own, from the moment  *)
(* it is decided on until long after it was sent.                           *)
Justified(q) ==
    /\ StatusOf(q) = 502 => blamed[q] # None \/ RouteFor(AskOf(q)) = "/blocks"
    /\ q \in Sent /\ response[q].status = 502 => StatusOf(q) = 502

Explained == \A q \in Everyone : Justified(q)

\* Only the request that takes a step is to be looked at, and it is not yet sent.
LEMMA OneJustified ==
    ASSUME Explained, NEW q \in Everyone, response[q] = None, UNCHANGED response,
           \A p \in Everyone \ {q} :
               /\ StatusOf(p)' = StatusOf(p) /\ blamed'[p] = blamed[p]
               /\ RouteFor(AskOf(p))' = RouteFor(AskOf(p)),
           StatusOf(q)' = 502 => blamed'[q] # None \/ RouteFor(AskOf(q))' = "/blocks"
    PROVE  Explained'
<1>1. Justified(q)'
  BY DEF Justified, Sent
<1>2. ASSUME NEW p \in Everyone \ {q} PROVE Justified(p)'
  <2>1. Justified(p)
    BY DEF Explained
  <2>2. p \in Sent' <=> p \in Sent
    BY DEF Sent
  <2>3. QED
    BY <2>1, <2>2 DEF Justified
<1>3. QED
  BY <1>1, <1>2 DEF Explained

\* The same for a request besides the search.
LEMMA OtherJustified ==
    ASSUME Accounts, Requests, Explained, NEW q \in Others, NEW code, NEW from, NEW to,
           Move(q, from, to), status' = [status EXCEPT ![q] = code],
           \A p \in Others \ {q} : ask'[p] = ask[p],
           \A p \in Everyone \ {q} : blamed'[p] = blamed[p],
           code = 502 => blamed'[q] # None \/ RouteFor(AskOf(q))' = "/blocks"
    PROVE  Explained'
<1>1. q \in Everyone /\ q # Query /\ response[q] = None /\ UNCHANGED <<response, vars>>
  BY ServiceAssumption DEF Everyone, Move
<1>2. status'[q] = code /\ \A p \in Others \ {q} : status'[p] = status[p]
  BY DEF Requests
<1>3. \A p \in Everyone \ {q} : StatusOf(p)' = StatusOf(p)
  BY <1>1, <1>2 DEF StatusOf, Everyone, vars
<1>4. \A p \in Everyone \ {q} : RouteFor(AskOf(p))' = RouteFor(AskOf(p))
  BY LabelsStay
<1>5. StatusOf(q)' = code
  BY <1>1, <1>2 DEF StatusOf
<1>6. QED
  BY <1>1, <1>3, <1>4, <1>5, OneJustified

\* What is sent is what was decided on, a re-raised exception apart.
LEMMA SendingJustified ==
    ASSUME Accounts, Explained, NEW q \in Everyone, NEW code, NEW id \in BOOLEAN, NEW d,
           Send(q, code, id, d),
           code = StatusOf(q) \/ code = 500
    PROVE  Explained'
<1>1. /\ response' = [response EXCEPT ![q] = [status |-> code, id |-> id, duration |-> d]]
      /\ UNCHANGED <<ask, status, blamed, reply, term>>
  BY DEF Send, requestVars, vars
<1>2. ASSUME NEW p \in Everyone PROVE Justified(p)'
  <2>1. StatusOf(p)' = StatusOf(p) /\ RouteFor(AskOf(p))' = RouteFor(AskOf(p))
    BY <1>1, LabelsStay DEF StatusOf
  <2>2. Justified(p)
    BY DEF Explained
  <2>3. CASE p = q
    <3>1. response'[p].status = code
      BY <1>1, <2>3 DEF Accounts, Functions
    <3>2. QED
      BY <1>1, <2>1, <2>2, <2>3, <3>1 DEF Justified
  <2>4. CASE p # q
    <3>1. response'[p] = response[p] /\ (p \in Sent' <=> p \in Sent)
      BY <1>1, <2>4 DEF Accounts, Functions, Sent
    <3>2. QED
      BY <1>1, <2>1, <2>2, <3>1 DEF Justified
  <2>5. QED
    BY <2>3, <2>4
<1>3. QED
  BY <1>2 DEF Explained

LEMMA SearchJustified == ASSUME Accounts, Explained, SearchRuns PROVE Explained'
<1>1. response[Query] = None /\ UNCHANGED <<ask, stage, status, called, response>>
  BY DEF SearchRuns
<1>2. Query \in Everyone
  BY DEF Everyone
<1>3. \A p \in Everyone \ {Query} :
         StatusOf(p)' = StatusOf(p) /\ RouteFor(AskOf(p))' = RouteFor(AskOf(p))
  BY <1>1, LabelsStay DEF StatusOf
<1>4. StatusOf(Query) = reply /\ StatusOf(Query)' = reply'
  BY DEF StatusOf
<1>5. RouteFor(AskOf(Query))' = RouteFor(AskOf(Query))
  BY <1>2, ServiceAssumption, LabelsStay
<1>6. ASSUME UNCHANGED blamed, reply' = reply \/ reply' # 502 PROVE Explained'
  <2>1. Justified(Query)
    BY <1>2 DEF Explained
  <2>2. StatusOf(Query)' = 502 => blamed'[Query] # None \/ RouteFor(AskOf(Query))' = "/blocks"
    BY <1>4, <1>5, <1>6, <2>1 DEF Justified
  <2>3. QED
    BY <1>1, <1>2, <1>3, <1>6, <2>2, OneJustified
<1>7. ASSUME NEW n, NEW hit, Continue(n, hit) PROVE reply' = reply \/ reply' # 502
  BY <1>7 DEF Continue, Respond, Probe
<1>8. CASE Arrive /\ UNCHANGED blamed
  BY <1>6, <1>8 DEF Arrive, Respond, Probe
<1>9. CASE ProbeRaises /\ UNCHANGED blamed
  BY <1>6, <1>9 DEF ProbeRaises, Respond
<1>10. ASSUME NEW n \in Namespaces, Hit(n) \/ Miss(n), UNCHANGED blamed PROVE Explained'
  BY <1>6, <1>7, <1>10 DEF Hit, Miss
<1>11. ASSUME NEW n \in Namespaces, NEW failure \in Failures, SearchEnds(n, failure)
       PROVE  Explained'
  <2>1. CASE LetsThrough(n)
    <3>1. blamed' = [blamed EXCEPT ![Query] = failure]
      BY <1>11, <2>1 DEF SearchEnds, Attribute
    <3>2. failure # None
      BY TermAssumption DEF Failures, NoStatus
    <3>3. /\ \A p \in Everyone \ {Query} : blamed'[p] = blamed[p]
          /\ blamed'[Query] # None
      BY <1>2, <3>1, <3>2 DEF Accounts, Functions
    <3>4. QED
      BY <1>1, <1>2, <1>3, <3>3, OneJustified
  <2>2. CASE ~LetsThrough(n)
    BY <1>6, <1>7, <1>11, <2>2 DEF SearchEnds, ProbeFails
  <2>3. QED
    BY <2>1, <2>2
<1>12. QED
  BY <1>8, <1>9, <1>10, <1>11 DEF SearchRuns

LEMMA ExplainedStep ==
    ASSUME Accounts, AskedInOrder, Requests, Explained, [ServiceNext]_<<vars, serviceVars>>
    PROVE  Explained'
<1>1. ASSUME NEW q \in Others, NEW code, NEW from, NEW to, Move(q, from, to), Answer(q, code),
             UNCHANGED <<ask, blamed>>, code # 502
      PROVE  Explained'
  BY <1>1, OtherJustified DEF Answer
<1>2. CASE SearchRuns
  BY <1>2, SearchJustified
<1>3. ASSUME UNCHANGED <<ask, status, blamed, reply, Sent>>,
             \A q \in Sent : response'[q] = response[q]
      PROVE  Explained'
  <2>1. \A q \in Everyone : StatusOf(q)' = StatusOf(q) /\ RouteFor(AskOf(q))' = RouteFor(AskOf(q))
    BY <1>3, LabelsStay DEF StatusOf
  <2>2. QED
    BY <1>3, <2>1 DEF Explained, Justified
<1>4. CASE ChainMoves \/ UNCHANGED <<vars, serviceVars>>
  <2>1. UNCHANGED <<ask, status, blamed, reply, response>>
    BY <1>4 DEF ChainMoves, ChainChanges, serviceVars, vars
  <2>2. Sent' = Sent
    BY <2>1 DEF Sent
  <2>3. QED
    BY <1>3, <2>1, <2>2
<1>5. ASSUME NEW q \in Others, NEW a \in Asks, Begin(q, a)
      PROVE  Explained'
  <2>1. /\ Move(q, "new", "handling") /\ ask' = [ask EXCEPT ![q] = a]
        /\ UNCHANGED <<status, blamed>>
    BY <1>5 DEF Begin
  <2>2. status[q] # 502
    BY <1>5, TermAssumption DEF Begin, Move, AskedInOrder, AskedWhenDue
  <2>3. status' = [status EXCEPT ![q] = status[q]] /\ \A p \in Others \ {q} : ask'[p] = ask[p]
    BY <2>1 DEF Requests
  <2>4. \A p \in Everyone \ {q} : blamed'[p] = blamed[p]
    BY <2>1
  <2>5. status[q] = 502 => blamed'[q] # None \/ RouteFor(AskOf(q))' = "/blocks"
    BY <2>2
  <2>6. QED
    BY <2>1, <2>3, <2>4, <2>5, OtherJustified
<1>6. ASSUME NEW q \in Others, AskUpstream(q)
      PROVE  Explained'
  <2>1. Move(q, "handling", "awaiting") /\ UNCHANGED <<ask, status, blamed>>
    BY <1>6 DEF AskUpstream
  <2>2. status[q] # 502
    BY <1>6, TermAssumption DEF AskUpstream, Move, AskedInOrder, AskedWhenDue
  <2>3. status' = [status EXCEPT ![q] = status[q]]
    BY <2>1 DEF Requests
  <2>4. QED
    BY <2>1, <2>2, <2>3, OtherJustified
<1>7. ASSUME NEW q \in Others, AnswerLocally(q)
      PROVE  Explained'
  BY <1>1, <1>7, CodesAre DEF AnswerLocally
<1>9. ASSUME NEW q \in Others, HandlerRaises(q) \/ CachedRaises(q)
      PROVE  Explained'
  BY <1>1, <1>9 DEF HandlerRaises, CachedRaises
<1>10. ASSUME NEW q \in Others, UpstreamAnswers(q) \/ AnswerFromCache(q)
       PROVE  Explained'
  <2>1. PICK code \in Replies(ask[q].route) : Answer(q, code)
    BY <1>10 DEF UpstreamAnswers, AnswerFromCache
  <2>2. PICK from \in {"handling", "awaiting"} : Move(q, from, "answered")
    BY <1>10 DEF UpstreamAnswers, AnswerFromCache
  <2>a. UNCHANGED <<ask, blamed>>
    BY <1>10 DEF UpstreamAnswers, AnswerFromCache
  <2>3. ASSUME code = 502 PROVE RouteFor(AskOf(q))' = "/blocks"
    <3>1. ask[q].route = "/blocks"
      BY <2>1, <2>3, RepliesInCodes
    <3>2. "/blocks" # None
      BY ServiceAssumption DEF Routes
    <3>3. QED
      BY <2>a, <3>1, <3>2, ServiceAssumption DEF RouteFor, AskOf
  <2>4. QED
    BY <2>1, <2>2, <2>a, <2>3, OtherJustified DEF Answer
<1>11. ASSUME NEW q \in Others, NEW failure \in Failures, UpstreamFails(q, failure)
       PROVE  Explained'
  <2>1. /\ Move(q, "awaiting", "answered") /\ Answer(q, Attributed(failure))
        /\ UNCHANGED ask /\ blamed' = [blamed EXCEPT ![q] = failure]
    BY <1>11 DEF UpstreamFails, Attribute
  <2>2. failure # None /\ q \in Everyone
    BY TermAssumption DEF Failures, NoStatus, Everyone
  <2>3. blamed'[q] # None /\ \A p \in Everyone \ {q} : blamed'[p] = blamed[p]
    BY <2>1, <2>2 DEF Accounts, Functions
  <2>4. QED
    BY <2>1, <2>3, OtherJustified DEF Answer
<1>12. ASSUME NEW q \in Others \cup {Query}, NEW d \in Durations, Deliver(q, d) \/ Reraise(q, d)
       PROVE  Explained'
  <2>1. q \in Everyone
    BY DEF Everyone
  <2>2. CASE Send(q, StatusOf(q), TRUE, d)
    <3>1. StatusOf(q) = StatusOf(q) \/ StatusOf(q) = 500  OBVIOUS
    <3>2. TRUE \in BOOLEAN  OBVIOUS
    <3>3. QED
      BY <2>1, <2>2, <3>1, <3>2, SendingJustified
  <2>3. CASE Send(q, 500, FALSE, d)
    <3>1. 500 = StatusOf(q) \/ 500 = 500  OBVIOUS
    <3>2. FALSE \in BOOLEAN  OBVIOUS
    <3>3. QED
      BY <2>1, <2>3, <3>1, <3>2, SendingJustified
  <2>4. QED
    BY <1>12, <2>2, <2>3 DEF Deliver, Reraise
<1>13. ASSUME NEW q \in Others \cup {Query}, Cancel(q)
       PROVE  Explained'
  <2>1. /\ response[q] = None /\ response' = [response EXCEPT ![q] = Gone]
        /\ UNCHANGED <<ask, status, blamed, reply>>
    BY <1>13 DEF Cancel, requestVars, vars
  <2>2. Sent' = Sent /\ \A p \in Sent : response'[p] = response[p]
    BY <2>1 DEF Accounts, Functions, Sent, Gone
  <2>3. QED
    BY <1>3, <2>1, <2>2
<1>14. QED
  BY <1>2, <1>4, <1>5, <1>6, <1>7, <1>9, <1>10, <1>11, <1>12, <1>13 DEF ServiceNext
------------------------------------------------------------------------------
\* The inductive invariant of all that METRICS shows.
Observed == AskedInOrder /\ Accounts /\ Replied /\ Requests /\ Closed /\ Timed /\ Explained

LEMMA ObservedInit == ServiceInit => Observed
<1>1. SUFFICES ASSUME ServiceInit PROVE Observed
  OBVIOUS
<1>2. Accounts /\ Sent = {}
  BY <1>1, AccountsInit DEF ServiceInit, Sent
<1>3. AskedInOrder
  BY <1>1 DEF ServiceInit, AskedInOrder, RequestFunctions, AskedWhenDue
<1>4. Replied /\ Requests
  BY <1>1 DEF ServiceInit, Init, Replied, Requests, Responses, Stages, Everyone
<1>5. metrics = [requests |-> EmptyBag, upstream |-> EmptyBag,
                 latency |-> EmptyBag, count |-> EmptyBag]
  BY <1>1 DEF ServiceInit, NoMetrics
<1>6. Counter(EmptyBag) /\ DOMAIN EmptyBag = {} /\ \A key : Copies(key, EmptyBag) = 0
  BY DEF Counter, Copies, EmptyBag, SetToBag, BagIn, BagToSet
<1>7. Closed
  BY <1>5, <1>6 DEF Closed
<1>8. Timed
  BY <1>2, <1>5, <1>6, FS_EmptySet DEF Timed, Took, Within
<1>9. \A q \in Everyone : StatusOf(q) # 502
  BY <1>1, TermAssumption DEF ServiceInit, Init, StatusOf, Everyone
<1>10. Explained
  BY <1>2, <1>9 DEF Explained, Justified
<1>11. QED
  BY <1>2, <1>3, <1>4, <1>7, <1>8, <1>10 DEF Observed

LEMMA ObservedStep == Observed /\ [ServiceNext]_<<vars, serviceVars>> => Observed'
<1>1. SUFFICES ASSUME Observed, [ServiceNext]_<<vars, serviceVars>> PROVE Observed'
  OBVIOUS
<1>2. AskedInOrder /\ Accounts /\ Replied /\ Requests /\ Closed /\ Timed /\ Explained
  BY <1>1 DEF Observed
<1>3. AskedInOrder' /\ Accounts'
  BY <1>1, <1>2, AskedInOrderStep, AccountsStep
<1>4. Replied'
  BY <1>1, <1>2, ServiceStep, RepliedStep
<1>5. Requests' /\ Closed' /\ Explained'
  BY <1>1, <1>2, RequestsStep, ClosedStep, ExplainedStep
<1>6. Timed'
  <2>1. CASE Uncounted
    BY <1>2, <2>1, UncountedKeeps
  <2>2. ASSUME NEW q \in Everyone, NEW code \in Codes, NEW id \in BOOLEAN, NEW d \in Durations,
               Counting(q, code, id, d)
        PROVE  Timed'
    BY <1>2, <2>2, CountingKeeps
  <2>3. QED
    BY <1>1, <1>2, <2>1, <2>2, StepsCount
<1>7. QED
  BY <1>3, <1>4, <1>5, <1>6 DEF Observed

\* What METRICS shows of the requests at every moment: what each is counted under,
\* how long it took, and whose fault its 502 is (observability and
\* algorand_error_handler, service.py:107-172).
THEOREM MetricsObserved == ServiceSpec => []Observed
<1>1. QED
  BY ObservedInit, ObservedStep, PTL DEF ServiceSpec

\* Every reachable state of the service is well typed, for any number of requests,
\* and the labels of its metrics stay a closed set (_route_for, service.py:107-121).
THEOREM ServiceTypeCorrect == ServiceSpec => []ServiceTypeOK
<1>1. ASSUME IInv, Observed PROVE ServiceTypeOK
  <2>1. TypeOK
    BY <1>1 DEF IInv, Typed, Observed, Replied, TypeOK
  <2>2. QED
    BY <1>1, <2>1 DEF Observed, Requests, Responses, Stages, Everyone, Closed, ServiceTypeOK
<1>2. QED
  BY <1>1, SearchInside, SearchInductive, MetricsObserved, PTL

LEMMA FinitelyManyLabels == IsFiniteSet(Labels \ {"/blocks"}) /\ IsFiniteSet(Codes)
<1>1. IsFiniteSet(Codes)
  <2>1. Codes \in SUBSET Nat /\ 599 \in Nat /\ \A code \in Codes : code <= 599
    BY DEF Codes
  <2>2. QED
    BY <2>1, FS_BoundedSetOfNaturals
<1>2. IsFiniteSet(Labels)
  <2> DEFINE Three == {"/livez"} \cup {"/metrics"} \cup {"/capabilities"}
             Six == Three \cup {"/addresses/{address}"} \cup {"/transactions/{txid}"}
                      \cup {"/tokens/{asset_id}"} \cup {"/smart-contracts/{app_id}"}
             All == Six \cup {"/blocks"} \cup {"/search"} \cup {"/algorand/v2/{path}"}
                      \cup {"<unmatched>"}
  <2>1. IsFiniteSet({"/livez"})
    BY FS_Singleton
  <2>2. IsFiniteSet(Three)
    BY <2>1, FS_AddElement
  <2>3. IsFiniteSet(Six)
    <3> HIDE DEF Three
    <3>1. QED
      BY <2>2, FS_AddElement
  <2>4. IsFiniteSet(All)
    <3> HIDE DEF Six
    <3>1. QED
      BY <2>3, FS_AddElement
  <2>5. Labels = All
    BY DEF Labels, Routes
  <2>6. QED
    BY <2>4, <2>5
<1>3. QED
  BY <1>1, <1>2, FS_Subset

\* Every 502 a scrape reports is explained by an upstream error it reports too,
\* the latest block's own apart, for any number of requests and at any moment
\* between the exception handler and the middleware (service.py:134-172).
THEOREM FailuresAlwaysExplained == ServiceSpec => []FailuresExplained
<1>1. ASSUME Observed PROVE FailuresExplained
  <2> DEFINE Bad == {q \in Sent : response[q].status = 502}
             label == [q \in Bad |-> RouteFor(AskOf(q))]
             D == Labels \ {"/blocks"}
             Late == {q \in Bad : label[q] \in D}
  <2>1. /\ IsFiniteSet(Sent) /\ IsFiniteSet(Bad) /\ IsFiniteSet(D)
        /\ IsFiniteSet(Charged("upstream_error"))
    BY <1>1, FinitelyMany, FinitelyManyLabels, FS_Subset DEF Observed, Accounts
  <2>2. ASSUME NEW x
        PROVE  Copies(<<x, 502>>, metrics.requests) = Cardinality({q \in Bad : label[q] = x})
    <3>1. Behind(x, 502) = {q \in Bad : label[q] = x}
      BY DEF Behind
    <3>2. Copies(<<x, 502>>, metrics.requests) = Cardinality(Behind(x, 502))
      BY <1>1 DEF Observed, Accounts, RequestsCounted
    <3> HIDE DEF Bad, label
    <3>3. QED
      BY <3>1, <3>2, SMT
  <2>3. LabelSum(D, 502, metrics.requests) = Cardinality(Late)
    <3> HIDE DEF Bad, label, D
    <3>1. QED
      BY <2>1, <2>2, SumOverLabels
  <2>4. Late \subseteq Charged("upstream_error")
    <3>1. ASSUME NEW q \in Late PROVE q \in Charged("upstream_error")
      <4>1. q \in Everyone /\ Justified(q) /\ RouteFor(AskOf(q)) # "/blocks" /\ q \in Sent
            /\ response[q].status = 502
        BY <1>1 DEF Observed, Explained, Accounts, Functions, Sent
      <4>2. blamed[q] # None /\ StatusOf(q) = 502
        BY <4>1 DEF Justified
      <4>3. Attributed(blamed[q]) = 502
        BY <1>1, <4>1, <4>2 DEF Observed, Accounts, BlamedFor
      <4>4. Outcome(Attributed(blamed[q])) = "upstream_error"
        BY <4>3 DEF Outcome
      <4>5. QED
        BY <4>1, <4>2, <4>4 DEF Charged
    <3>2. QED
      BY <3>1
  <2>5. Cardinality(Late) <= Cardinality(Charged("upstream_error"))
    <3> HIDE DEF Late
    <3>1. QED
      BY <2>1, <2>4, FS_Subset
  <2>6. Copies(<<"indexer", "upstream_error">>, metrics.upstream) =
           Cardinality(Charged("upstream_error"))
    BY <1>1 DEF Observed, Accounts, FailuresCounted
  <2>7. /\ Rendered(metrics).requests = metrics.requests
        /\ Rendered(metrics).upstream = metrics.upstream
    BY DEF Rendered
  <2>8. LabelSum(D, 502, Rendered(metrics).requests) <=
           Copies(<<"indexer", "upstream_error">>, Rendered(metrics).upstream)
    BY <2>3, <2>5, <2>6, <2>7
  <2>9. QED
    BY <2>8 DEF LabelSum, FailuresExplained
<1>2. QED
  BY <1>1, MetricsObserved, PTL

\* The counters of one label, summed over statuses or over buckets.
LEMMA LabelAddsUp ==
    ASSUME Observed, NEW route
    PROVE  /\ \A line \in 1 .. Len(LatencyBuckets) + 1 :
                 KeySum(1 .. line, route, metrics.latency) =
                    Cardinality({q \in Took(route) : Bucket(response[q].duration) \in 1 .. line})
           /\ KeySum(Codes, route, metrics.requests) = Cardinality(Took(route))
           /\ \A q \in Took(route) : response[q].duration \in Nat
<1> DEFINE S == Took(route)
           bucket == [q \in S |-> Bucket(response[q].duration)]
           code == [q \in S |-> response[q].status]
<1>1. S \subseteq Sent /\ IsFiniteSet(S)
  <2>1. S \subseteq Sent
    BY DEF Took
  <2>2. QED
    BY <2>1, FinitelyMany, FS_Subset DEF Observed, Accounts
<1>2. ASSUME NEW q \in S PROVE response[q].duration \in Nat /\ response[q].status \in Codes
  <2>1. q \in Everyone /\ response[q] \in [status : Codes, id : BOOLEAN, duration : Durations]
    BY <1>1 DEF Observed, Requests, Responses, Sent
  <2>2. QED
    BY <2>1, ServiceAssumption
<1>3. ASSUME NEW line \in 1 .. Len(LatencyBuckets) + 1
      PROVE  KeySum(1 .. line, route, metrics.latency) =
                Cardinality({q \in S : Bucket(response[q].duration) \in 1 .. line})
  <2>1. IsFiniteSet(1 .. line)
    BY FS_Interval
  <2>2. ASSUME NEW b
        PROVE  Copies(<<route, b>>, metrics.latency) = Cardinality({q \in S : bucket[q] = b})
    <3>1. Within(route, b) = {q \in S : bucket[q] = b}
      BY DEF Within
    <3>2. QED
      BY <3>1 DEF Observed, Timed
  <2>3. {q \in S : bucket[q] \in 1 .. line} =
           {q \in S : Bucket(response[q].duration) \in 1 .. line}
    OBVIOUS
  <2>4. KeySum(1 .. line, route, metrics.latency) = Cardinality({q \in S : bucket[q] \in 1 .. line})
    <3> HIDE DEF S, bucket
    <3>1. QED
      BY <1>1, <2>1, <2>2, SumOverKeys
  <2>5. QED
    BY <2>3, <2>4
<1>4. KeySum(Codes, route, metrics.requests) = Cardinality(S)
  <2>1. ASSUME NEW c
        PROVE  Copies(<<route, c>>, metrics.requests) = Cardinality({q \in S : code[q] = c})
    <3>1. Behind(route, c) = {q \in S : code[q] = c}
      BY DEF Behind, Took
    <3>2. QED
      BY <3>1 DEF Observed, Accounts, RequestsCounted
  <2>2. {q \in S : code[q] \in Codes} = S
    BY <1>2
  <2>3. KeySum(Codes, route, metrics.requests) = Cardinality({q \in S : code[q] \in Codes})
    <3> HIDE DEF S, code
    <3>1. QED
      BY <1>1, <2>1, FinitelyManyLabels, SumOverKeys
  <2>4. QED
    BY <2>2, <2>3
<1>5. QED
  BY <1>2, <1>3, <1>4

\* The exposed histogram is one: its lines are cumulative, the last is the count,
\* and the count is the sum over the statuses, for any bucket edges, durations
\* and number of requests (observe_request and render, metrics.py:36-102).
THEOREM HistogramAlwaysAddsUp == ServiceSpec => []HistogramAddsUp
<1>1. ASSUME Observed PROVE HistogramAddsUp
  <2> DEFINE Edges == Len(LatencyBuckets)
             shown == Rendered(metrics)
  <2>1. Edges \in Nat /\ DOMAIN LatencyBuckets = 1 .. Edges
    BY BucketAssumption
  <2>2. /\ shown.requests = metrics.requests /\ shown.count = metrics.count
        /\ DOMAIN shown.buckets = BagToSet(metrics.count)
    BY DEF Rendered
  <2>3. ASSUME NEW route \in BagToSet(metrics.count), NEW line \in 1 .. Edges + 1
        PROVE  shown.buckets[route][line] = KeySum(1 .. line, route, metrics.latency)
    BY DEF Rendered, KeySum
  <2>4. ASSUME NEW route \in DOMAIN shown.buckets
        PROVE  LET took == {q \in Sent : RouteFor(AskOf(q)) = route} IN
               /\ \A i \in DOMAIN LatencyBuckets : shown.buckets[route][i] =
                     Cardinality({q \in took : response[q].duration <= LatencyBuckets[i]})
               /\ shown.buckets[route][Edges + 1] = Copies(route, shown.count)
               /\ Copies(route, shown.count) = KeySum(Codes, route, shown.requests)
    <3>1. {q \in Sent : RouteFor(AskOf(q)) = route} = Took(route)
      BY DEF Took
    <3>2. /\ \A line \in 1 .. Edges + 1 : shown.buckets[route][line] =
               Cardinality({q \in Took(route) : Bucket(response[q].duration) \in 1 .. line})
          /\ KeySum(Codes, route, metrics.requests) = Cardinality(Took(route))
          /\ \A q \in Took(route) : response[q].duration \in Nat
      BY <1>1, <2>2, <2>3, LabelAddsUp
    <3>3. Copies(route, shown.count) = Cardinality(Took(route))
      BY <1>1, <2>2 DEF Observed, Timed
    <3>4. ASSUME NEW i \in 1 .. Edges
          PROVE  {q \in Took(route) : Bucket(response[q].duration) \in 1 .. i} =
                    {q \in Took(route) : response[q].duration <= LatencyBuckets[i]}
      BY <2>1, <3>2, BucketIs
    <3>5. {q \in Took(route) : Bucket(response[q].duration) \in 1 .. Edges + 1} = Took(route)
      BY <3>2, BucketIs
    <3>6. Edges + 1 \in 1 .. Edges + 1 /\ \A i \in 1 .. Edges : i \in 1 .. Edges + 1
      BY <2>1
    <3> HIDE DEF shown
    <3>7. /\ \A i \in DOMAIN LatencyBuckets : shown.buckets[route][i] =
               Cardinality({q \in Took(route) : response[q].duration <= LatencyBuckets[i]})
          /\ shown.buckets[route][Edges + 1] = Copies(route, shown.count)
      BY <2>1, <3>2, <3>3, <3>4, <3>5, <3>6
    <3>8. Copies(route, shown.count) = KeySum(Codes, route, shown.requests)
      BY <2>2, <3>2, <3>3
    <3>9. QED
      BY <3>1, <3>7, <3>8
  <2>5. QED
    BY <2>4 DEF HistogramAddsUp, KeySum
<1>2. QED
  BY <1>1, MetricsObserved, PTL
==============================================================================
