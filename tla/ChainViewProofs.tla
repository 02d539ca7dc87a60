---------------------------- MODULE ChainViewProofs ----------------------------
(***************************************************************************)
(* What the routes that report rounds tell is true of some instant while   *)
(* they were answered, for any number of requests, rounds and settings.    *)
(*                                                                         *)
(* The inductive invariant ties what a request has heard so far to the     *)
(* samples of the chain its history keeps; rounds only grow, so a sample   *)
(* once taken stays behind the chain.                                      *)
(***************************************************************************)
EXTENDS ChainView, TLAPS



Samples == [node : Rounds, archived : Rounds]
Moments == {"arrival", "node", "indexer"}
MaybeRound == Rounds \cup {None}

Replies ==
    [status : {200, 400, 404, 429, 500, 502, 503}, tip : MaybeRound, indexerRound : MaybeRound,
     lag : Int \cup {None}, healthy : BOOLEAN \cup {None}, height : MaybeRound]

Types ==
    /\ settings \in Settings
    /\ node \in Rounds /\ archived \in Rounds /\ archived \in 0 .. Newest
    /\ route \in [Requests -> Routes \cup {None}]
    /\ pc \in [Requests -> Calls \cup {"new", "done"}]
    /\ heard \in [Requests -> [Calls -> Returned]]
    /\ reply \in [Requests -> Replies \cup {None}]
    /\ truth \in [Requests -> [Moments -> Samples \cup {None}]]

\* A sample taken, and the chain has only grown since.
Taken(t, moment) ==
    /\ truth[t][moment] \in Samples
    /\ truth[t][moment].node <= node
    /\ truth[t][moment].archived <= archived

Tip(t) == heard[t]["status"].round

Under(t) ==                            \* a request under way
    /\ reply[t] = None
    /\ pc[t] # "new" => Taken(t, "arrival")
    /\ Tip(t) # None => pc[t] # "new" /\ truth[t]["arrival"].node <= Tip(t) /\ Tip(t) <= node
    /\ pc[t] = "status" => route[t] \in {"stats", "latest"}
    /\ pc[t] \in {"node", "indexer"} => route[t] # "latest"
    /\ pc[t] = "indexer" =>
          /\ Taken(t, "node")
          /\ Tip(t) # None => Tip(t) <= truth[t]["node"].node
          /\ heard[t]["node"].round # None => heard[t]["node"].round = truth[t]["node"].node
    /\ pc[t] = "block" => Tip(t) # None /\ route[t] = "latest"

HonestLag(t) ==
    reply[t].lag # None =>
        /\ truth[t]["node"] \in Samples /\ truth[t]["indexer"] \in Samples
        /\ reply[t].lag <= truth[t]["node"].node - truth[t]["node"].archived
        /\ reply[t].lag + (truth[t]["indexer"].node - truth[t]["node"].node)
              = truth[t]["indexer"].node - truth[t]["indexer"].archived
        /\ reply[t].lag + (truth[t]["indexer"].node - truth[t]["node"].node) < 0
              => Mixed(settings)

AgreeingStats(t) ==
    route[t] = "stats" /\ reply[t].lag # None /\ reply[t].tip # None
        => reply[t].indexerRound \in Rounds /\ reply[t].tip <= reply[t].indexerRound + reply[t].lag

RecentBlock(t) ==
    route[t] = "latest" =>
        /\ reply[t].status = 200 =>
              /\ reply[t].height \in Rounds
              /\ truth[t]["arrival"].node <= reply[t].height /\ reply[t].height <= node
        /\ reply[t].status = 404 /\ heard[t]["status"].failure = None =>
              truth[t]["arrival"].archived < heard[t]["status"].round

Answered(t) ==
    /\ reply[t] \in Replies
    /\ HonestLag(t) /\ AgreeingStats(t) /\ RecentBlock(t)
    /\ Taken(t, "arrival")

RequestInv(t) ==
    /\ pc[t] # "done" => Under(t)
    /\ pc[t] = "done" => Answered(t)

IInv == Types /\ \A t \in Requests : RequestInv(t)

------------------------------------------------------------------------------
LEMMA NoneIsNoRound == None \notin Rounds /\ Rounds \subseteq Int
BY ViewAssumption DEF Rounds

LEMMA Transitive == \A a, b, c \in Int : a <= b /\ b <= c => a <= c
OBVIOUS

LEMMA InitInv == Init => IInv
<1>1. SUFFICES ASSUME Init PROVE IInv
  OBVIOUS
<1>2. settings \in Settings /\ node \in Rounds
  BY ConfigAssumption, ViewAssumption, <1>1 DEF Init
<1>3. archived \in Rounds /\ archived \in 0 .. Newest
  BY ConfigAssumption, ViewAssumption, <1>1 DEF Init, Newest, Rounds
<1>4. NoField \in Returned
  BY DEF NoField, Round, Returned
<1>5. Types
  BY <1>1, <1>2, <1>3, <1>4 DEF Init, Types, Moments
<1>6. ASSUME NEW t \in Requests PROVE RequestInv(t)
  <2>1. pc[t] = "new" /\ reply[t] = None /\ Tip(t) = None
    BY <1>1 DEF Init, Tip, NoField, Round, Calls
  <2>2. QED
    BY <2>1 DEF RequestInv, Under
<1>7. QED
  BY <1>5, <1>6 DEF IInv

\* The step of one request leaves the others, and the chain, as they are.
Touches(t) ==
    /\ UNCHANGED <<settings, node, archived>>
    /\ \A u \in Requests \ {t} :
          /\ route'[u] = route[u] /\ pc'[u] = pc[u] /\ heard'[u] = heard[u]
          /\ reply'[u] = reply[u] /\ truth'[u] = truth[u]

LEMMA StepOk ==
    ASSUME IInv, NEW t \in Requests, Touches(t), Types', RequestInv(t)'
    PROVE  IInv'
<1>1. ASSUME NEW u \in Requests PROVE RequestInv(u)'
  <2>1. CASE u = t
    BY <2>1
  <2>2. CASE u # t
    <3>1. RequestInv(u)
      BY DEF IInv
    <3>2. /\ node' = node /\ archived' = archived /\ settings' = settings
          /\ route'[u] = route[u] /\ pc'[u] = pc[u] /\ heard'[u] = heard[u]
          /\ reply'[u] = reply[u] /\ truth'[u] = truth[u]
      BY <2>2 DEF Touches
    <3>3. QED
      BY <3>1, <3>2
         DEF RequestInv, Under, Answered, Taken, Tip, HonestLag, AgreeingStats, RecentBlock,
             Mixed, Serves, Effective
  <2>3. QED
    BY <2>1, <2>2
<1>2. QED
  BY <1>1 DEF IInv

\* The chain grows and the requests stay where they are.
LEMMA GrowOk ==
    ASSUME IInv, UNCHANGED handlerVars, UNCHANGED settings, node' \in Rounds, archived' \in Rounds,
           archived' \in 0 .. Newest', node <= node', archived <= archived'
    PROVE  IInv'
<1>1. Types'
  BY DEF IInv, Types, handlerVars
<1>2. ASSUME NEW t \in Requests PROVE RequestInv(t)'
  <2>1. RequestInv(t) /\ heard[t]["status"].round \in MaybeRound
    BY DEF IInv, Types, Calls, Returned, MaybeRound
  <2>2. node \in Int /\ archived \in Int /\ node' \in Int /\ archived' \in Int
    BY NoneIsNoRound DEF IInv, Types
  <2>3. \A moment \in Moments : Taken(t, moment) => Taken(t, moment)'
    <3>1. SUFFICES ASSUME NEW moment \in Moments, Taken(t, moment) PROVE Taken(t, moment)'
      OBVIOUS
    <3>2. truth' = truth
      BY DEF handlerVars
    <3>3. truth[t][moment].node \in Int /\ truth[t][moment].archived \in Int
      BY <3>1, NoneIsNoRound DEF Taken, Samples
    <3>4. truth[t][moment].node <= node' /\ truth[t][moment].archived <= archived'
      BY <2>2, <3>1, <3>3, Transitive, Zenon DEF Taken
    <3>5. QED
      BY <3>1, <3>2, <3>4 DEF Taken
  <2>4. Under(t) => Under(t)'
    <3>1. Tip(t)' = Tip(t)
      BY DEF Tip, handlerVars
    <3>2. Tip(t) # None => Tip(t) \in Int
      BY <2>1, NoneIsNoRound DEF Tip, MaybeRound
    <3>3. Tip(t) # None /\ Tip(t) <= node => Tip(t)' <= node'
      BY <2>2, <3>1, <3>2
    <3>4. "arrival" \in Moments /\ "node" \in Moments
      BY DEF Moments
    <3>5. Taken(t, "arrival") => Taken(t, "arrival")'
      BY <2>3, <3>4
    <3>6. Taken(t, "node") => Taken(t, "node")'
      BY <2>3, <3>4
    <3>7. QED
      BY <3>1, <3>3, <3>5, <3>6, Zenon DEF Under, handlerVars
  <2>5. Answered(t) => Answered(t)'
    <3>1. Taken(t, "arrival") => Taken(t, "arrival")'
      BY <2>3 DEF Moments
    <3>2. HonestLag(t) => HonestLag(t)'
      BY DEF HonestLag, handlerVars, Mixed, Serves, Effective
    <3>3. AgreeingStats(t) => AgreeingStats(t)'
      BY DEF AgreeingStats, handlerVars
    <3>4. RecentBlock(t) => RecentBlock(t)'
      <4>1. reply[t].height \in Rounds /\ reply[t].height <= node => reply[t].height <= node'
        <5>1. SUFFICES ASSUME reply[t].height \in Rounds, reply[t].height <= node
                       PROVE  reply[t].height <= node'
          OBVIOUS
        <5>2. reply[t].height \in Int
          BY <5>1, NoneIsNoRound
        <5>3. QED
          BY <2>2, <5>1, <5>2, Transitive, Zenon
      <4>2. QED
        BY <4>1 DEF RecentBlock, handlerVars
    <3>5. QED
      BY <3>1, <3>2, <3>3, <3>4 DEF Answered, handlerVars
  <2>6. QED
    BY <2>1, <2>4, <2>5 DEF RequestInv, handlerVars
<1>3. QED
  BY <1>1, <1>2 DEF IInv
------------------------------------------------------------------------------
(* What a call returns, and what a step does to the tables                  *)

LEMMA AnswersOk ==
    ASSUME NEW round \in Rounds, NEW a \in Answers(round)
    PROVE  /\ a \in Returned
           /\ a.round # None => a.round = round
           /\ a.failure # None => a.failure \in Failures /\ a.round = None /\ ~a.null
<1>1. None \notin Failures
  BY ViewAssumption DEF Failures, NoStatus
<1>2. CASE a = Round(round)
  BY <1>2 DEF Round, Returned
<1>3. CASE a = NoField
  BY <1>3 DEF Round, NoField, Returned
<1>4. CASE a = NullBody
  BY <1>4 DEF Round, NoField, NullBody, Returned
<1>5. ASSUME NEW s \in Failures, a = Failing(s)
      PROVE  a.null = FALSE /\ a.round = None /\ a.failure = s /\ a \in Returned
  BY <1>5 DEF Round, NoField, Failing, Returned
<1>6. QED
  <2>1. a = Round(round) \/ a = NoField \/ a = NullBody \/ \E s \in Failures : a = Failing(s)
    BY DEF Answers
  <2>2. QED
    BY <1>1, <1>2, <1>4, <1>5, <1>3, <2>1

LEMMA ResponseOk ==
    /\ \A status \in {200, 400, 404, 429, 500, 502, 503} :
          /\ Response(status) \in Replies
          /\ Response(status).status = status
          /\ Response(status).lag = None
    /\ \A failure \in Failures :
          /\ Attributed(failure) \in {400, 404, 429, 502}
          /\ Attributed(failure) = 404 => failure = 404
<1>1. \A status \in {200, 400, 404, 429, 500, 502, 503} :
        /\ Response(status) \in Replies
        /\ Response(status).status = status
        /\ Response(status).lag = None
  BY DEF Response, Replies, MaybeRound
<1>2. ASSUME NEW failure \in Failures
      PROVE  /\ Attributed(failure) \in {400, 404, 429, 502}
             /\ Attributed(failure) = 404 => failure = 404
  <2>1. failure \in {0, 400, 404, 429, 500}
    BY DEF Failures, NoStatus
  <2>2. failure = 0 \/ failure = 400 \/ failure = 404 \/ failure = 429 \/ failure = 500
    BY <2>1
  <2>3. QED
    BY <2>2 DEF Attributed
<1>3. QED
  BY <1>1, <1>2

LEMMA HearOk ==
    ASSUME Types, NEW t \in Requests, pc[t] \in Calls, NEW a \in Returned, Hear(t, a)
    PROVE  /\ heard' \in [Requests -> [Calls -> Returned]]
           /\ heard'[t][pc[t]] = a
           /\ \A c \in Calls \ {pc[t]} : heard'[t][c] = heard[t][c]
           /\ \A u \in Requests \ {t} : heard'[u] = heard[u]
BY DEF Types, Hear

LEMMA RespondOk ==
    ASSUME Types, NEW t \in Requests, NEW r \in Replies, Respond(t, r)
    PROVE  /\ pc' \in [Requests -> Calls \cup {"new", "done"}]
           /\ reply' \in [Requests -> Replies \cup {None}]
           /\ pc'[t] = "done" /\ reply'[t] = r
           /\ \A u \in Requests \ {t} : pc'[u] = pc[u] /\ reply'[u] = reply[u]
BY DEF Types, Respond

LEMMA ProceedOk ==
    ASSUME Types, NEW t \in Requests, NEW c \in Calls, Proceed(t, c)
    PROVE  /\ pc' \in [Requests -> Calls \cup {"new", "done"}]
           /\ reply' = reply /\ pc'[t] = c
           /\ \A u \in Requests \ {t} : pc'[u] = pc[u]
BY DEF Types, Proceed

\* A request that has made a call has been sampled when it arrived.
LEMMA CallingOk ==
    ASSUME IInv, NEW t \in Requests, pc[t] \in Calls
    PROVE  Under(t) /\ Taken(t, "arrival") /\ pc[t] # "new" /\ pc[t] # "done"
BY DEF IInv, RequestInv, Under, Calls

\* A response without a lag and without a block keeps what was promised.
LEMMA RefusedOk ==
    ASSUME IInv, NEW t \in Requests, pc[t] \in Calls, NEW r \in Replies, Respond(t, r),
           r.lag = None, r.status # 200, UNCHANGED <<settings, node, archived, route, truth>>,
           heard' \in [Requests -> [Calls -> Returned]],
           \A u \in Requests \ {t} : heard'[u] = heard[u],
           route[t] = "latest" /\ r.status = 404 /\ heard'[t]["status"].failure = None
              => truth[t]["arrival"].archived < heard'[t]["status"].round
    PROVE  IInv'
<1>1. Types
  BY DEF IInv
<1>2. /\ pc' \in [Requests -> Calls \cup {"new", "done"}]
      /\ reply' \in [Requests -> Replies \cup {None}]
      /\ pc'[t] = "done" /\ reply'[t] = r
      /\ \A u \in Requests \ {t} : pc'[u] = pc[u] /\ reply'[u] = reply[u]
  BY <1>1, RespondOk
<1>3. Types'
  BY <1>1, <1>2 DEF Types, Newest, Mixed, Serves, Effective
<1>4. Touches(t)
  BY <1>2 DEF Touches
<1>5. HonestLag(t)' /\ AgreeingStats(t)' /\ RecentBlock(t)'
  BY <1>2 DEF HonestLag, AgreeingStats, RecentBlock
<1>6. Taken(t, "arrival")'
  BY CallingOk DEF Taken
<1>7. RequestInv(t)'
  BY <1>2, <1>5, <1>6 DEF RequestInv, Answered
<1>8. QED
  BY <1>3, <1>4, <1>7, StepOk

------------------------------------------------------------------------------
(* One lemma per action                                                     *)

LEMMA ArriveOk ==
    ASSUME IInv, NEW t \in Requests, NEW r \in Routes, Arrive(t, r) PROVE IInv'
<1> DEFINE call == IF r \in {"health", "readyz"} THEN "node" ELSE "status"
<1>1. Types /\ Under(t) /\ pc[t] = "new"
  BY DEF IInv, RequestInv, Arrive
<1>2. call \in Calls
  BY DEF Calls
<1>3. Proceed(t, call)
  BY DEF Arrive
<1>4. /\ pc' \in [Requests -> Calls \cup {"new", "done"}]
      /\ reply' = reply /\ pc'[t] = call
      /\ \A u \in Requests \ {t} : pc'[u] = pc[u]
  BY <1>1, <1>2, <1>3, ProceedOk
<1> HIDE DEF call
<1>5. Chain \in Samples /\ Chain.node = node /\ Chain.archived = archived
  BY <1>1 DEF Chain, Samples, Types
<1>6. /\ truth' \in [Requests -> [Moments -> Samples \cup {None}]]
      /\ truth'[t]["arrival"] = Chain
      /\ \A u \in Requests \ {t} : truth'[u] = truth[u]
  BY <1>1, <1>5 DEF Arrive, Types, Moments
<1>7. /\ route' \in [Requests -> Routes \cup {None}] /\ route'[t] = r
      /\ \A u \in Requests \ {t} : route'[u] = route[u]
  BY <1>1 DEF Arrive, Types
<1>8. UNCHANGED <<settings, node, archived, heard>>
  BY DEF Arrive
<1>9. Types'
  BY <1>1, <1>4, <1>6, <1>7, <1>8 DEF Types, Newest, Mixed, Serves, Effective
<1>10. Touches(t)
  BY <1>4, <1>6, <1>7, <1>8 DEF Touches
<1>11. Taken(t, "arrival")'
  BY <1>1, <1>5, <1>6, <1>8, NoneIsNoRound DEF Taken, Types
<1>12. Tip(t) = None /\ Tip(t)' = None
  BY <1>1, <1>8 DEF Under, Tip
<1>13. /\ pc'[t] \in {"node", "status"}
       /\ pc'[t] = "node" => route'[t] # "latest"
       /\ pc'[t] = "status" => route'[t] \in {"stats", "latest"}
  BY <1>4, <1>7 DEF call, Routes
<1>14. Under(t)'
  BY <1>1, <1>4, <1>11, <1>12, <1>13 DEF Under
<1>15. RequestInv(t)'
  BY <1>13, <1>14 DEF RequestInv
<1>16. QED
  BY <1>9, <1>10, <1>15, StepOk

LEMMA CallRaisesOk ==
    ASSUME IInv, NEW t \in Requests, CallRaises(t) PROVE IInv'
<1>1. pc[t] \in Calls /\ Respond(t, Response(500))
      /\ UNCHANGED <<settings, node, archived, route, heard, truth>>
  BY DEF CallRaises
<1>2. Response(500) \in Replies /\ Response(500).status = 500 /\ Response(500).lag = None
  BY ResponseOk
<1>3. heard' \in [Requests -> [Calls -> Returned]] /\ heard' = heard
  BY <1>1 DEF IInv, Types
<1>4. QED
  BY <1>1, <1>2, <1>3, RefusedOk

\* A request that goes on to its next call.
LEMMA ProceedingOk ==
    ASSUME IInv, NEW t \in Requests, pc[t] \in Calls, NEW c \in Calls, Proceed(t, c),
           UNCHANGED <<settings, node, archived, route>>,
           heard' \in [Requests -> [Calls -> Returned]],
           truth' \in [Requests -> [Moments -> Samples \cup {None}]],
           \A u \in Requests \ {t} : heard'[u] = heard[u] /\ truth'[u] = truth[u],
           Under(t)'
    PROVE  IInv'
<1>1. Types
  BY DEF IInv
<1>2. /\ pc' \in [Requests -> Calls \cup {"new", "done"}]
      /\ reply' = reply /\ pc'[t] = c
      /\ \A u \in Requests \ {t} : pc'[u] = pc[u]
  BY <1>1, ProceedOk
<1>3. Types'
  BY <1>1, <1>2 DEF Types, Newest, Mixed, Serves, Effective
<1>4. Touches(t)
  BY <1>2 DEF Touches
<1>5. RequestInv(t)'
  BY <1>2 DEF RequestInv, Calls
<1>6. QED
  BY <1>3, <1>4, <1>5, StepOk

LEMMA StatusAnsweredOk ==
    ASSUME IInv, NEW t \in Requests, NEW a \in Answers(node), StatusAnswered(t, a)
    PROVE  IInv'
<1>1. Types /\ pc[t] = "status" /\ pc[t] \in Calls /\ node \in Rounds
  BY DEF IInv, Types, StatusAnswered, Calls
<1>2. /\ a \in Returned
      /\ a.round # None => a.round = node
      /\ a.failure # None => a.failure \in Failures /\ a.round = None /\ ~a.null
  BY <1>1, AnswersOk
<1>3. /\ heard' \in [Requests -> [Calls -> Returned]] /\ heard'[t]["status"] = a
      /\ \A u \in Requests \ {t} : heard'[u] = heard[u]
  BY <1>1, <1>2, HearOk DEF StatusAnswered
<1>4. UNCHANGED <<settings, node, archived, route, truth>>
  BY DEF StatusAnswered
<1>5. Under(t) /\ Taken(t, "arrival") /\ route[t] \in {"stats", "latest"}
  BY <1>1, CallingOk DEF Under
<1>6. CASE a.failure # None
  <2>1. Respond(t, Response(Attributed(a.failure)))
    BY <1>2, <1>6 DEF StatusAnswered, Blame, NoField, Round
  <2>2. Attributed(a.failure) \in {400, 404, 429, 502}
    BY <1>2, <1>6, ResponseOk
  <2>3. /\ Response(Attributed(a.failure)) \in Replies
        /\ Response(Attributed(a.failure)).lag = None
        /\ Response(Attributed(a.failure)).status # 200
    BY <2>2, ResponseOk
  <2>4. QED
    BY <1>1, <1>3, <1>4, <1>6, <2>1, <2>3, RefusedOk
<1>7. ASSUME NEW status \in {500, 502}, Respond(t, Response(status)) PROVE IInv'
  <2>1. /\ Response(status) \in Replies /\ Response(status).lag = None
        /\ Response(status).status # 200 /\ Response(status).status # 404
    BY ResponseOk
  <2>2. QED
    BY <1>1, <1>3, <1>4, <1>7, <2>1, RefusedOk
<1>8. ASSUME NEW call \in {"node", "block"}, Proceed(t, call),
             call = "node" => route[t] = "stats",
             call = "block" => route[t] = "latest" /\ a.round # None
      PROVE  IInv'
  <2>1. pc'[t] = call /\ reply' = reply /\ call \in Calls
    BY <1>1, <1>8, ProceedOk DEF Calls
  <2>2. Tip(t)' = a.round
    BY <1>3 DEF Tip
  <2>3. Taken(t, "arrival")' /\ truth'[t]["arrival"].node <= node
    BY <1>4, <1>5 DEF Taken
  <2>4. Tip(t)' # None => truth'[t]["arrival"].node <= Tip(t)' /\ Tip(t)' <= node'
    BY <1>1, <1>2, <1>4, <2>2, <2>3, NoneIsNoRound
  <2>5. pc'[t] # "new" /\ pc'[t] # "indexer" /\ pc'[t] # "status"
        /\ (pc'[t] = "node" => route'[t] # "latest")
        /\ (pc'[t] = "block" => route'[t] = "latest" /\ Tip(t)' # None)
    BY <1>4, <1>8, <2>1, <2>2
  <2>6. reply'[t] = None
    BY <1>5, <2>1 DEF Under
  <2>7. Under(t)'
    BY <2>3, <2>4, <2>5, <2>6, Zenon DEF Under
  <2>8. truth' \in [Requests -> [Moments -> Samples \cup {None}]]
    BY <1>1, <1>4 DEF Types
  <2>9. QED
    BY <1>1, <1>3, <1>4, <1>8, <2>1, <2>7, <2>8, ProceedingOk
<1>9. CASE a.failure = None /\ route[t] = "stats"
  <2>1. Proceed(t, "node")
    BY <1>9 DEF StatusAnswered
  <2>2. QED
    BY <1>8, <1>9, <2>1
<1>10. CASE a.failure = None /\ route[t] = "latest" /\ a.null
  <2>1. Respond(t, Response(500))
    BY <1>10 DEF StatusAnswered, NoField, Round
  <2>2. QED
    BY <1>7, <2>1
<1>11. CASE a.failure = None /\ route[t] = "latest" /\ ~a.null /\ a = NoField
  <2>1. Respond(t, Response(502))
    BY <1>11 DEF StatusAnswered
  <2>2. QED
    BY <1>7, <2>1
<1>12. CASE a.failure = None /\ route[t] = "latest" /\ ~a.null /\ a # NoField
  <2>1. Proceed(t, "block")
    BY <1>12 DEF StatusAnswered
  <2>2. a.round # None
    BY <1>2, <1>12 DEF Returned, NoField, Round
  <2>3. QED
    BY <1>8, <1>12, <2>1, <2>2
<1>13. QED
  BY <1>5, <1>6, <1>9, <1>10, <1>11, <1>12

LEMMA NodeAnsweredOk ==
    ASSUME IInv, NEW t \in Requests, NEW a \in Answers(node), NodeAnswered(t, a)
    PROVE  IInv'
<1>1. Types /\ pc[t] = "node" /\ pc[t] \in Calls /\ node \in Rounds /\ archived \in Rounds
  BY DEF IInv, Types, NodeAnswered, Calls
<1>2. a \in Returned /\ (a.round # None => a.round = node)
  BY <1>1, AnswersOk
<1>3. /\ heard' \in [Requests -> [Calls -> Returned]] /\ heard'[t]["node"] = a
      /\ heard'[t]["status"] = heard[t]["status"]
      /\ \A u \in Requests \ {t} : heard'[u] = heard[u]
  <2>1. Hear(t, a)
    BY DEF NodeAnswered
  <2>2. QED
    BY <1>1, <1>2, <2>1, HearOk DEF Calls
<1>4. UNCHANGED <<settings, node, archived, route>> /\ Proceed(t, "indexer")
  BY DEF NodeAnswered
<1>5. Under(t) /\ Taken(t, "arrival") /\ route[t] # "latest"
  BY <1>1, CallingOk DEF Under
<1>6. Chain \in Samples /\ Chain.node = node /\ Chain.archived = archived
  BY <1>1 DEF Chain, Samples
<1>7. /\ truth' \in [Requests -> [Moments -> Samples \cup {None}]]
      /\ truth'[t]["node"] = Chain /\ truth'[t]["arrival"] = truth[t]["arrival"]
      /\ \A u \in Requests \ {t} : truth'[u] = truth[u]
  BY <1>1, <1>6 DEF NodeAnswered, Types, Moments
<1>8. pc'[t] = "indexer" /\ reply' = reply /\ "indexer" \in Calls
  BY <1>1, <1>4, ProceedOk DEF Calls
<1>9. Taken(t, "arrival")'
  BY <1>4, <1>5, <1>7 DEF Taken
<1>10. Taken(t, "node")'
  BY <1>1, <1>4, <1>6, <1>7, NoneIsNoRound DEF Taken
<1>11. Tip(t)' = Tip(t)
  BY <1>3 DEF Tip
<1>12. Tip(t) # None =>
         /\ truth'[t]["arrival"].node <= Tip(t)' /\ Tip(t)' <= node'
         /\ Tip(t)' <= truth'[t]["node"].node
  BY <1>4, <1>5, <1>6, <1>7, <1>11 DEF Under
<1>13. heard'[t]["node"].round # None => heard'[t]["node"].round = truth'[t]["node"].node
  BY <1>2, <1>3, <1>6, <1>7
<1>14. Under(t)'
  BY <1>4, <1>5, <1>8, <1>9, <1>10, <1>11, <1>12, <1>13 DEF Under
<1>15. QED
  BY <1>1, <1>3, <1>4, <1>7, <1>8, <1>14, ProceedingOk

\* The lag the probe computes, and the response it is put in.
LEMMA HealthOk ==
    ASSUME NEW n \in Returned, NEW idx \in Returned
    PROVE  /\ HealthOf(n, idx) \in Replies
           /\ HealthOf(n, idx).indexerRound = idx.round
           /\ HealthOf(n, idx).tip = None /\ HealthOf(n, idx).height = None
           /\ HealthOf(n, idx).lag # None =>
                 /\ n.round \in Rounds /\ idx.round \in Rounds
                 /\ HealthOf(n, idx).lag = n.round - idx.round
<1> DEFINE fine == n.failure = None /\ idx.failure = None
           lag == Lag(n.round, idx.round)
<1>1. n.round \in MaybeRound /\ idx.round \in MaybeRound
  BY DEF Returned, MaybeRound
<1>2. ASSUME n.round # None, idx.round # None
      PROVE  /\ n.round \in Rounds /\ idx.round \in Rounds
             /\ lag \in Int /\ lag = n.round - idx.round
  <2>1. n.round \in Rounds /\ idx.round \in Rounds /\ n.round \in Int /\ idx.round \in Int
    BY <1>1, <1>2, NoneIsNoRound DEF MaybeRound
  <2>2. lag = n.round - idx.round
    BY <1>2 DEF Lag
  <2>3. lag \in Int
    BY <2>1, <2>2
  <2>4. QED
    BY <2>1, <2>2, <2>3
<1>3. /\ lag \in Int \cup {None}
      /\ lag # None => n.round \in Rounds /\ idx.round \in Rounds /\ lag = n.round - idx.round
  <2>1. CASE n.round = None \/ idx.round = None
    BY <2>1 DEF Lag
  <2>2. CASE n.round # None /\ idx.round # None
    BY <1>2, <2>2
  <2>3. QED
    BY <2>1, <2>2
<1>4. fine \in BOOLEAN
  OBVIOUS
<1>5. HealthOf(n, idx) =
        [status |-> 200, tip |-> None, indexerRound |-> idx.round,
         lag |-> lag, healthy |-> fine, height |-> None]
  BY Zenon DEF HealthOf
<1> HIDE DEF fine, lag
<1>6. QED
  BY <1>1, <1>3, <1>4, <1>5 DEF Replies, MaybeRound

LEMMA IndexerAnsweredOk ==
    ASSUME IInv, NEW t \in Requests, NEW a \in Answers(archived), IndexerAnswered(t, a)
    PROVE  IInv'
<1> DEFINE n == heard[t]["node"]
           health == HealthOf(n, a)
           null == a.null \/ n.null \/ heard[t]["status"].null
<1>1. Types /\ pc[t] = "indexer" /\ pc[t] \in Calls /\ node \in Rounds /\ archived \in Rounds
  BY DEF IInv, Types, IndexerAnswered, Calls
<1>2. a \in Returned /\ (a.round # None => a.round = archived)
  BY <1>1, AnswersOk
<1>3. n \in Returned /\ heard[t]["status"] \in Returned
  BY <1>1 DEF Types, Calls
<1>4. /\ heard' \in [Requests -> [Calls -> Returned]]
      /\ heard'[t]["node"] = n /\ heard'[t]["status"] = heard[t]["status"]
      /\ \A u \in Requests \ {t} : heard'[u] = heard[u]
  <2>1. Hear(t, a)
    BY DEF IndexerAnswered
  <2>2. QED
    BY <1>1, <1>2, <2>1, HearOk DEF Calls
<1>5. UNCHANGED <<settings, node, archived, route>>
  BY DEF IndexerAnswered
<1>6. Under(t) /\ Taken(t, "arrival") /\ Taken(t, "node") /\ route[t] # "latest"
  BY <1>1, CallingOk DEF Under
<1>7. /\ health \in Replies /\ health.indexerRound = a.round /\ health.tip = None
      /\ health.lag # None =>
            n.round \in Rounds /\ a.round \in Rounds /\ health.lag = n.round - a.round
  BY <1>2, <1>3, HealthOk
<1>8. PICK s \in Replies :
        /\ Respond(t, s)
        /\ s.lag # None => s.lag = health.lag /\ s.indexerRound = a.round
        /\ s.tip # None => s.tip = Tip(t)
  <2> HIDE DEF health, n
  <2>1. CASE null
    <3>1. Respond(t, Response(500))
      BY <2>1 DEF IndexerAnswered, health, n
    <3>2. QED
      BY <3>1, ResponseOk DEF Response
  <2>2. CASE ~null /\ route[t] = "health"
    <3>1. Respond(t, health)
      BY <2>2 DEF IndexerAnswered, health, n
    <3>2. QED
      BY <1>7, <3>1
  <2>3. CASE ~null /\ route[t] = "readyz"
    <3> DEFINE status == IF health.healthy THEN 200 ELSE 503
               s == [health EXCEPT !.status = status]
    <3>1. Respond(t, s)
      BY <2>3 DEF IndexerAnswered, health, n
    <3>2. status \in {200, 503}
      OBVIOUS
    <3> HIDE DEF status
    <3>3. s \in Replies /\ s.lag = health.lag /\ s.indexerRound = a.round /\ s.tip = None
      BY <1>7, <3>2 DEF Replies
    <3>4. QED
      BY <3>1, <3>3
  <2>4. CASE ~null /\ route[t] \notin {"health", "readyz"}
    <3> DEFINE s == [health EXCEPT !.tip = Tip(t)]
    <3>1. Respond(t, s)
      BY <2>4 DEF IndexerAnswered, health, n, Tip
    <3>2. Tip(t) \in MaybeRound
      BY <1>3 DEF Tip, Returned, MaybeRound
    <3>3. s \in Replies /\ s.lag = health.lag /\ s.indexerRound = a.round /\ s.tip = Tip(t)
      BY <1>7, <3>2 DEF Replies
    <3>4. QED
      BY <3>1, <3>3
  <2>5. QED
    BY <2>1, <2>2, <2>3, <2>4
<1> HIDE DEF health, n
<1>9. /\ pc' \in [Requests -> Calls \cup {"new", "done"}]
      /\ reply' \in [Requests -> Replies \cup {None}]
      /\ pc'[t] = "done" /\ reply'[t] = s
      /\ \A u \in Requests \ {t} : pc'[u] = pc[u] /\ reply'[u] = reply[u]
  BY <1>1, <1>8, RespondOk
<1>10. Chain \in Samples /\ Chain.node = node /\ Chain.archived = archived
  BY <1>1 DEF Chain, Samples
<1>11. /\ truth' \in [Requests -> [Moments -> Samples \cup {None}]]
       /\ truth'[t]["indexer"] = Chain /\ truth'[t]["arrival"] = truth[t]["arrival"]
       /\ truth'[t]["node"] = truth[t]["node"]
       /\ \A u \in Requests \ {t} : truth'[u] = truth[u]
  BY <1>1, <1>10 DEF IndexerAnswered, Types, Moments
<1>12. Types'
  BY <1>1, <1>4, <1>5, <1>9, <1>11 DEF Types, Newest, Mixed, Serves, Effective
<1>13. Touches(t)
  BY <1>4, <1>5, <1>9, <1>11 DEF Touches
<1>14. Taken(t, "arrival")'
  BY <1>5, <1>6, <1>11 DEF Taken
<1>15. s.lag # None =>
         s.lag = truth[t]["node"].node - archived /\ a.round = archived
  BY <1>1, <1>2, <1>6, <1>7, <1>8, NoneIsNoRound DEF Under, n
<1>16. /\ truth[t]["node"].node \in Int /\ truth[t]["node"].archived \in Int
       /\ truth[t]["node"].archived <= archived /\ truth[t]["node"] \in Samples
       /\ node \in Int /\ archived \in Int
  BY <1>1, <1>6, NoneIsNoRound DEF Taken, Samples
<1>17. ~Mixed(settings) => archived <= node
  BY <1>1, <1>16 DEF Types, Newest
<1>18. HonestLag(t)'
  <2>1. SUFFICES ASSUME s.lag # None PROVE HonestLag(t)'
    BY <1>9 DEF HonestLag
  <2>2. s.lag = truth[t]["node"].node - archived
    BY <1>15, <2>1
  <2>3. s.lag <= truth[t]["node"].node - truth[t]["node"].archived
    BY <1>16, <2>2
  <2>4. s.lag + (node - truth[t]["node"].node) = node - archived
    BY <1>16, <2>2
  <2>5. s.lag + (node - truth[t]["node"].node) < 0 => Mixed(settings)
    BY <1>16, <1>17, <2>4
  <2>6. Mixed(settings)' = Mixed(settings)
    BY <1>5 DEF Mixed, Serves, Effective
  <2>7. QED
    BY <1>9, <1>10, <1>11, <1>16, <2>3, <2>4, <2>5, <2>6 DEF HonestLag
<1>19. AgreeingStats(t)'
  <2>1. SUFFICES ASSUME s.lag # None, s.tip # None PROVE AgreeingStats(t)'
    BY <1>9 DEF AgreeingStats
  <2>2. s.tip = Tip(t) /\ s.indexerRound = archived /\ s.lag = truth[t]["node"].node - archived
    BY <1>8, <1>15, <2>1
  <2>3. s.tip <= truth[t]["node"].node
    BY <1>1, <1>6, <2>1, <2>2 DEF Under
  <2>4. s.indexerRound + s.lag = truth[t]["node"].node
    BY <1>16, <2>2
  <2>5. QED
    BY <1>1, <1>9, <2>2, <2>3, <2>4 DEF AgreeingStats
<1>20. RecentBlock(t)'
  BY <1>5, <1>6 DEF RecentBlock
<1>21. RequestInv(t)'
  BY <1>9, <1>14, <1>18, <1>19, <1>20 DEF RequestInv, Answered
<1>22. QED
  BY <1>12, <1>13, <1>21, StepOk

LEMMA BlockFoundOk ==
    ASSUME IInv, NEW t \in Requests, BlockFound(t) PROVE IInv'
<1> DEFINE r == [Response(200) EXCEPT !.height = Tip(t)]
<1>1. Types /\ pc[t] = "block" /\ pc[t] \in Calls
  BY DEF IInv, Types, BlockFound, Calls
<1>2. UNCHANGED <<settings, node, archived, route, heard, truth>> /\ Respond(t, r)
  BY DEF BlockFound, Asked, Tip
<1>3. /\ Under(t) /\ Taken(t, "arrival") /\ route[t] = "latest" /\ Tip(t) # None
      /\ truth[t]["arrival"].node <= Tip(t) /\ Tip(t) <= node
  BY <1>1, CallingOk DEF Under
<1>4. Tip(t) \in Rounds
  BY <1>1, <1>3 DEF Types, Tip, Calls, Returned
<1>5. r \in Replies /\ r.status = 200 /\ r.lag = None /\ r.height = Tip(t)
  BY <1>4 DEF Response, Replies, MaybeRound
<1> HIDE DEF r
<1>6. /\ pc' \in [Requests -> Calls \cup {"new", "done"}]
      /\ reply' \in [Requests -> Replies \cup {None}]
      /\ pc'[t] = "done" /\ reply'[t] = r
      /\ \A u \in Requests \ {t} : pc'[u] = pc[u] /\ reply'[u] = reply[u]
  BY <1>1, <1>2, <1>5, RespondOk
<1>7. Types'
  BY <1>1, <1>2, <1>6 DEF Types, Newest, Mixed, Serves, Effective
<1>8. Touches(t)
  BY <1>2, <1>6 DEF Touches
<1>9. HonestLag(t)' /\ AgreeingStats(t)'
  BY <1>5, <1>6 DEF HonestLag, AgreeingStats
<1>10. RecentBlock(t)'
  BY <1>2, <1>3, <1>4, <1>5, <1>6 DEF RecentBlock
<1>11. Taken(t, "arrival")'
  BY <1>2, <1>3 DEF Taken
<1>12. RequestInv(t)'
  BY <1>5, <1>6, <1>9, <1>10, <1>11 DEF RequestInv, Answered
<1>13. QED
  BY <1>7, <1>8, <1>12, StepOk

LEMMA BlockFailsOk ==
    ASSUME IInv, NEW t \in Requests, NEW failure \in Failures, BlockFails(t, failure)
    PROVE  IInv'
<1> DEFINE r == Response(Attributed(failure))
           a == Failing(failure)
<1>1. Types /\ pc[t] = "block" /\ pc[t] \in Calls /\ archived \in Rounds
  BY DEF IInv, Types, BlockFails, Calls
<1>2. UNCHANGED <<settings, node, archived, route, truth>> /\ Respond(t, r) /\ Hear(t, a)
  BY DEF BlockFails, Blame
<1>3. a \in Returned
  BY DEF Failing, NoField, Round, Returned
<1>4. /\ heard' \in [Requests -> [Calls -> Returned]]
      /\ heard'[t]["status"] = heard[t]["status"]
      /\ \A u \in Requests \ {t} : heard'[u] = heard[u]
  BY <1>1, <1>2, <1>3, HearOk DEF Calls
<1>5. /\ r \in Replies /\ r.lag = None /\ r.status # 200
      /\ r.status = 404 => failure = 404
  <2>1. Attributed(failure) \in {400, 404, 429, 502}
        /\ (Attributed(failure) = 404 => failure = 404)
    BY ResponseOk
  <2>2. QED
    BY <2>1, ResponseOk
<1>6. ASSUME r.status = 404
      PROVE  truth[t]["arrival"].archived < heard'[t]["status"].round
  <2>1. Tip(t) > archived
    BY <1>5, <1>6 DEF BlockFails, Asked, Tip
  <2>2. Taken(t, "arrival") /\ Tip(t) # None
    BY <1>1, CallingOk DEF Under
  <2>3. Tip(t) \in Int /\ truth[t]["arrival"].archived \in Int /\ archived \in Int
    <3>1. Tip(t) \in Rounds
      BY <1>1, <2>2 DEF Types, Tip, Calls, Returned
    <3>2. truth[t]["arrival"].archived \in Rounds
      BY <2>2 DEF Taken, Samples
    <3>3. QED
      BY <1>1, <3>1, <3>2, NoneIsNoRound
  <2>4. truth[t]["arrival"].archived <= archived
    BY <2>2 DEF Taken
  <2>5. truth[t]["arrival"].archived < Tip(t)
    BY <2>1, <2>3, <2>4
  <2>6. QED
    BY <1>4, <2>5 DEF Tip
<1> HIDE DEF r, a
<1>7. QED
  BY <1>1, <1>2, <1>4, <1>5, <1>6, RefusedOk

LEMMA NodeAdvancesOk == ASSUME IInv, NodeAdvances PROVE IInv'
<1>1. /\ node \in Rounds /\ archived \in Rounds /\ archived \in 0 .. Newest
      /\ node < MaxRound /\ node' = node + 1 /\ UNCHANGED <<settings, archived>>
      /\ UNCHANGED handlerVars
  BY DEF IInv, Types, NodeAdvances
<1>2. node' \in Rounds /\ archived' \in Rounds /\ node <= node' /\ archived <= archived'
  BY ViewAssumption, <1>1 DEF Rounds
<1>3. Mixed(settings)' = Mixed(settings)
  BY <1>1 DEF Mixed, Serves, Effective
<1>4. archived' \in 0 .. Newest'
  BY <1>1, <1>3 DEF Newest, Rounds
<1>5. QED
  BY <1>1, <1>2, <1>4, GrowOk

LEMMA ArchiveAdvancesOk == ASSUME IInv, ArchiveAdvances PROVE IInv'
<1>1. /\ node \in Rounds /\ archived \in Rounds /\ archived < Newest
      /\ archived' = archived + 1 /\ UNCHANGED <<settings, node>>
      /\ UNCHANGED handlerVars
  BY DEF IInv, Types, ArchiveAdvances
<1>2. Newest \in Rounds
  BY ViewAssumption, <1>1 DEF Newest, Rounds
<1>3. archived' \in Rounds /\ node' \in Rounds /\ node <= node' /\ archived <= archived'
  BY ViewAssumption, <1>1, <1>2 DEF Rounds
<1>4. Newest' = Newest
  BY <1>1 DEF Newest, Mixed, Serves, Effective
<1>5. archived' \in 0 .. Newest'
  BY <1>1, <1>2, <1>4 DEF Rounds
<1>6. QED
  BY <1>1, <1>3, <1>5, GrowOk

LEMMA NextInv == IInv /\ [Next]_vars => IInv'
<1>1. SUFFICES ASSUME IInv, [Next]_vars PROVE IInv'
  OBVIOUS
<1>2. ASSUME NEW t \in Requests, NEW r \in Routes, Arrive(t, r) PROVE IInv'
  BY <1>1, <1>2, ArriveOk
<1>3. ASSUME NEW t \in Requests, CallRaises(t) PROVE IInv'
  BY <1>1, <1>3, CallRaisesOk
<1>4. ASSUME NEW t \in Requests, NEW a \in Answers(node), StatusAnswered(t, a) PROVE IInv'
  BY <1>1, <1>4, StatusAnsweredOk
<1>5. ASSUME NEW t \in Requests, NEW a \in Answers(node), NodeAnswered(t, a) PROVE IInv'
  BY <1>1, <1>5, NodeAnsweredOk
<1>6. ASSUME NEW t \in Requests, NEW a \in Answers(archived), IndexerAnswered(t, a)
      PROVE  IInv'
  BY <1>1, <1>6, IndexerAnsweredOk
<1>7. ASSUME NEW t \in Requests, BlockFound(t) PROVE IInv'
  BY <1>1, <1>7, BlockFoundOk
<1>8. ASSUME NEW t \in Requests, NEW failure \in Failures, BlockFails(t, failure) PROVE IInv'
  BY <1>1, <1>8, BlockFailsOk
<1>9. CASE NodeAdvances
  BY <1>1, <1>9, NodeAdvancesOk
<1>10. CASE ArchiveAdvances
  BY <1>1, <1>10, ArchiveAdvancesOk
<1>11. CASE UNCHANGED vars
  <2>1. /\ UNCHANGED handlerVars /\ UNCHANGED settings /\ node' = node /\ archived' = archived
    BY <1>11 DEF vars, handlerVars
  <2>2. node \in Rounds /\ archived \in Rounds /\ archived \in 0 .. Newest
    BY <1>1 DEF IInv, Types
  <2>3. node \in Int /\ archived \in Int /\ Newest' = Newest
    BY <2>1, <2>2, NoneIsNoRound DEF Newest, Mixed, Serves, Effective
  <2>4. QED
    BY <1>1, <2>1, <2>2, <2>3, GrowOk
<1>12. QED
  BY <1>1, <1>2, <1>3, <1>4, <1>5, <1>6, <1>7, <1>8, <1>9, <1>10, <1>11 DEF Next

------------------------------------------------------------------------------
(* Theorems                                                                 *)

\* What a request has heard and what it answers stay tied to samples of the
\* chain, in every reachable state.
THEOREM Inductive == Spec => []IInv
BY InitInv, NextInv, PTL DEF Spec

\* Types: in particular every response has one of the statuses the handlers
\* and the error handler give (service.py:154-172), and every round it tells is
\* a round of the chain or absent.
THEOREM TypeCorrect == Spec => []TypeOK
<1>1. ASSUME IInv PROVE TypeOK
  <2>1. Types
    BY <1>1 DEF IInv
  <2>2. ASSUME NEW t \in Requests, reply[t] # None
        PROVE  /\ reply[t].status \in {200, 400, 404, 429, 500, 502, 503}
               /\ {reply[t].tip, reply[t].height, reply[t].indexerRound}
                     \subseteq Rounds \cup {None}
    BY <2>1, <2>2 DEF Types, Replies, MaybeRound
  <2>3. QED
    BY <2>1, <2>2 DEF TypeOK, Types
<1>2. QED
  BY <1>1, Inductive, PTL

\* The lag never overstates how far the archive trailed, and understates it by
\* exactly the rounds produced between the two calls (client.py:248-273).
THEOREM LagHonest == Spec => []LagIsHonest
<1>1. ASSUME IInv PROVE LagIsHonest
  <2>1. ASSUME NEW t \in Requests, reply[t] # None PROVE pc[t] = "done" /\ HonestLag(t)
    BY <1>1, <2>1 DEF IInv, RequestInv, Under, Answered
  <2>2. QED
    BY <2>1 DEF LagIsHonest, HonestLag
<1>2. QED
  BY <1>1, Inductive, PTL

\* The three numbers of /api/v2/stats disagree in one direction only
\* (service.py:224-229).
THEOREM StatsAgreeing == Spec => []StatsAgree
<1>1. ASSUME IInv PROVE StatsAgree
  <2>1. ASSUME NEW t \in Requests, reply[t] # None PROVE AgreeingStats(t)
    BY <1>1, <2>1 DEF IInv, RequestInv, Under, Answered
  <2>2. QED
    BY <2>1 DEF StatsAgree, AgreeingStats
<1>2. QED
  BY <1>1, Inductive, PTL

\* The latest block was the tip at some moment of the request, and a 404 is
\* never the answer once the archive had caught up (service.py:349-357).
THEOREM LatestRecent == Spec => []LatestIsLatest
<1>1. ASSUME IInv PROVE LatestIsLatest
  <2>1. ASSUME NEW t \in Requests, reply[t] # None PROVE Answered(t)
    BY <1>1, <2>1 DEF IInv, RequestInv, Under
  <2>2. ASSUME NEW t \in Requests, route[t] = "latest", reply[t] # None, reply[t].status = 200
        PROVE  reply[t].height \in truth[t]["arrival"].node .. node
    <3>1. /\ reply[t].height \in Rounds /\ truth[t]["arrival"].node <= reply[t].height
          /\ reply[t].height <= node /\ truth[t]["arrival"] \in Samples /\ node \in Rounds
      BY <1>1, <2>1, <2>2 DEF Answered, RecentBlock, Taken, IInv, Types
    <3>2. reply[t].height \in Int /\ truth[t]["arrival"].node \in Int /\ node \in Int
      BY <3>1, NoneIsNoRound DEF Samples
    <3>3. QED
      BY <3>1, <3>2
  <2>3. QED
    BY <2>1, <2>2 DEF LatestIsLatest, Answered, RecentBlock
<1>2. QED
  BY <1>1, Inductive, PTL

\* An URL serves a network, and is quiet about it or names it.
LEMMA EffectiveOk ==
    ASSUME NEW s \in Settings, Boots(s), NEW role \in Roles
    PROVE  /\ ~GivenUrl(s, role) => Serves(s, role) = s.network
           /\ Serves(s, role) \in Networks
           /\ \/ Serves(s, role) = s.network
              \/ <<role, Serves(s, role)>> \in Warnings(s)
              \/ Quiet(s, role)
<1>1. s.argument[role] \in Urls \cup {Unset} /\ s.environment[role] \in Urls \cup {Unset}
  BY DEF Settings
<1>2. CASE ~GivenUrl(s, role)
  <2>1. s.argument[role] = Unset /\ s.environment[role] = Unset
    BY <1>2 DEF GivenUrl
  <2>2. Effective(s, role) = Default(s.network)
    BY <2>1 DEF Effective
  <2>3. QED
    BY <1>2, <2>2 DEF Serves, Default, Boots
<1>3. CASE GivenUrl(s, role)
  <2>1. Effective(s, role) \in Urls
    BY <1>1, <1>3 DEF GivenUrl, Effective
  <2>2. Serves(s, role) \in Networks
    BY <2>1 DEF Serves, Urls
  <2>3. ASSUME Serves(s, role) \in Effective(s, role).names, Serves(s, role) # s.network
        PROVE  <<role, Serves(s, role)>> \in Warnings(s)
    BY <2>2, <2>3 DEF Warnings
  <2>4. QED
    BY <1>3, <2>2, <2>3 DEF Quiet
<1>4. QED
  BY <1>2, <1>3

\* What is served as a network is that network, or it was warned of, or the URL
\* keeps quiet; a negative lag that rounds do not explain likewise
\* (client.py:120-147, 262-273).
THEOREM LabelHonest == Spec => []LabelIsHonest
<1>1. Init => Boots(settings)
  BY DEF Init
<1>2. Boots(settings) /\ IInv /\ [Next]_vars => Boots(settings)'
  <2>1. [Next]_vars => settings' = settings
    <3>1. \A t \in Requests, r \in Routes : Arrive(t, r) => settings' = settings
      BY DEF Arrive
    <3>2. \A t \in Requests : CallRaises(t) \/ BlockFound(t) => settings' = settings
      BY DEF CallRaises, BlockFound
    <3>3. \A t \in Requests, a \in Answers(node) :
             StatusAnswered(t, a) \/ NodeAnswered(t, a) => settings' = settings
      BY DEF StatusAnswered, NodeAnswered
    <3>4. \A t \in Requests, a \in Answers(archived) :
             IndexerAnswered(t, a) => settings' = settings
      BY DEF IndexerAnswered
    <3>5. \A t \in Requests, failure \in Failures :
             BlockFails(t, failure) => settings' = settings
      BY DEF BlockFails
    <3>6. NodeAdvances \/ ArchiveAdvances \/ UNCHANGED vars => settings' = settings
      BY DEF NodeAdvances, ArchiveAdvances, vars
    <3>7. QED
      BY <3>1, <3>2, <3>3, <3>4, <3>5, <3>6, Zenon DEF Next
  <2>2. QED
    BY <2>1 DEF Boots
<1>3. ASSUME IInv, Boots(settings) PROVE LabelIsHonest
  <2>1. settings \in Settings
    BY <1>3 DEF IInv, Types
  <2>2. \A role \in Roles : ~GivenUrl(settings, role) => Serves(settings, role) = settings.network
    BY <1>3, <2>1, EffectiveOk
  <2>3. \A role \in Roles :
          \/ Serves(settings, role) = settings.network
          \/ Warnings(settings) # {}
          \/ Quiet(settings, role)
    BY <1>3, <2>1, EffectiveOk
  <2>4. Mixed(settings) => Warnings(settings) # {} \/ \E role \in Roles : Quiet(settings, role)
    <3>1. "algod" \in Roles /\ "indexer" \in Roles
      BY DEF Roles
    <3>2. QED
      BY <2>3, <3>1 DEF Mixed
  <2>5. ASSUME NEW t \in Requests, reply[t] # None, reply[t].lag # None,
               reply[t].lag < truth[t]["node"].node - truth[t]["indexer"].node
        PROVE  Mixed(settings)
    <3>1. Types /\ HonestLag(t)
      BY <1>3, <2>5 DEF IInv, RequestInv, Under, Answered
    <3>2. /\ reply[t].lag \in Int
          /\ truth[t]["node"].node \in Int /\ truth[t]["indexer"].node \in Int
      <4>1. reply[t] \in Replies
        BY <2>5, <3>1 DEF Types
      <4>2. reply[t].lag \in Int
        BY <2>5, <4>1 DEF Replies
      <4>3. truth[t]["node"] \in Samples /\ truth[t]["indexer"] \in Samples
        BY <2>5, <3>1 DEF HonestLag
      <4>4. QED
        BY <4>2, <4>3, NoneIsNoRound DEF Samples
    <3>3. reply[t].lag + (truth[t]["indexer"].node - truth[t]["node"].node) < 0
      BY <2>5, <3>2
    <3>4. QED
      BY <2>5, <3>1, <3>3 DEF HonestLag
  <2>6. QED
    BY <2>2, <2>3, <2>4, <2>5 DEF LabelIsHonest
<1>4. QED
  BY <1>1, <1>2, <1>3, Inductive, PTL DEF Spec
==============================================================================
