------------------------------- MODULE ChainView -------------------------------
(***************************************************************************)
(* The routes that report where the chain is: /health, /readyz,            *)
(* /api/v2/stats and /api/v2/blocks.  Each makes two or three upstream     *)
(* calls, one after the other, while the node and the archive behind it    *)
(* move on: an answer is put together from samples of different instants.  *)
(*                                                                         *)
(* An upstream call is one step here, at the instant the upstream reads    *)
(* its state; UpstreamCall models the attempts it is made of.  The node    *)
(* and the indexer are external: rounds only grow, and the archive trails  *)
(* the node ("It lags the node by a round or two", client.py:11).  But the *)
(* two URLs are configured apart: behind them may be two chains, and then  *)
(* neither trails the other.                                               *)
(***************************************************************************)
EXTENDS ErrorHandler, Config

CONSTANTS
    Requests,        (* one request each                                   *)
    MaxRound,        (* bound: rounds the chain produces                   *)
    None             (* a missing value, or null                           *)

ASSUME ViewAssumption == MaxRound \in Nat /\ None \notin Int

VARIABLES
    settings,        (* what the service was started with                  *)
    node,            (* external: the last round of the node               *)
    archived,        (* external: the last round of the indexer            *)
    route,           (* the route each request asked for                   *)
    pc,              (* the upstream call each request is in               *)
    heard,           (* what its calls returned                            *)
    reply,           (* its response                                       *)
    truth            (* history: the chain when the request arrived, and   *)
                     (* when its health probe sampled it                   *)

handlerVars == <<route, pc, heard, reply, truth>>
vars == <<settings, node, archived, route, pc, heard, reply, truth>>

Routes == {"health", "readyz", "stats", "latest"}
Calls == {"status", "node", "indexer", "block"}
Rounds == 0 .. MaxRound

\* What a call returns besides a round: a payload without the field, a 200
\* whose body is null, an AlgorandError, or an exception that is none.
Returned == [round : Rounds \cup {None}, null : BOOLEAN, failure : Failures \cup {None}]

Round(n) == [round |-> n, null |-> FALSE, failure |-> None]
NoField == Round(None)
NullBody == [NoField EXCEPT !.null = TRUE]
Failing(status) == [NoField EXCEPT !.failure = status]

Answers(round) == {Round(round), NoField, NullBody} \cup {Failing(s) : s \in Failures}

Response(status) ==
    [status |-> status, tip |-> None, indexerRound |-> None,
     lag |-> None, healthy |-> None, height |-> None]

\* The last round there is on the chain the archive follows.
Newest == IF Mixed(settings) THEN MaxRound ELSE node

Init ==
    /\ settings \in {s \in Given : Boots(s)}
    /\ node \in Rounds
    /\ archived \in 0 .. Newest
    /\ route = [t \in Requests |-> None]
    /\ pc = [t \in Requests |-> "new"]
    /\ heard = [t \in Requests |-> [c \in Calls |-> NoField]]
    /\ reply = [t \in Requests |-> None]
    /\ truth = [t \in Requests |-> [c \in {"arrival", "node", "indexer"} |-> None]]

Chain == [node |-> node, archived |-> archived]

------------------------------------------------------------------------------
(* What the handlers compute                                               *)

\* indexer_lag_rounds: a number only if both upstreams gave one, and raw.
LagClampedMutant(nodeRound, idxRound) ==
    IF nodeRound = None \/ idxRound = None THEN None
    ELSE IF nodeRound < idxRound THEN 0 ELSE nodeRound - idxRound

LagReversedMutant(nodeRound, idxRound) ==
    IF nodeRound = None \/ idxRound = None THEN None ELSE idxRound - nodeRound

Lag(nodeRound, idxRound) ==
    IF nodeRound = None \/ idxRound = None THEN None ELSE nodeRound - idxRound

\* The dictionary health() returns, from what its two calls returned.
HealthOf(n, idx) ==
    [status |-> 200, tip |-> None, indexerRound |-> idx.round,
     lag |-> Lag(n.round, idx.round),
     healthy |-> (n.failure = None /\ idx.failure = None), height |-> None]

\* The round get_latest_block asks the indexer for.
AskedBehindMutant(t) == heard[t]["status"].round - 1     \* allows for the lag
Asked(t) == heard[t]["status"].round

------------------------------------------------------------------------------
(* Steps of a request                                                      *)

Respond(t, response) ==
    /\ pc' = [pc EXCEPT ![t] = "done"]
    /\ reply' = [reply EXCEPT ![t] = response]

\* An AlgorandError nobody caught is attributed.
Blame(t, failure) == Respond(t, Response(Attributed(failure)))

Proceed(t, call) ==
    /\ pc' = [pc EXCEPT ![t] = call]
    /\ UNCHANGED reply

Arrive(t, r) ==
    /\ pc[t] = "new"
    /\ route' = [route EXCEPT ![t] = r]
    /\ Proceed(t, IF r \in {"health", "readyz"} THEN "node" ELSE "status")
    /\ truth' = [truth EXCEPT ![t]["arrival"] = Chain]
    /\ UNCHANGED <<settings, node, archived, heard>>

Hear(t, a) == heard' = [heard EXCEPT ![t][pc[t]] = a]

\* Any other exception, in whichever call: a 500 of the server's own.
CallRaises(t) ==
    /\ pc[t] \in Calls
    /\ Respond(t, Response(500))
    /\ UNCHANGED <<settings, node, archived, route, heard, truth>>

\* The status() that stats and get_latest_block begin with.  get_latest_block
\* looks into it at once; stats passes it on and probes the health first.
StatusAnswered(t, a) ==
    /\ pc[t] = "status"
    /\ Hear(t, a)
    /\ CASE a.failure # None -> Blame(t, a.failure)
         [] a.failure = None /\ route[t] = "stats" -> Proceed(t, "node")
         [] a.null /\ route[t] = "latest" -> Respond(t, Response(500))
         [] a = NoField /\ route[t] = "latest" -> Respond(t, Response(502))
         [] OTHER -> Proceed(t, "block")
    /\ UNCHANGED <<settings, node, archived, route, truth>>

\* health(), the node: an AlgorandError is only noted.
NodeAnswered(t, a) ==
    /\ pc[t] = "node"
    /\ Hear(t, a)
    /\ Proceed(t, "indexer")
    /\ truth' = [truth EXCEPT ![t]["node"] = Chain]
    /\ UNCHANGED <<settings, node, archived, route>>

\* health(), the indexer, and the response of the route.  A null body raises
\* only here, when its fields are read, after every call was made.
IndexerAnswered(t, a) ==
    /\ pc[t] = "indexer"
    /\ Hear(t, a)
    /\ LET health == HealthOf(heard[t]["node"], a)
           null == a.null \/ heard[t]["node"].null \/ heard[t]["status"].null
       IN  Respond(t,
             CASE null -> Response(500)
               [] ~null /\ route[t] = "health" -> health
               [] ~null /\ route[t] = "readyz" ->
                     [health EXCEPT !.status = IF health.healthy THEN 200 ELSE 503]
               [] OTHER -> [health EXCEPT !.tip = heard[t]["status"].round])
    /\ truth' = [truth EXCEPT ![t]["indexer"] = Chain]
    /\ UNCHANGED <<settings, node, archived, route>>

\* The indexer has the round asked for, or does not have it yet.
BlockFound(t) ==
    /\ pc[t] = "block"
    /\ Asked(t) <= archived
    /\ Respond(t, [Response(200) EXCEPT !.height = Asked(t)])
    /\ UNCHANGED <<settings, node, archived, route, heard, truth>>

BlockFails(t, failure) ==
    /\ pc[t] = "block"
    /\ failure = 404 => Asked(t) > archived
    /\ Hear(t, Failing(failure))
    /\ Blame(t, failure)
    /\ UNCHANGED <<settings, node, archived, route, truth>>

------------------------------------------------------------------------------
(* The chain                                                               *)

NodeAdvances ==
    /\ node < MaxRound
    /\ node' = node + 1
    /\ UNCHANGED <<settings, archived>>
    /\ UNCHANGED handlerVars

ArchiveAdvances ==
    /\ archived < Newest
    /\ archived' = archived + 1
    /\ UNCHANGED <<settings, node>>
    /\ UNCHANGED handlerVars

Next ==
    \/ \E t \in Requests :
          \/ \E r \in Routes : Arrive(t, r)
          \/ CallRaises(t)
          \/ \E a \in Answers(node) : StatusAnswered(t, a) \/ NodeAnswered(t, a)
          \/ \E a \in Answers(archived) : IndexerAnswered(t, a)
          \/ BlockFound(t)
          \/ \E failure \in Failures : BlockFails(t, failure)
    \/ NodeAdvances
    \/ ArchiveAdvances

Spec == Init /\ [][Next]_vars

------------------------------------------------------------------------------
(* Type invariant.                                                         *)
TypeOK ==
    /\ settings \in Settings
    /\ node \in Rounds /\ archived \in 0 .. Newest
    /\ route \in [Requests -> Routes \cup {None}]
    /\ pc \in [Requests -> Calls \cup {"new", "done"}]
    /\ heard \in [Requests -> [Calls -> Returned]]
    /\ \A t \in Requests : reply[t] # None =>
          /\ reply[t].status \in {200, 400, 404, 429, 500, 502, 503}
          /\ {reply[t].tip, reply[t].height, reply[t].indexerRound} \subseteq Rounds \cup {None}

\* The lag a monitor reads never overstates how far the archive trailed, at
\* either instant it was sampled, and understates it by exactly the rounds
\* produced in between; so it is negative by no more than those, which is what
\* its note says (health, client.py:267-273), unless two chains were compared.
LagIsHonest ==
    \A t \in Requests :
        reply[t] # None /\ reply[t].lag # None =>
            LET atNode == truth[t]["node"]
                atIndexer == truth[t]["indexer"]
            IN  /\ reply[t].lag <= atNode.node - atNode.archived
                /\ reply[t].lag + (atIndexer.node - atNode.node)
                      = atIndexer.node - atIndexer.archived
                /\ reply[t].lag + (atIndexer.node - atNode.node) < 0 => Mixed(settings)

\* The three numbers of /api/v2/stats come from three calls.  Put together
\* they may disagree in one direction only: indexer_round plus the lag never
\* falls short of chain_tip (stats, service.py:224-229).
StatsAgree ==
    \A t \in Requests :
        route[t] = "stats" /\ reply[t] # None /\ reply[t].lag # None /\ reply[t].tip # None
            => reply[t].tip <= reply[t].indexerRound + reply[t].lag

\* The latest block was the tip of the chain at some moment after the request
\* arrived, although the node that knows the tip is not the archive that has
\* the block; and a 404 is never the answer once the archive had caught up
\* with the tip the request found (get_latest_block).
LatestIsLatest ==
    \A t \in Requests :
        route[t] = "latest" /\ reply[t] # None =>
            /\ reply[t].status = 200 => reply[t].height \in truth[t]["arrival"].node .. node
            /\ reply[t].status = 404 /\ heard[t]["status"].failure = None =>
                  truth[t]["arrival"].archived < heard[t]["status"].round

\* What is served as a network is that network: a URL left to the default is
\* the label's own ("setting the network alone is safe", README.md:123), and
\* any other chain, or a lag computed across two chains, was warned of when the
\* service started ("it never passes silently", client.py:135), unless the URL
\* keeps quiet about what is behind it.
LabelIsHonest ==
    /\ \A role \in Roles : ~GivenUrl(settings, role) => Serves(settings, role) = settings.network
    /\ \/ \A role \in Roles : Serves(settings, role) = settings.network
       \/ Warnings(settings) # {}
       \/ \E role \in Roles : Quiet(settings, role)
    /\ \A t \in Requests :
          reply[t] # None /\ reply[t].lag # None
          /\ reply[t].lag < truth[t]["node"].node - truth[t]["indexer"].node =>
             Warnings(settings) # {} \/ \E role \in Roles : Quiet(settings, role)
==============================================================================
