------------------------------- MODULE Service -------------------------------
(***************************************************************************)
(* The process around the handlers: the observability middleware, the      *)
(* exception handlers, the counters, and the routes that are answered      *)
(* without an upstream.  One request is a search, run as Search runs it;   *)
(* the others each ask something of a route, which validates, asks one     *)
(* upstream and may be cancelled while it waits.                           *)
(*                                                                         *)
(* The exception handlers run before the middleware sees the response, in  *)
(* another task: an upstream failure is counted one step, the request that *)
(* met it a later one, and a scrape may come in between.                   *)
(***************************************************************************)
EXTENDS Search, Metrics

CONSTANTS
    Others,          (* the requests besides the search                    *)
    Query,           (* the search                                         *)
    Asks,            (* what the others may ask: route and term            *)
    Durations        (* how long a request may take                        *)

\* The route templates that are told apart here; None matches no route.
Routes == {"/livez", "/metrics", "/capabilities", "/addresses/{address}", "/transactions/{txid}",
           "/tokens/{asset_id}", "/smart-contracts/{app_id}", "/blocks", "/search",
           "/algorand/v2/{path}"}

ASSUME ServiceAssumption ==
    /\ Asks \subseteq [route : Routes \cup {None}, term : Terms \cup {None}]
    /\ Query \notin Others
    /\ IsFiniteSet(Others)
    /\ None \notin Routes
    /\ None \notin [status : Int, id : BOOLEAN, duration : Nat]
    /\ Durations \subseteq Nat

VARIABLES
    ask,             (* what each request asks                             *)
    stage,           (* "new", "handling", "awaiting", "answered", "raised" *)
    status,          (* the status of its response                         *)
    called,          (* history: whether an upstream was asked             *)
    blamed,          (* history: the AlgorandError that ended it           *)
    response,        (* what was sent, or Gone if the request was cancelled *)
    metrics          (* METRICS                                            *)

requestVars == <<ask, stage, status, called, blamed>>
serviceVars == <<ask, stage, status, called, blamed, response, metrics>>

Gone == [status |-> None, id |-> FALSE, duration |-> None]

ServiceInit ==
    /\ Init
    /\ ask = [q \in Others |-> None]
    /\ stage = [q \in Others |-> "new"]
    /\ status = [q \in Others |-> None]
    /\ called = [q \in Others |-> FALSE]
    /\ blamed = [q \in Others \cup {Query} |-> None]
    /\ response = [q \in Others \cup {Query} |-> None]
    /\ metrics = NoMetrics

------------------------------------------------------------------------------
(* What the handlers decide                                                *)

\* The routes whose parameter FastAPI reads as an int.
ById(route) == route \in {"/tokens/{asset_id}", "/smart-contracts/{app_id}"}

\* What the validators of the routes refuse.
Malformed(a) ==
    \/ ById(a.route) /\ a.term.number # None /\ ~ValidUint64(a.term)
    \/ a.route = "/addresses/{address}" /\ ~ValidAddress(a.term)
    \/ a.route = "/transactions/{txid}" /\ ~ValidTxid(a.term)

\* The prefixes of the passthrough: a path off them is no term here.
Allowlisted(a) == a.route = "/algorand/v2/{path}" => a.term # None

\* The response no upstream is needed for: no route, a route that is a
\* constant or a scrape, a parameter FastAPI refuses (422), a ValidationError
\* (400), a path off the allowlist (403); None if the upstream is asked.
LocalReply(a) ==
    CASE a.route = None -> 404
      [] a.route \in {"/livez", "/metrics", "/capabilities"} -> 200
      [] a.route = "/search" -> 422                         \* q is missing
      [] ~Allowlisted(a) -> 403
      [] ById(a.route) /\ a.term.number = None -> 422
      [] Malformed(a) -> 400
      [] OTHER -> None

\* What a handler answers by itself to a payload, fetched or cached.
Missing(route) ==
    CASE route = "/transactions/{txid}" -> 404       \* no transaction in the payload
      [] route = "/blocks" -> 502                    \* the node reports no round
      [] OTHER -> None

Replies(route) == {200, Missing(route)} \ {None}

Cached(route) == route = "/transactions/{txid}" \/ ById(route)

\* _route_for: the matched template, and one label for all that match none.
RouteForGuessMutant(a) ==              \* guesses from the path what varies in it
    IF a.route = None THEN "<unmatched>"
    ELSE IF LocalReply(a) = 400 THEN "/tokens/-5" ELSE a.route

RouteFor(a) == IF a.route = None THEN "<unmatched>" ELSE a.route

OutcomeStrictMutant(code) == IF code <= 502 THEN "caller_error" ELSE "upstream_error"
Outcome(code) == IF code < 500 THEN "caller_error" ELSE "upstream_error"

\* algorand_error_handler: the failure becomes a response and is counted, under
\* the indexer's name whichever upstream it was.
Attribute(q, failure) ==
    /\ blamed' = [blamed EXCEPT ![q] = failure]
    /\ metrics' = ObserveUpstream(metrics, "indexer", Outcome(Attributed(failure)))

------------------------------------------------------------------------------
(* The other requests                                                      *)

Move(q, from, to) ==
    /\ stage[q] = from
    /\ response[q] = None
    /\ stage' = [stage EXCEPT ![q] = to]
    /\ UNCHANGED <<response, vars>>

Answer(q, code) == status' = [status EXCEPT ![q] = code]

Begin(q, a) ==
    /\ Move(q, "new", "handling")
    /\ ask' = [ask EXCEPT ![q] = a]
    /\ UNCHANGED <<status, called, blamed, metrics>>

AnswerLocally(q) ==
    /\ Move(q, "handling", "answered")
    /\ LocalReply(ask[q]) # None
    /\ Answer(q, LocalReply(ask[q]))
    /\ UNCHANGED <<ask, called, blamed, metrics>>

AnswerFromCache(q) ==
    /\ Move(q, "handling", "answered")
    /\ LocalReply(ask[q]) = None /\ Cached(ask[q].route)
    /\ \E code \in Replies(ask[q].route) : Answer(q, code)
    /\ UNCHANGED <<ask, called, blamed, metrics>>

\* A payload is cached before it is mapped: one that cannot be is met again.
CachedRaises(q) ==
    /\ Move(q, "handling", "raised")
    /\ LocalReply(ask[q]) = None /\ Cached(ask[q].route)
    /\ Answer(q, 500)
    /\ UNCHANGED <<ask, called, blamed, metrics>>

AskUpstream(q) ==
    /\ Move(q, "handling", "awaiting")
    /\ LocalReply(ask[q]) = None
    /\ called' = [called EXCEPT ![q] = TRUE]
    /\ UNCHANGED <<ask, status, blamed, metrics>>

UpstreamAnswers(q) ==
    /\ Move(q, "awaiting", "answered")
    /\ \E code \in Replies(ask[q].route) : Answer(q, code)
    /\ UNCHANGED <<ask, called, blamed, metrics>>

UpstreamFails(q, failure) ==
    /\ Move(q, "awaiting", "answered")
    /\ Answer(q, Attributed(failure))
    /\ Attribute(q, failure)
    /\ UNCHANGED <<ask, called>>

\* Any other exception passes all exception handlers.
HandlerRaises(q) ==
    /\ Move(q, "awaiting", "raised")
    /\ Answer(q, 500)
    /\ UNCHANGED <<ask, called, blamed, metrics>>

------------------------------------------------------------------------------
(* The search                                                              *)

SearchEnds(n, failure) ==
    /\ ProbeFails(n, failure)
    /\ IF LetsThrough(n) THEN Attribute(Query, failure) ELSE UNCHANGED <<blamed, metrics>>

SearchRuns ==
    /\ response[Query] = None
    /\ \/ (Arrive \/ ProbeRaises \/ \E n \in Namespaces : Hit(n) \/ Miss(n))
             /\ UNCHANGED <<blamed, metrics>>
       \/ \E n \in Namespaces, failure \in Failures : SearchEnds(n, failure)
    /\ UNCHANGED <<ask, stage, status, called, response>>

ChainMoves ==
    /\ response[Query] = None
    /\ \E n \in CanMatch(term) : ChainChanges(n)
    /\ UNCHANGED serviceVars

------------------------------------------------------------------------------
(* The middleware                                                          *)

StageOf(q) ==
    CASE q # Query -> stage[q]
      [] q = Query /\ pc # "done" -> "handling"
      [] q = Query /\ pc = "done" /\ reply # 500 -> "answered"
      [] q = Query /\ pc = "done" /\ reply = 500 -> "raised"
StatusOf(q) == IF q = Query THEN reply ELSE status[q]
AskOf(q) == IF q = Query THEN [route |-> "/search", term |-> term] ELSE ask[q]

Send(q, code, id, duration) ==
    /\ response[q] = None
    /\ response' = [response EXCEPT ![q] = [status |-> code, id |-> id, duration |-> duration]]
    /\ UNCHANGED <<requestVars, vars>>

\* observability, when call_next returns: count, and set X-Request-ID.
Deliver(q, duration) ==
    /\ StageOf(q) = "answered"
    /\ Send(q, StatusOf(q), TRUE, duration)
    /\ metrics' = ObserveRequest(metrics, RouteFor(AskOf(q)), StatusOf(q), duration)

\* When it raises: count a 500 and raise; the server's own 500 is sent.
ReraiseUncountedMutant(q, duration) ==
    /\ StageOf(q) = "raised"
    /\ Send(q, 500, FALSE, duration)
    /\ UNCHANGED metrics

Reraise(q, duration) ==
    /\ StageOf(q) = "raised"
    /\ Send(q, 500, FALSE, duration)
    /\ metrics' = ObserveRequest(metrics, RouteFor(AskOf(q)), 500, duration)

\* A CancelledError is no Exception: nothing is counted and nothing sent.
Cancel(q) ==
    /\ StageOf(q) # "new"
    /\ response[q] = None
    /\ response' = [response EXCEPT ![q] = Gone]
    /\ UNCHANGED <<requestVars, metrics, vars>>

ServiceNext ==
    \/ SearchRuns
    \/ ChainMoves
    \/ \E q \in Others :
          \/ \E a \in Asks : Begin(q, a)
          \/ AnswerLocally(q)
          \/ AnswerFromCache(q)
          \/ CachedRaises(q)
          \/ AskUpstream(q)
          \/ UpstreamAnswers(q)
          \/ \E failure \in Failures : UpstreamFails(q, failure)
          \/ HandlerRaises(q)
    \/ \E q \in Others \cup {Query} :
          \/ \E d \in Durations : Deliver(q, d) \/ Reraise(q, d)
          \/ Cancel(q)

ServiceSpec == ServiceInit /\ [][ServiceNext]_<<vars, serviceVars>>

------------------------------------------------------------------------------
Labels == Routes \cup {"<unmatched>"}
Codes == {200, 400, 403, 404, 422, 429, 500, 502}
Sent == {q \in DOMAIN response : response[q] \notin {None, Gone}}

(* Type invariant.  The labels are a closed set: "a caller walking ids      *)
(* cannot mint unbounded time series" (README.md:114).                      *)
ServiceTypeOK ==
    /\ TypeOK
    /\ ask \in [Others -> Asks \cup {None}]
    /\ stage \in [Others -> {"new", "handling", "awaiting", "answered", "raised"}]
    /\ status \in [Others -> Codes \cup {None}]
    /\ called \in [Others -> BOOLEAN]
    /\ blamed \in [Others \cup {Query} -> Failures \cup {None}]
    /\ response \in [Others \cup {Query} ->
                        {None, Gone} \cup [status : Codes, id : BOOLEAN, duration : Durations]]
    /\ DOMAIN metrics.requests \subseteq Labels \X Codes
    /\ DOMAIN metrics.upstream \subseteq {"indexer"} \X {"caller_error", "upstream_error"}

\* "An upstream 4xx stays a 4xx, a 429 is passed through as 429, and only a
\* genuine upstream failure is a 502" (README.md:98-99), and the counters by
\* which the upstream's error budget is kept say the same: one count for each
\* failure that ended a request and none for a failure that a search swallowed.
\* They all stand under "indexer", a failure of the node on the way to the
\* latest block too (algorand_error_handler, service.py:171).
BlameIsFair ==
    LET Blamed == {q \in DOMAIN blamed : blamed[q] # None}
        Count(outcome) == Copies(<<"indexer", outcome>>, metrics.upstream)
    IN  /\ \A q \in Blamed : (StatusOf(q) >= 500) <=> Genuine(blamed[q])
        /\ \A q \in Blamed : (StatusOf(q) = 429) <=> (blamed[q] = 429)
        /\ Count("upstream_error") = Cardinality({q \in Blamed : Genuine(blamed[q])})
        /\ Count("caller_error") = Cardinality({q \in Blamed : ~Genuine(blamed[q])})

\* Whenever a scrape comes, every 502 it reports is explained by an upstream
\* error it reports too; only the latest block has a 502 that blames no call
\* (get_latest_block, service.py:355).
FailuresExplained ==
    LET shown == Rendered(metrics) IN
    MapThenSumSet(LAMBDA label : Copies(<<label, 502>>, shown.requests), Labels \ {"/blocks"})
        <= Copies(<<"indexer", "upstream_error">>, shown.upstream)

\* Each response that was sent is counted once, under the template of its route
\* and the status the caller saw, the unhandled exception included; a request
\* that was cancelled is not counted (observability, service.py:107-145).
AccountedFor ==
    \A label \in Labels, code \in Codes :
        Copies(<<label, code>>, metrics.requests) =
            Cardinality({q \in Sent : RouteFor(AskOf(q)) = label /\ response[q].status = code})

\* The exposed histogram is one: each line counts the responses that took at
\* most its edge, the last line all of them, as the count and the requests do
\* (render, metrics.py:97-109).
HistogramAddsUp ==
    LET shown == Rendered(metrics) IN
    \A label \in DOMAIN shown.buckets :
        LET took == {q \in Sent : RouteFor(AskOf(q)) = label} IN
        /\ \A i \in DOMAIN LatencyBuckets : shown.buckets[label][i] =
              Cardinality({q \in took : response[q].duration <= LatencyBuckets[i]})
        /\ shown.buckets[label][Len(LatencyBuckets) + 1] = Copies(label, shown.count)
        /\ Copies(label, shown.count) =
              MapThenSumSet(LAMBDA code : Copies(<<label, code>>, shown.requests), Codes)

Namespace(route) ==
    CASE route = "/addresses/{address}" -> "account"
      [] route = "/transactions/{txid}" -> "transaction"
      [] route = "/tokens/{asset_id}" -> "asset"
      [] route = "/smart-contracts/{app_id}" -> "application"
      [] OTHER -> None

\* The search and the routes agree on what an identifier is: whatever a search
\* found can be opened under the route of its namespace ("all digits -> asset
\* and application id", search, service.py:410), and it asks about a number
\* exactly if those routes would ("Out of uint64 range cannot name anything on
\* chain", service.py:441).  Addresses it asks about by their shape alone.
Refused(n) ==
    \E route \in Routes :
        Namespace(route) = n /\ LocalReply([route |-> route, term |-> term]) # None

FoundCanBeOpened ==
    /\ \A n \in Found : ~Refused(n)
    /\ Shape(term) = "numeric" /\ pc # "new" =>
          (asked # <<>> <=> ~Refused("asset") /\ ~Refused("application"))

\* "Every response carries `X-Request-ID`" (README.md:113).
EveryResponseIdentified == \A q \in Sent : response[q].id

\* Checking the checksum "catches transposition and single-character typos
\* outright" (validate_address, validation.py:62): the upstream is asked for an
\* account only by a term that is an address.
TypoCaughtByChecksum ==
    \A q \in Others :
        called[q] /\ ask[q].route = "/addresses/{address}" => "account" \in CanMatch(ask[q].term)
==============================================================================
