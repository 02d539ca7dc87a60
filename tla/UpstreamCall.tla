----------------------------- MODULE UpstreamCall -----------------------------
(***************************************************************************)
(* AlgorandClient._get and the session it runs on.  Several calls share    *)
(* one aiohttp session on one event loop; each makes up to MaxRetries      *)
(* attempts.  An attempt is several awaits long: the request goes out, a   *)
(* status line and headers come back, then a body is read, and a transport *)
(* failure or the attempt's timeout can strike before either.  Between two *)
(* attempts the call sleeps.  close() may run at any of these points.      *)
(***************************************************************************)
EXTENDS Integers, FiniteSets, SequencesExt

CONSTANTS
    Calls,           (* concurrent calls of _get                           *)
    MaxRetries,      (* MAX_RETRIES: attempts per call, the first included *)
    Timeout,         (* timeout_s: one attempt, headers and body, in ticks *)
    RetryBackoff,    (* RETRY_BACKOFF_S, per attempt made                  *)
    RetryJitter,     (* RETRY_JITTER_S                                     *)
    MaxRetryAfter,   (* MAX_RETRY_AFTER_S                                  *)
    Statuses,        (* HTTP statuses the upstream may answer with         *)
    RetryAfters,     (* Retry-After headers the upstream may send          *)
    Absent           (* the header is missing, or does not parse           *)

\* A tick is as short as one likes, so a header that parses is a whole number of
\* them.  "nan" is left out: it parses, no comparison of _parse_retry_after holds
\* of it, and how long asyncio sleeps then is for no clause of the code to say.
ASSUME CallAssumption ==
    /\ MaxRetries \in Nat \ {0}
    /\ {Timeout, RetryBackoff, RetryJitter, MaxRetryAfter} \subseteq Nat
    /\ Timeout > 0
    /\ Statuses \subseteq 200 .. 599 /\ 404 \in Statuses
    /\ RetryAfters \subseteq Int \cup {Absent}
    /\ Absent \notin Int

\* How an attempt, or a call, can end: a status, or no status at all.
NoStatus == 0        \* AlgorandError with status None: transport failure
Crash == -1          \* an exception _get does not catch (ValueError, RuntimeError)
Pending == -2        \* the call has not ended

VARIABLES
    session,         (* self._session: Nobody, the borrowed one or a number *)
    owns,            (* self._owns_session                                 *)
    open,            (* sessions not closed                                *)
    created,         (* sessions _ensure_session has created               *)
    pc,              (* where each call is                                 *)
    using,           (* the session each call captured at its start        *)
    attempt,         (* the loop counter                                   *)
    line,            (* status line of the attempt in progress, or Pending *)
    header,          (* its Retry-After header                             *)
    last,            (* the local variable last, as its status             *)
    retryAfter,      (* the local variable retry_after                     *)
    timer,           (* ticks left of the attempt's timeout or of a sleep  *)
    outcome,         (* how the call ended                                 *)
    heard,           (* history: how each attempt of the call ended        *)
    spent            (* history: ticks since the call began                *)

sessionVars == <<session, owns, open, created>>
callVars == <<pc, using, attempt, line, header, last, retryAfter, timer, outcome, heard, spent>>
vars == <<session, owns, open, created, pc, using, attempt, line, header, last,
          retryAfter, timer, outcome, heard, spent>>

Nobody == 0          \* self._session is None
Borrowed == 1        \* the session a caller passed to the constructor
Stages == {"new", "waiting", "reading", "sleeping", "done"}

Init ==
    /\ \/ session = Nobody /\ owns = TRUE /\ open = {}
       \/ session = Borrowed /\ owns = FALSE /\ open = {Borrowed}
    /\ created = 0
    /\ pc = [c \in Calls |-> "new"]
    /\ using = [c \in Calls |-> Nobody]
    /\ attempt = [c \in Calls |-> 0]
    /\ line = [c \in Calls |-> Pending]
    /\ header = [c \in Calls |-> Absent]
    /\ last = [c \in Calls |-> Pending]
    /\ retryAfter = [c \in Calls |-> Absent]
    /\ timer = [c \in Calls |-> 0]
    /\ outcome = [c \in Calls |-> Pending]
    /\ heard = [c \in Calls |-> <<>>]
    /\ spent = [c \in Calls |-> 0]

------------------------------------------------------------------------------
(* Decisions the code takes on a status, a header or an attempt number.    *)

\* AlgorandError.retryable
Retryable(status) == status = NoStatus \/ status >= 500 \/ status = 429

\* _parse_retry_after: no number and a negative number are no header at all.
ParseUnclampedMutant(value) ==
    IF value \in Int /\ value < 0 THEN Absent ELSE value
ParseRetryAfter(value) ==
    CASE value \in Int /\ value >= MaxRetryAfter -> MaxRetryAfter
      [] value \in Int /\ value \in 0 .. MaxRetryAfter - 1 -> value
      [] OTHER -> Absent

\* The pause after an attempt: the upstream's wish, or jittered backoff.
Backoffs(n) == RetryBackoff * n .. RetryBackoff * n + RetryJitter

Pauses(n, wish) == IF wish # Absent THEN {wish} ELSE Backoffs(n)

------------------------------------------------------------------------------
(* The session                                                             *)

\* _ensure_session: the session to use, created if there is none open.
EnsureForgetsOwnerMutant ==
    IF session \in open
    THEN UNCHANGED sessionVars
    ELSE /\ created' = created + 1
         /\ session' = Borrowed + created'
         /\ open' = open \cup {session'}
         /\ UNCHANGED owns

EnsureSession ==
    IF session \in open
    THEN UNCHANGED sessionVars
    ELSE /\ created' = created + 1
         /\ session' = Borrowed + created'
         /\ open' = open \cup {session'}
         /\ owns' = TRUE

\* close(): at shutdown, or at the end of an "async with" block.
Close ==
    /\ owns
    /\ session \in open
    /\ open' = open \ {session}
    /\ UNCHANGED <<session, owns, created>>
    /\ UNCHANGED callVars

\* Whoever passed a session in may close it.
OwnerCloses ==
    /\ Borrowed \in open
    /\ open' = open \ {Borrowed}
    /\ UNCHANGED <<session, owns, created>>
    /\ UNCHANGED callVars

------------------------------------------------------------------------------
(* One call                                                                *)

\* The call leaves the loop, by return or by raise.
Finish(c, result) ==
    /\ pc' = [pc EXCEPT ![c] = "done"]
    /\ outcome' = [outcome EXCEPT ![c] = result]
    /\ timer' = [timer EXCEPT ![c] = 0]
    /\ UNCHANGED <<attempt, retryAfter>>

\* The attempt failed with error: it becomes last, and the call sleeps before
\* the next attempt, or raises it.
RetryKeepsFirstMutant(c, error, wish) ==       \* raises the first failure
    /\ last' = [last EXCEPT ![c] = IF @ = Pending THEN error ELSE @]
    /\ IF attempt[c] < MaxRetries
       THEN \E pause \in Pauses(attempt[c], wish) :
               /\ pc' = [pc EXCEPT ![c] = "sleeping"]
               /\ timer' = [timer EXCEPT ![c] = pause]
               /\ retryAfter' = [retryAfter EXCEPT ![c] = wish]
               /\ UNCHANGED <<attempt, outcome>>
       ELSE Finish(c, last'[c])

RetryOrRaise(c, error, wish) ==
    /\ last' = [last EXCEPT ![c] = error]
    /\ IF attempt[c] < MaxRetries
       THEN \E pause \in Pauses(attempt[c], wish) :
               /\ pc' = [pc EXCEPT ![c] = "sleeping"]
               /\ timer' = [timer EXCEPT ![c] = pause]
               /\ retryAfter' = [retryAfter EXCEPT ![c] = wish]
               /\ UNCHANGED <<attempt, outcome>>
       ELSE Finish(c, error)

\* session.get(...): a closed session raises RuntimeError, which nothing in
\* the loop catches; an open one starts the attempt and its timeout.
Send(c, s) ==
    /\ IF s \in open'
       THEN /\ pc' = [pc EXCEPT ![c] = "waiting"]
            /\ attempt' = [attempt EXCEPT ![c] = @ + 1]
            /\ timer' = [timer EXCEPT ![c] = Timeout]
            /\ UNCHANGED <<outcome, heard>>
       ELSE /\ pc' = [pc EXCEPT ![c] = "done"]
            /\ outcome' = [outcome EXCEPT ![c] = Crash]
            /\ heard' = [heard EXCEPT ![c] = Append(@, Crash)]
            /\ timer' = [timer EXCEPT ![c] = 0]
            /\ UNCHANGED attempt

\* The call begins: the session is captured once, before the loop.
Start(c) ==
    /\ pc[c] = "new"
    /\ EnsureSession
    /\ using' = [using EXCEPT ![c] = session']
    /\ Send(c, session')
    /\ UNCHANGED <<line, header, last, retryAfter, spent>>

\* The attempt is over, ended in verdict, and its response is let go.
Over(c, verdict) ==
    /\ heard' = [heard EXCEPT ![c] = Append(@, verdict)]
    /\ line' = [line EXCEPT ![c] = Pending]
    /\ header' = [header EXCEPT ![c] = Absent]
    /\ UNCHANGED <<sessionVars, using, spent>>

\* The status line and headers arrive.  A 404 raises NotFound on the spot;
\* any other response has a body to read, and its Retry-After is looked at only
\* if the response is worth a retry.
NotFoundArrives(c) ==
    /\ pc[c] = "waiting"
    /\ Finish(c, 404)
    /\ Over(c, 404)
    /\ UNCHANGED last

ResponseArrives(c, status, value) ==
    /\ pc[c] = "waiting"
    /\ status # 404
    /\ pc' = [pc EXCEPT ![c] = "reading"]
    /\ line' = [line EXCEPT ![c] = status]
    /\ header' = [header EXCEPT ![c] = IF Retryable(status) THEN value ELSE Absent]
    /\ UNCHANGED <<sessionVars, using, attempt, last, retryAfter, timer,
                   outcome, heard, spent>>

\* resp.json() of a success is the value of the call; an error response is
\* raised if it is final, else it sets retry_after and the loop goes on.
BodyArrives(c) ==
    /\ pc[c] = "reading"
    /\ \/ /\ line[c] < 400 \/ ~Retryable(line[c])
          /\ Finish(c, line[c])
          /\ UNCHANGED last
       \/ /\ line[c] >= 400 /\ Retryable(line[c])
          /\ RetryOrRaise(c, line[c], ParseRetryAfter(header[c]))
    /\ Over(c, line[c])

\* A body that does not decode (not JSON, not text) raises a ValueError that
\* no except clause of the loop names.
BodyUndecodable(c) ==
    /\ pc[c] = "reading"
    /\ Finish(c, Crash)
    /\ Over(c, Crash)
    /\ UNCHANGED last

\* aiohttp.ClientError or asyncio.TimeoutError: before the status line, or in
\* the middle of a body, whatever the status said.  retry_after keeps its
\* value, which is None since the last sleep.
TransportFails(c) ==
    /\ pc[c] \in {"waiting", "reading"}
    /\ RetryOrRaise(c, NoStatus, retryAfter[c])
    /\ Over(c, NoStatus)

\* The sleep is over: retry_after is forgotten and the next attempt begins,
\* on the session captured at the start.
WakeKeepsHeaderMutant(c) ==        \* retry_after survives into the next attempt
    /\ pc[c] = "sleeping"
    /\ timer[c] = 0
    /\ UNCHANGED <<sessionVars, retryAfter>>
    /\ Send(c, using[c])
    /\ UNCHANGED <<using, line, header, last, spent>>

WakeWaitsMutant(c) ==             \* waits for the session to be open
    /\ pc[c] = "sleeping"
    /\ timer[c] = 0
    /\ using[c] \in open
    /\ retryAfter' = [retryAfter EXCEPT ![c] = Absent]
    /\ UNCHANGED sessionVars
    /\ Send(c, using[c])
    /\ UNCHANGED <<using, line, header, last, spent>>

Wake(c) ==
    /\ pc[c] = "sleeping"
    /\ timer[c] = 0
    /\ retryAfter' = [retryAfter EXCEPT ![c] = Absent]
    /\ UNCHANGED sessionVars
    /\ Send(c, using[c])
    /\ UNCHANGED <<using, line, header, last, spent>>

\* A timer that has run out is acted upon before time goes on.
Running(c) == pc[c] \in {"waiting", "reading", "sleeping"}

Tick ==
    /\ \E c \in Calls : Running(c)
    /\ \A c \in Calls : Running(c) => timer[c] # 0
    /\ timer' = [c \in Calls |-> IF Running(c) THEN timer[c] - 1 ELSE timer[c]]
    /\ spent' = [c \in Calls |-> IF Running(c) THEN spent[c] + 1 ELSE spent[c]]
    /\ UNCHANGED <<sessionVars, pc, using, attempt, line, header, last,
                   retryAfter, outcome, heard>>

Next ==
    \/ \E c \in Calls :
          \/ Start(c)
          \/ NotFoundArrives(c)
          \/ \E status \in Statuses, value \in RetryAfters : ResponseArrives(c, status, value)
          \/ BodyArrives(c)
          \/ BodyUndecodable(c)
          \/ TransportFails(c)
          \/ Wake(c)
    \/ Close
    \/ OwnerCloses
    \/ Tick

Spec == Init /\ [][Next]_vars

\* The event loop runs timers that are due; nothing else is promised, least of
\* all that an upstream ever answers.
TimesOut(c) == timer[c] = 0 /\ TransportFails(c)

FairSpec ==
    /\ Spec
    /\ WF_vars(Tick)
    /\ \A c \in Calls : WF_vars(TimesOut(c)) /\ WF_vars(Wake(c))

------------------------------------------------------------------------------
Outcomes == Statuses \cup {NoStatus, Crash, Pending}

(* Type invariant.                                                         *)
TypeOK ==
    /\ session \in Nat /\ owns \in BOOLEAN /\ open \subseteq Nat /\ created \in Nat
    /\ pc \in [Calls -> Stages]
    /\ using \in [Calls -> Nat]
    /\ attempt \in [Calls -> 0 .. MaxRetries]
    /\ line \in [Calls -> Statuses \cup {Pending}]
    /\ header \in [Calls -> RetryAfters \cup {Absent}]
    /\ last \in [Calls -> Outcomes]
    /\ retryAfter \in [Calls -> Nat \cup {Absent}]
    /\ timer \in [Calls -> Nat]
    /\ outcome \in [Calls -> Outcomes]
    /\ heard \in [Calls -> Seq(Outcomes)]
    /\ spent \in [Calls -> Nat]

\* A call reports what its last attempt met and nothing earlier; everything
\* before was worth retrying (no answer, 5xx or 429), and it reports such a
\* failure only after MaxRetries attempts ("Every call retries 5xx three times
\* ... never retries 4xx - except 429", client.py:13-15).  An answer whose body
\* was lost is no answer, a 400 neither (client.py:218).
WorthRetrying(verdict) == verdict \in {NoStatus, 429} \cup 500 .. 599

HonestOutcome ==
    \A c \in Calls : pc[c] = "done" =>
        /\ heard[c] # <<>>
        /\ outcome[c] = Last(heard[c])
        /\ \A v \in ToSet(Front(heard[c])) : WorthRetrying(v)
        /\ WorthRetrying(outcome[c]) => Len(heard[c]) = MaxRetries

\* The pause before a retry is the one the answer just received asks for, or
\* backoff: a Retry-After never outlives its own answer (client.py:232).
PauseFromThisAnswer ==
    [][\A c \in Calls :
          pc[c] # "sleeping" /\ pc'[c] = "sleeping" =>
             timer'[c] \in Pauses(attempt[c],
                 IF Last(heard'[c]) = NoStatus THEN Absent ELSE ParseRetryAfter(header[c]))
      ]_vars

\* Whether the upstream answers or not, and whatever number its Retry-After is, a
\* caller waits at most MaxRetries timeouts and the pauses between them ("Cap on
\* how long an upstream `Retry-After` may park a request", client.py:55).
LongestPause ==
    IF MaxRetryAfter >= RetryBackoff * (MaxRetries - 1) + RetryJitter
    THEN MaxRetryAfter ELSE RetryBackoff * (MaxRetries - 1) + RetryJitter

BoundedCall ==
    \A c \in Calls :
        spent[c] <= MaxRetries * Timeout + (MaxRetries - 1) * LongestPause

\* Whatever the client created and has not closed is the session close() will
\* close, so shutdown leaks none; and a borrowed session is never the client's
\* to close, even after it was replaced.
SessionOwnership ==
    /\ \A s \in open : s # Borrowed => s = session /\ owns
    /\ session = Borrowed => ~owns

\* Calls end even if no upstream ever answers and whoever closes sessions:
\* again and again there is a moment when none is under way.
CallsEnd == []<>(\A c \in Calls : ~Running(c))
==============================================================================
