-------------------------- MODULE UpstreamCallProofs --------------------------
(***************************************************************************)
(* What a call of _get promises, for any number of concurrent calls,       *)
(* attempts, statuses and headers and whatever the times are: it ends      *)
(* honestly, within its budget of timeouts and pauses, each pause is asked *)
(* for by the answer it follows, and no session leaks.                     *)
(*                                                                         *)
(* The inductive invariant gives each call a budget: after n attempts and  *)
(* m pauses it has spent, with what its timer may still run, no more than  *)
(* n timeouts and m of the longest pauses.                                 *)
(***************************************************************************)
EXTENDS UpstreamCall, TLAPS

\* What the proofs use of the constants.
LEMMA TimesNat ==
    /\ MaxRetries \in Nat /\ MaxRetries >= 1 /\ MaxRetries - 1 \in Nat
    /\ Timeout \in Nat /\ RetryBackoff \in Nat /\ RetryJitter \in Nat /\ MaxRetryAfter \in Nat
BY CallAssumption

LEMMA StatusesOk == Statuses \subseteq 200 .. 599 /\ 404 \in Statuses /\ NoStatus \notin Statuses
BY CallAssumption DEF NoStatus

LEMMA HeadersOk == RetryAfters \subseteq Int \cup {Absent} /\ Absent \notin Int
BY CallAssumption

Budget(n, m) == n * Timeout + m * LongestPause

\* A Retry-After a call may wait for.
Wishes == (0 .. MaxRetryAfter) \cup {Absent}

\* Where a call is decides how many attempts and pauses it is entitled to, and
\* what it has heard: so far only failures worth another attempt.
OnlyRetried(c) == \A i \in DOMAIN heard[c] : WorthRetrying(heard[c][i])

NewCall(c) == attempt[c] = 0 /\ spent[c] = 0 /\ retryAfter[c] = Absent /\ heard[c] = <<>>

OpenCall(c) ==
    /\ attempt[c] \in 1 .. MaxRetries
    /\ retryAfter[c] = Absent
    /\ spent[c] + timer[c] <= Budget(attempt[c], attempt[c] - 1)
    /\ Len(heard[c]) = attempt[c] - 1 /\ OnlyRetried(c)

ReadingCall(c) == line[c] \in Statuses /\ line[c] # 404

SleepingCall(c) ==
    /\ attempt[c] \in 1 .. MaxRetries - 1
    /\ spent[c] + timer[c] <= Budget(attempt[c], attempt[c])
    /\ Len(heard[c]) = attempt[c] /\ OnlyRetried(c)

EndedCall(c) ==
    /\ spent[c] <= Budget(MaxRetries, MaxRetries - 1)
    /\ Len(heard[c]) > 0
    /\ outcome[c] = heard[c][Len(heard[c])]
    /\ \A i \in 1 .. Len(heard[c]) - 1 : WorthRetrying(heard[c][i])
    /\ WorthRetrying(outcome[c]) => Len(heard[c]) = MaxRetries

CallInv(c) ==
    /\ pc[c] = "new" => NewCall(c)
    /\ pc[c] \in {"waiting", "reading"} => OpenCall(c)
    /\ pc[c] = "reading" => ReadingCall(c)
    /\ pc[c] = "sleeping" => SleepingCall(c)
    /\ pc[c] = "done" => EndedCall(c)

IInv ==
    /\ TypeOK
    /\ retryAfter \in [Calls -> Wishes]
    /\ SessionOwnership
    /\ \A c \in Calls : CallInv(c)

------------------------------------------------------------------------------
(* Arithmetic of budgets and pauses.                                       *)

LEMMA TimesOk ==
    ASSUME NEW a \in Nat, NEW b \in Nat, NEW k \in Nat, a <= b
    PROVE  a * k <= b * k /\ a * k \in Nat /\ (a + 1) * k = a * k + k
OBVIOUS

LEMMA LongestPauseOk ==
    /\ LongestPause \in Nat
    /\ MaxRetryAfter <= LongestPause
    /\ \A n \in 1 .. MaxRetries - 1 : RetryBackoff * n + RetryJitter <= LongestPause
<1>1. RetryBackoff * (MaxRetries - 1) \in Nat
  BY TimesNat, TimesOk
<1>2. \A n \in 1 .. MaxRetries - 1 : RetryBackoff * n <= RetryBackoff * (MaxRetries - 1)
  BY TimesNat, TimesOk
<1>3. \A n \in 1 .. MaxRetries - 1 : RetryBackoff * n \in Nat
  BY TimesNat, TimesOk
<1>4. QED
  BY TimesNat, <1>1, <1>2, <1>3 DEF LongestPause

\* No pause is longer than the longest.
LEMMA PauseOk ==
    ASSUME NEW n \in 1 .. MaxRetries - 1, NEW wish \in Wishes, NEW pause \in Pauses(n, wish)
    PROVE  pause \in Nat /\ pause <= LongestPause
<1>1. CASE wish # Absent
  BY TimesNat, <1>1, LongestPauseOk DEF Pauses, Wishes
<1>2. CASE wish = Absent
  <2>1. RetryBackoff * n \in Nat
    BY TimesNat, TimesOk
  <2>2. pause \in RetryBackoff * n .. RetryBackoff * n + RetryJitter
    BY <1>2 DEF Pauses, Backoffs
  <2>3. QED
    BY TimesNat, <2>1, <2>2, LongestPauseOk
<1>3. QED
  BY <1>1, <1>2

LEMMA BudgetOk ==
    ASSUME NEW n \in Nat, NEW m \in Nat
    PROVE  /\ Budget(n, m) \in Nat
           /\ Budget(n + 1, m) = Budget(n, m) + Timeout
           /\ Budget(n, m + 1) = Budget(n, m) + LongestPause
<1>1. LongestPause \in Nat
  BY LongestPauseOk
<1>2. /\ n * Timeout \in Nat /\ (n + 1) * Timeout = n * Timeout + Timeout
      /\ m * LongestPause \in Nat /\ (m + 1) * LongestPause = m * LongestPause + LongestPause
  BY TimesNat, <1>1, TimesOk
<1>3. QED
  BY TimesNat, <1>1, <1>2 DEF Budget

LEMMA BudgetGrows ==
    ASSUME NEW n \in Nat, NEW m \in Nat, NEW nn \in Nat, NEW mm \in Nat, n <= nn, m <= mm
    PROVE  Budget(n, m) <= Budget(nn, mm)
<1>1. LongestPause \in Nat
  BY LongestPauseOk
<1>2. n * Timeout <= nn * Timeout /\ n * Timeout \in Nat /\ nn * Timeout \in Nat
  BY TimesNat, TimesOk
<1>3. /\ m * LongestPause <= mm * LongestPause
      /\ m * LongestPause \in Nat /\ mm * LongestPause \in Nat
  BY <1>1, TimesOk
<1>4. \A a, b, k, l \in Nat : a <= k /\ b <= l => a + b <= k + l
  OBVIOUS
<1>5. QED
  BY <1>2, <1>3, <1>4, Zenon DEF Budget

LEMMA ParseOk == \A value \in RetryAfters \cup {Absent} : ParseRetryAfter(value) \in Wishes
BY TimesNat, HeadersOk DEF ParseRetryAfter, Wishes

\* Only these verdicts of a response are worth another attempt.
LEMMA RetryableOk ==
    \A status \in Statuses :
        /\ status >= 400 /\ Retryable(status) => WorthRetrying(status)
        /\ status < 400 \/ ~Retryable(status) => ~WorthRetrying(status)
BY StatusesOk DEF WorthRetrying, Retryable, NoStatus

------------------------------------------------------------------------------
\* A step of one call leaves the others as they are.
LEMMA OthersKeep ==
    ASSUME NEW c \in Calls, NEW d \in Calls, CallInv(d),
           pc'[d] = pc[d], attempt'[d] = attempt[d], spent'[d] = spent[d],
           retryAfter'[d] = retryAfter[d], heard'[d] = heard[d], timer'[d] = timer[d],
           line'[d] = line[d], outcome'[d] = outcome[d]
    PROVE  CallInv(d)'
BY DEF CallInv, NewCall, OpenCall, ReadingCall, SleepingCall, EndedCall, OnlyRetried

\* The types of a call's variables, apart from the session's.
CallTypes ==
    /\ pc \in [Calls -> Stages]
    /\ attempt \in [Calls -> 0 .. MaxRetries]
    /\ line \in [Calls -> Statuses \cup {Pending}]
    /\ header \in [Calls -> RetryAfters \cup {Absent}]
    /\ last \in [Calls -> Outcomes]
    /\ retryAfter \in [Calls -> Wishes]
    /\ timer \in [Calls -> Nat]
    /\ outcome \in [Calls -> Outcomes]
    /\ heard \in [Calls -> Seq(Outcomes)]
    /\ spent \in [Calls -> Nat]

SessionTypes ==
    /\ session \in Nat /\ owns \in BOOLEAN /\ open \subseteq Nat /\ created \in Nat
    /\ using \in [Calls -> Nat]

LEMMA TypesOk == (TypeOK /\ retryAfter \in [Calls -> Wishes]) <=> (CallTypes /\ SessionTypes)
<1>1. ASSUME retryAfter \in [Calls -> Wishes] PROVE retryAfter \in [Calls -> Nat \cup {Absent}]
  <2>1. Wishes \subseteq Nat \cup {Absent}
    BY DEF Wishes
  <2>2. QED
    BY <1>1, <2>1
<1>2. QED
  BY <1>1, Zenon DEF TypeOK, CallTypes, SessionTypes

LEMMA TypesOkNext ==
    CallTypes' /\ SessionTypes' => TypeOK' /\ (retryAfter \in [Calls -> Wishes])'
BY TypesOk, PTL

LEMMA InitInv == Init => IInv
<1>1. SUFFICES ASSUME Init PROVE IInv
  OBVIOUS
<1>2. SessionTypes
  <2>1. owns \in BOOLEAN
    BY <1>1, Zenon DEF Init
  <2>2. session \in Nat /\ open \subseteq Nat
    BY <1>1 DEF Init, Nobody, Borrowed
  <2>3. created \in Nat /\ using \in [Calls -> Nat]
    BY <1>1 DEF Init, Nobody
  <2>4. QED
    BY <2>1, <2>2, <2>3 DEF SessionTypes
<1>3. CallTypes
  BY TimesNat, <1>1 DEF Init, CallTypes, Stages, Outcomes, Wishes
<1>4. SessionOwnership
  BY <1>1 DEF Init, SessionOwnership, Nobody, Borrowed
<1>5. \A c \in Calls : CallInv(c)
  BY <1>1 DEF Init, CallInv, NewCall
<1>6. QED
  BY <1>2, <1>3, <1>4, <1>5, TypesOk DEF IInv

------------------------------------------------------------------------------
(* What a step does to the call that takes it.                             *)

\* EnsureSession keeps the one session the client may have open its own.
LEMMA EnsureOk ==
    ASSUME SessionTypes, SessionOwnership, EnsureSession
    PROVE  /\ SessionOwnership'
           /\ session' \in Nat /\ owns' \in BOOLEAN /\ open' \subseteq Nat /\ created' \in Nat
<1>1. CASE session \in open
  BY <1>1 DEF EnsureSession, sessionVars, SessionTypes, SessionOwnership
<1>2. CASE session \notin open
  <2>1. /\ session' \in Nat /\ session' > Borrowed /\ open' = open \cup {session'}
        /\ owns' = TRUE /\ created' \in Nat
    BY <1>2 DEF EnsureSession, SessionTypes, Borrowed
  <2>2. open \subseteq {Borrowed}
    BY <1>2 DEF SessionOwnership
  <2>3. QED
    BY <2>1, <2>2 DEF SessionOwnership, SessionTypes, Borrowed
<1>3. QED
  BY <1>1, <1>2

\* An attempt begins, or a closed session ends the call.
LEMMA SendOk ==
    ASSUME CallTypes, NEW c \in Calls, NEW s, Send(c, s),
           NEW m \in Nat, m = attempt[c], m < MaxRetries,
           spent[c] <= Budget(m, m), Len(heard[c]) = m, OnlyRetried(c),
           retryAfter'[c] = Absent, retryAfter' \in [Calls -> Wishes],
           UNCHANGED <<line, header, last, spent>>
    PROVE  CallTypes' /\ CallInv(c)'
<1>1. CASE s \in open'
  <2>1. /\ pc' = [pc EXCEPT ![c] = "waiting"] /\ attempt' = [attempt EXCEPT ![c] = m + 1]
        /\ timer' = [timer EXCEPT ![c] = Timeout] /\ UNCHANGED <<outcome, heard>>
    BY <1>1 DEF Send, CallTypes
  <2>2. CallTypes'
    BY TimesNat, <2>1 DEF CallTypes, Stages
  <2>3. spent'[c] + timer'[c] <= Budget(m + 1, m)
    <3>1. Budget(m, m) \in Nat /\ Budget(m + 1, m) = Budget(m, m) + Timeout
      BY BudgetOk
    <3>2. spent'[c] = spent[c] /\ spent[c] \in Nat /\ timer'[c] = Timeout
      BY <2>1 DEF CallTypes
    <3>3. QED
      BY TimesNat, <3>1, <3>2
  <2>4. OpenCall(c)'
    BY TimesNat, <2>1, <2>3 DEF OpenCall, OnlyRetried, CallTypes
  <2>5. pc'[c] = "waiting"
    BY <2>1 DEF CallTypes
  <2>6. QED
    BY <2>2, <2>4, <2>5 DEF CallInv
<1>2. CASE s \notin open'
  <2>1. /\ pc' = [pc EXCEPT ![c] = "done"] /\ outcome' = [outcome EXCEPT ![c] = Crash]
        /\ heard' = [heard EXCEPT ![c] = Append(@, Crash)]
        /\ timer' = [timer EXCEPT ![c] = 0] /\ attempt' = attempt
    BY <1>2 DEF Send
  <2>2. CallTypes'
    BY <2>1 DEF CallTypes, Stages, Outcomes
  <2>3. spent'[c] <= Budget(MaxRetries, MaxRetries - 1)
    <3>a. Budget(m, m) \in Nat
      BY BudgetOk
    <3>b. MaxRetries - 1 \in Nat /\ MaxRetries \in Nat
      BY TimesNat
    <3>1. Budget(MaxRetries, MaxRetries - 1) \in Nat
      BY <3>b, BudgetOk
    <3>2. Budget(m, m) <= Budget(MaxRetries, MaxRetries - 1)
      BY <3>b, BudgetGrows
    <3>3. spent'[c] = spent[c] /\ spent[c] \in Nat
      BY DEF CallTypes
    <3>4. QED
      BY <3>a, <3>1, <3>2, <3>3
  <2>4. /\ heard'[c] = Append(heard[c], Crash) /\ outcome'[c] = Crash /\ pc'[c] = "done"
        /\ heard[c] \in Seq(Outcomes)
    BY <2>1 DEF CallTypes
  <2>5. ~WorthRetrying(Crash)
    BY DEF WorthRetrying, Crash, NoStatus
  <2>6. EndedCall(c)'
    BY <2>3, <2>4, <2>5 DEF EndedCall, OnlyRetried
  <2>7. QED
    BY <2>2, <2>4, <2>6 DEF CallInv
<1>3. QED
  BY <1>1, <1>2

\* The call ends with what the attempt that is over met.
LEMMA FinishOk ==
    ASSUME CallTypes, NEW c \in Calls, NEW v \in Outcomes, Finish(c, v), OpenCall(c),
           heard' = [heard EXCEPT ![c] = Append(@, v)],
           WorthRetrying(v) => attempt[c] = MaxRetries,
           last' \in [Calls -> Outcomes], line' \in [Calls -> Statuses \cup {Pending}],
           header' \in [Calls -> RetryAfters \cup {Absent}], UNCHANGED spent
    PROVE  CallTypes' /\ CallInv(c)'
<1>1. CallTypes'
  <2>1. heard' \in [Calls -> Seq(Outcomes)]
    BY DEF CallTypes
  <2>2. QED
    BY <2>1 DEF Finish, CallTypes, Stages
<1>2. /\ pc'[c] = "done" /\ outcome'[c] = v /\ heard'[c] = Append(heard[c], v)
      /\ heard[c] \in Seq(Outcomes) /\ spent'[c] = spent[c] /\ spent[c] \in Nat
      /\ timer[c] \in Nat
  BY DEF Finish, CallTypes
<1>3. DEFINE n == attempt[c]
<1>4. n \in Nat /\ n >= 1 /\ n <= MaxRetries /\ n - 1 \in Nat /\ MaxRetries - 1 \in Nat
      /\ MaxRetries \in Nat
  BY TimesNat DEF OpenCall
<1>5. spent'[c] <= Budget(MaxRetries, MaxRetries - 1)
  <2>1. Budget(n, n - 1) <= Budget(MaxRetries, MaxRetries - 1)
    BY <1>4, BudgetGrows
  <2>2. Budget(n, n - 1) \in Nat
    BY <1>4, BudgetOk
  <2>3. Budget(MaxRetries, MaxRetries - 1) \in Nat
    BY <1>4, BudgetOk
  <2>4. spent[c] + timer[c] <= Budget(n, n - 1)
    BY DEF OpenCall
  <2>5. QED
    BY <1>2, <2>1, <2>2, <2>3, <2>4
<1>6. Len(heard[c]) = n - 1 /\ OnlyRetried(c)
  BY DEF OpenCall
<1>7. EndedCall(c)'
  BY <1>2, <1>4, <1>5, <1>6 DEF EndedCall, OnlyRetried
<1>8. QED
  BY <1>1, <1>2, <1>7 DEF CallInv

\* The attempt that is over failed: the call sleeps or ends.
LEMMA RetryOk ==
    ASSUME CallTypes, NEW c \in Calls, NEW v \in Outcomes, NEW wish \in Wishes,
           RetryOrRaise(c, v, wish), OpenCall(c), WorthRetrying(v),
           heard' = [heard EXCEPT ![c] = Append(@, v)],
           line' \in [Calls -> Statuses \cup {Pending}],
           header' \in [Calls -> RetryAfters \cup {Absent}], UNCHANGED spent
    PROVE  CallTypes' /\ CallInv(c)'
<1>1. last' \in [Calls -> Outcomes]
  BY DEF RetryOrRaise, CallTypes
<1>2. CASE ~(attempt[c] < MaxRetries)
  <2>1. Finish(c, v)
    BY <1>2 DEF RetryOrRaise
  <2>2. attempt[c] = MaxRetries
    BY TimesNat, <1>2 DEF OpenCall
  <2>3. QED
    BY <1>1, <2>1, <2>2, FinishOk
<1>3. CASE attempt[c] < MaxRetries
  <2>1. PICK pause \in Pauses(attempt[c], wish) :
           /\ pc' = [pc EXCEPT ![c] = "sleeping"]
           /\ timer' = [timer EXCEPT ![c] = pause]
           /\ retryAfter' = [retryAfter EXCEPT ![c] = wish]
           /\ UNCHANGED <<attempt, outcome>>
    BY <1>3 DEF RetryOrRaise
  <2>2. DEFINE n == attempt[c]
  <2>3. n \in Nat /\ n \in 1 .. MaxRetries - 1 /\ n - 1 \in Nat
    BY TimesNat, <1>3 DEF OpenCall
  <2>4. pause \in Nat /\ pause <= LongestPause
    BY <2>1, <2>3, PauseOk
  <2>5. CallTypes'
    BY <1>1, <2>1, <2>4 DEF CallTypes, Stages
  <2>6. /\ spent'[c] = spent[c] /\ timer'[c] = pause /\ attempt'[c] = n /\ pc'[c] = "sleeping"
        /\ heard'[c] = Append(heard[c], v) /\ heard[c] \in Seq(Outcomes)
        /\ spent[c] \in Nat /\ timer[c] \in Nat
    BY <2>1 DEF CallTypes
  <2>7. spent'[c] + timer'[c] <= Budget(n, n)
    <3>1. Budget(n, n - 1) \in Nat /\ Budget(n, (n - 1) + 1) = Budget(n, n - 1) + LongestPause
      BY <2>3, BudgetOk
    <3>2. (n - 1) + 1 = n
      BY <2>3
    <3>3. spent[c] + timer[c] <= Budget(n, n - 1)
      BY DEF OpenCall
    <3>4. QED
      BY <2>4, <2>6, <3>1, <3>2, <3>3, LongestPauseOk
  <2>8. Len(heard[c]) = n - 1 /\ OnlyRetried(c)
    BY DEF OpenCall
  <2>9. SleepingCall(c)'
    BY <2>3, <2>6, <2>7, <2>8 DEF SleepingCall, OnlyRetried
  <2>10. QED
    BY <2>5, <2>6, <2>9 DEF CallInv
<1>4. QED
  BY <1>2, <1>3

------------------------------------------------------------------------------
(* Steps.                                                                  *)

\* What a step of call c changes, at most, of the other calls: nothing.
Touches(c) ==
    \A d \in Calls \ {c} :
        /\ pc'[d] = pc[d] /\ attempt'[d] = attempt[d] /\ spent'[d] = spent[d]
        /\ retryAfter'[d] = retryAfter[d] /\ heard'[d] = heard[d] /\ timer'[d] = timer[d]
        /\ line'[d] = line[d] /\ outcome'[d] = outcome[d]

LEMMA SendTouches ==
    ASSUME CallTypes, NEW c \in Calls, NEW s, Send(c, s), UNCHANGED <<line, spent>>,
           \/ UNCHANGED retryAfter
           \/ retryAfter' = [retryAfter EXCEPT ![c] = Absent]
    PROVE  Touches(c)
BY DEF Send, Touches, CallTypes

LEMMA FinishTouches ==
    ASSUME CallTypes, NEW c \in Calls, NEW v, NEW x, Finish(c, v), Over(c, x)
    PROVE  Touches(c)
BY DEF Finish, Over, Touches, CallTypes

LEMMA RetryTouches ==
    ASSUME CallTypes, NEW c \in Calls, NEW v, NEW w, NEW x, RetryOrRaise(c, v, w), Over(c, x)
    PROVE  Touches(c)
<1>1. CASE attempt[c] < MaxRetries
  BY <1>1 DEF RetryOrRaise, Over, Touches, CallTypes
<1>2. CASE ~(attempt[c] < MaxRetries)
  BY <1>2, FinishTouches DEF RetryOrRaise
<1>3. QED
  BY <1>1, <1>2

\* Such a step keeps the invariant if it does so for its own call.
LEMMA StepOk ==
    ASSUME IInv, NEW c \in Calls, Touches(c), CallTypes', CallInv(c)', SessionTypes',
           SessionOwnership'
    PROVE  IInv'
<1>1. ASSUME NEW d \in Calls PROVE CallInv(d)'
  <2>1. CASE d = c
    BY <2>1
  <2>2. CASE d # c
    BY <2>2, OthersKeep DEF IInv, Touches
  <2>3. QED
    BY <2>1, <2>2
<1>2. TypeOK' /\ (retryAfter \in [Calls -> Wishes])'
  BY TypesOkNext
<1>3. QED
  BY <1>1, <1>2 DEF IInv

LEMMA SameSession ==
    ASSUME SessionTypes, SessionOwnership, UNCHANGED <<sessionVars, using>>
    PROVE  SessionTypes' /\ SessionOwnership'
BY DEF SessionTypes, SessionOwnership, sessionVars

LEMMA StartStep == ASSUME IInv, NEW c \in Calls, Start(c) PROVE IInv'
<1>1. CallTypes /\ SessionTypes /\ SessionOwnership /\ CallInv(c)
  BY TypesOk DEF IInv
<1>2. /\ pc[c] = "new" /\ EnsureSession /\ using' = [using EXCEPT ![c] = session']
      /\ Send(c, session') /\ UNCHANGED <<line, header, last, retryAfter, spent>>
  BY DEF Start
<1>3. SessionTypes' /\ SessionOwnership'
  BY <1>1, <1>2, EnsureOk DEF SessionTypes
<1>4. NewCall(c)
  BY <1>1, <1>2 DEF CallInv
<1>5. Budget(0, 0) \in Nat
  BY BudgetOk
<1>6. CallTypes' /\ CallInv(c)'
  <2>1. /\ attempt[c] = 0 /\ spent[c] <= Budget(0, 0) /\ Len(heard[c]) = 0 /\ OnlyRetried(c)
        /\ retryAfter'[c] = Absent /\ retryAfter' \in [Calls -> Wishes]
    BY <1>1, <1>2, <1>4, <1>5 DEF NewCall, OnlyRetried, CallTypes
  <2>2. 0 \in Nat /\ 0 < MaxRetries
    BY TimesNat
  <2>3. QED
    BY <1>1, <1>2, <2>1, <2>2, SendOk
<1>7. Touches(c)
  BY <1>1, <1>2, SendTouches
<1>8. QED
  BY <1>3, <1>6, <1>7, StepOk

LEMMA WakeStep == ASSUME IInv, NEW c \in Calls, Wake(c) PROVE IInv'
<1>1. CallTypes /\ SessionTypes /\ SessionOwnership /\ CallInv(c)
  BY TypesOk DEF IInv
<1>2. /\ pc[c] = "sleeping" /\ timer[c] = 0 /\ Send(c, using[c])
      /\ retryAfter' = [retryAfter EXCEPT ![c] = Absent]
      /\ UNCHANGED <<sessionVars, using>> /\ UNCHANGED <<line, header, last, spent>>
  BY DEF Wake
<1>3. SleepingCall(c)
  BY <1>1, <1>2 DEF CallInv
<1>4. CallTypes' /\ CallInv(c)'
  <2>1. DEFINE m == attempt[c]
  <2>2. /\ m \in Nat /\ m < MaxRetries /\ Len(heard[c]) = m /\ OnlyRetried(c)
        /\ spent[c] <= Budget(m, m)
    BY TimesNat, <1>1, <1>2, <1>3 DEF SleepingCall, CallTypes
  <2>3. retryAfter'[c] = Absent /\ retryAfter' \in [Calls -> Wishes]
    BY <1>1, <1>2 DEF CallTypes, Wishes
  <2>4. QED
    BY <1>1, <1>2, <2>2, <2>3, SendOk
<1>5. Touches(c)
  BY <1>1, <1>2, SendTouches
<1>6. SessionTypes' /\ SessionOwnership'
  BY <1>1, <1>2, SameSession
<1>7. QED
  BY <1>4, <1>5, <1>6, StepOk

\* An attempt is over: what the steps that end one have in common.
LEMMA OverOk ==
    ASSUME CallTypes, SessionTypes, SessionOwnership, NEW c \in Calls, NEW x, Over(c, x)
    PROVE  /\ heard' = [heard EXCEPT ![c] = Append(@, x)]
           /\ line' \in [Calls -> Statuses \cup {Pending}]
           /\ header' \in [Calls -> RetryAfters \cup {Absent}]
           /\ UNCHANGED spent
           /\ SessionTypes' /\ SessionOwnership'
<1>1. UNCHANGED <<sessionVars, using>>
  BY DEF Over
<1>2. QED
  BY <1>1, SameSession DEF Over, CallTypes

LEMMA FinalStep ==
    ASSUME IInv, NEW c \in Calls, NEW v \in Outcomes, Finish(c, v), Over(c, v),
           UNCHANGED last, pc[c] \in {"waiting", "reading"}, ~WorthRetrying(v)
    PROVE  IInv'
<1>1. CallTypes /\ SessionTypes /\ SessionOwnership /\ OpenCall(c)
  BY TypesOk DEF IInv, CallInv
<1>2. last' \in [Calls -> Outcomes]
  BY <1>1 DEF CallTypes
<1>3. CallTypes' /\ CallInv(c)'
  BY <1>1, <1>2, OverOk, FinishOk
<1>4. QED
  BY <1>1, <1>3, OverOk, FinishTouches, StepOk

LEMMA FailedStep ==
    ASSUME IInv, NEW c \in Calls, NEW v \in Outcomes, NEW wish \in Wishes,
           RetryOrRaise(c, v, wish), Over(c, v),
           pc[c] \in {"waiting", "reading"}, WorthRetrying(v)
    PROVE  IInv'
<1>1. CallTypes /\ SessionTypes /\ SessionOwnership /\ OpenCall(c)
  BY TypesOk DEF IInv, CallInv
<1>2. CallTypes' /\ CallInv(c)'
  BY <1>1, OverOk, RetryOk
<1>3. QED
  BY <1>1, <1>2, OverOk, RetryTouches, StepOk

LEMMA ResponseStep ==
    ASSUME IInv, NEW c \in Calls, NEW status \in Statuses, NEW value \in RetryAfters,
           ResponseArrives(c, status, value)
    PROVE  IInv'
<1>1. CallTypes /\ SessionTypes /\ SessionOwnership /\ CallInv(c)
  BY TypesOk DEF IInv
<1>2. CallTypes' /\ Touches(c)
  BY <1>1 DEF ResponseArrives, CallTypes, Stages, Touches
<1>3. OpenCall(c)
  BY <1>1 DEF ResponseArrives, CallInv
<1>4. OpenCall(c)' /\ ReadingCall(c)' /\ pc'[c] = "reading"
  BY <1>1, <1>3 DEF ResponseArrives, OpenCall, ReadingCall, OnlyRetried, CallTypes
<1>5. CallInv(c)'
  BY <1>4 DEF CallInv
<1>6. SessionTypes' /\ SessionOwnership'
  BY <1>1, SameSession DEF ResponseArrives
<1>7. QED
  BY <1>2, <1>5, <1>6, StepOk

LEMMA BodyStep == ASSUME IInv, NEW c \in Calls, BodyArrives(c) PROVE IInv'
<1>1. CallTypes /\ ReadingCall(c) /\ pc[c] = "reading" /\ Over(c, line[c])
  BY TypesOk DEF IInv, CallInv, BodyArrives
<1>2. line[c] \in Statuses /\ line[c] \in Outcomes
  BY <1>1 DEF ReadingCall, Outcomes
<1>3. CASE (line[c] < 400 \/ ~Retryable(line[c])) /\ Finish(c, line[c]) /\ UNCHANGED last
  <2>1. ~WorthRetrying(line[c])
    BY <1>2, <1>3, RetryableOk, Zenon
  <2>2. QED
    BY <1>1, <1>2, <1>3, <2>1, FinalStep
<1>4. CASE /\ line[c] >= 400 /\ Retryable(line[c])
           /\ RetryOrRaise(c, line[c], ParseRetryAfter(header[c]))
  <2>1. WorthRetrying(line[c])
    BY <1>2, <1>4, RetryableOk, Zenon
  <2>2. ParseRetryAfter(header[c]) \in Wishes
    BY <1>1, ParseOk DEF CallTypes
  <2>3. QED
    BY <1>1, <1>2, <1>4, <2>1, <2>2, FailedStep
<1>5. QED
  BY <1>3, <1>4 DEF BodyArrives

LEMMA TickStep == ASSUME IInv, Tick PROVE IInv'
<1>1. CallTypes /\ SessionTypes /\ SessionOwnership
  BY TypesOk DEF IInv
<1>2. CallTypes'
  <2>1. timer' \in [Calls -> Nat]
    <3>1. \A c \in Calls : timer[c] \in Nat /\ (Running(c) => timer[c] - 1 \in Nat)
      BY <1>1 DEF Tick, CallTypes
    <3>2. timer' = [c \in Calls |-> IF Running(c) THEN timer[c] - 1 ELSE timer[c]]
      BY DEF Tick
    <3>3. QED
      BY <3>1, <3>2
  <2>2. spent' \in [Calls -> Nat]
    BY <1>1 DEF Tick, CallTypes
  <2>3. QED
    BY <1>1, <2>1, <2>2 DEF Tick, CallTypes
<1>3. ASSUME NEW c \in Calls PROVE CallInv(c)'
  <2>1. /\ pc'[c] = pc[c] /\ attempt'[c] = attempt[c] /\ retryAfter'[c] = retryAfter[c]
        /\ heard'[c] = heard[c] /\ line'[c] = line[c] /\ outcome'[c] = outcome[c]
    BY DEF Tick
  <2>2. CallInv(c)
    BY DEF IInv
  <2>3. CASE Running(c)
    <3>1. spent'[c] + timer'[c] = spent[c] + timer[c]
      BY <1>1, <2>3 DEF Tick, CallTypes
    <3>2. pc[c] \in {"waiting", "reading", "sleeping"}
      BY <2>3 DEF Running
    <3>3. QED
      BY <2>1, <2>2, <3>1, <3>2
         DEF CallInv, OpenCall, ReadingCall, SleepingCall, OnlyRetried
  <2>4. CASE ~Running(c)
    <3>1. spent'[c] = spent[c] /\ timer'[c] = timer[c]
      BY <1>1, <2>4 DEF Tick, CallTypes
    <3>2. QED
      BY <2>1, <2>2, <3>1, OthersKeep
  <2>5. QED
    BY <2>3, <2>4
<1>4. SessionTypes' /\ SessionOwnership'
  BY <1>1, SameSession DEF Tick
<1>5. QED
  BY <1>2, <1>3, <1>4, TypesOkNext DEF IInv

LEMMA CloseStep == ASSUME IInv, Close \/ OwnerCloses \/ UNCHANGED vars PROVE IInv'
<1>1. CallTypes /\ SessionTypes /\ SessionOwnership
  BY TypesOk DEF IInv
<1>2. UNCHANGED callVars
  BY DEF Close, OwnerCloses, vars, callVars
<1>3. SessionTypes' /\ SessionOwnership'
  <2>1. using' = using
    BY <1>2 DEF callVars
  <2>2. CASE Close
    BY <1>1, <2>1, <2>2 DEF Close, SessionTypes, SessionOwnership
  <2>3. CASE OwnerCloses
    BY <1>1, <2>1, <2>3 DEF OwnerCloses, SessionTypes, SessionOwnership
  <2>4. CASE UNCHANGED vars
    BY <1>1, <2>4, SameSession DEF vars, sessionVars
  <2>5. QED
    BY <2>2, <2>3, <2>4
<1>4. CallTypes'
  BY <1>1, <1>2 DEF callVars, CallTypes
<1>5. ASSUME NEW c \in Calls PROVE CallInv(c)'
  <2>1. CallInv(c)
    BY DEF IInv
  <2>2. QED
    BY <1>2, <2>1, OthersKeep DEF callVars
<1>6. QED
  BY <1>3, <1>4, <1>5, TypesOkNext DEF IInv

LEMMA NextInv == IInv /\ [Next]_vars => IInv'
<1>1. SUFFICES ASSUME IInv, [Next]_vars PROVE IInv'
  OBVIOUS
<1>2. ASSUME NEW c \in Calls, NotFoundArrives(c) PROVE IInv'
  <2>1. 404 \in Outcomes /\ ~WorthRetrying(404)
    BY StatusesOk DEF Outcomes, WorthRetrying, NoStatus
  <2>2. QED
    BY <1>1, <1>2, <2>1, FinalStep DEF NotFoundArrives
<1>3. ASSUME NEW c \in Calls, BodyUndecodable(c) PROVE IInv'
  <2>1. Crash \in Outcomes /\ ~WorthRetrying(Crash)
    BY DEF Outcomes, WorthRetrying, NoStatus, Crash
  <2>2. QED
    BY <1>1, <1>3, <2>1, FinalStep DEF BodyUndecodable
<1>4. ASSUME NEW c \in Calls, TransportFails(c) PROVE IInv'
  <2>1. NoStatus \in Outcomes /\ WorthRetrying(NoStatus)
    BY DEF Outcomes, WorthRetrying
  <2>2. retryAfter[c] \in Wishes
    BY <1>1 DEF IInv
  <2>3. QED
    BY <1>1, <1>4, <2>1, <2>2, FailedStep DEF TransportFails
<1>5. QED
  BY <1>1, <1>2, <1>3, <1>4, StartStep, WakeStep, ResponseStep, BodyStep, TickStep, CloseStep
     DEF Next

\* The inductive invariant, in every reachable state.
THEOREM Inductive == Spec => []IInv
BY InitInv, NextInv, PTL DEF Spec

\* Every reachable state of the client is well typed.
THEOREM TypeCorrect == Spec => []TypeOK
<1>1. IInv => TypeOK
  BY DEF IInv
<1>2. QED
  BY <1>1, Inductive, PTL

\* The session close() closes is the only one the client may have open, and a
\* borrowed one is never its to close.
THEOREM SessionsOwned == Spec => []SessionOwnership
<1>1. IInv => SessionOwnership
  BY DEF IInv
<1>2. QED
  BY <1>1, Inductive, PTL

\* A call reports what its last attempt met, after as many attempts as it was
\* worth.
THEOREM OutcomeHonest == Spec => []HonestOutcome
<1>1. IInv => HonestOutcome
  <2>1. SUFFICES ASSUME IInv, NEW c \in Calls, pc[c] = "done"
                 PROVE  /\ heard[c] # <<>>
                        /\ outcome[c] = Last(heard[c])
                        /\ \A v \in ToSet(Front(heard[c])) : WorthRetrying(v)
                        /\ WorthRetrying(outcome[c]) => Len(heard[c]) = MaxRetries
    BY DEF HonestOutcome
  <2>2. EndedCall(c) /\ heard[c] \in Seq(Outcomes)
    BY <2>1 DEF IInv, CallInv, TypeOK
  <2>3. \A v \in ToSet(Front(heard[c])) : WorthRetrying(v)
    <3>1. Front(heard[c]) = SubSeq(heard[c], 1, Len(heard[c]) - 1)
      BY DEF Front
    <3>2. \A i \in DOMAIN Front(heard[c]) :
             i \in 1 .. Len(heard[c]) - 1 /\ Front(heard[c])[i] = heard[c][i]
      BY <2>2, <3>1 DEF EndedCall
    <3>3. QED
      BY <2>2, <3>2 DEF EndedCall, ToSet
  <2>4. QED
    BY <2>2, <2>3 DEF EndedCall, Last
<1>2. QED
  BY <1>1, Inductive, PTL

\* Whether an upstream answers or not, and for every Retry-After that is missing
\* or a number, however large, the caller waits no longer than its budget.
THEOREM CallBounded == Spec => []BoundedCall
<1>1. IInv => BoundedCall
  <2>1. SUFFICES ASSUME IInv, NEW c \in Calls
                 PROVE  spent[c] <= Budget(MaxRetries, MaxRetries - 1)
    BY DEF BoundedCall, Budget
  <2>2. CallInv(c) /\ spent[c] \in Nat /\ timer[c] \in Nat /\ pc[c] \in Stages
    BY <2>1 DEF IInv, TypeOK
  <2>3. MaxRetries \in Nat /\ MaxRetries - 1 \in Nat
    BY TimesNat
  <2>4. Budget(MaxRetries, MaxRetries - 1) \in Nat
    BY <2>3, BudgetOk
  <2>5. CASE pc[c] = "new"
    BY <2>2, <2>4, <2>5 DEF CallInv, NewCall
  <2>6. CASE pc[c] \in {"waiting", "reading"}
    <3>1. OpenCall(c)
      BY <2>2, <2>6 DEF CallInv
    <3>2. /\ attempt[c] \in Nat /\ attempt[c] - 1 \in Nat
          /\ attempt[c] <= MaxRetries /\ attempt[c] - 1 <= MaxRetries - 1
      BY TimesNat, <3>1 DEF OpenCall
    <3>3. Budget(attempt[c], attempt[c] - 1) <= Budget(MaxRetries, MaxRetries - 1)
      BY <2>3, <3>2, BudgetGrows
    <3>4. Budget(attempt[c], attempt[c] - 1) \in Nat
      BY <3>2, BudgetOk
    <3>5. QED
      BY <2>2, <2>4, <3>1, <3>3, <3>4 DEF OpenCall
  <2>7. CASE pc[c] = "sleeping"
    <3>1. SleepingCall(c)
      BY <2>2, <2>7 DEF CallInv
    <3>2. attempt[c] \in Nat /\ attempt[c] <= MaxRetries - 1 /\ attempt[c] <= MaxRetries
      BY TimesNat, <3>1 DEF SleepingCall
    <3>3. Budget(attempt[c], attempt[c]) <= Budget(MaxRetries, MaxRetries - 1)
      BY <2>3, <3>2, BudgetGrows
    <3>4. Budget(attempt[c], attempt[c]) \in Nat
      BY <3>2, BudgetOk
    <3>5. QED
      BY <2>2, <2>4, <3>1, <3>3, <3>4 DEF SleepingCall
  <2>8. CASE pc[c] = "done"
    BY <2>2, <2>8 DEF CallInv, EndedCall
  <2>9. QED
    BY <2>2, <2>5, <2>6, <2>7, <2>8 DEF Stages
<1>2. QED
  BY <1>1, Inductive, PTL

------------------------------------------------------------------------------
(* The pause before a retry.                                               *)

Asked(c) == IF Last(heard'[c]) = NoStatus THEN Absent ELSE ParseRetryAfter(header[c])

\* An attempt that failed with v leads to a pause its own answer asked for.
LEMMA PauseAfterFailure ==
    ASSUME CallTypes, NEW c \in Calls, NEW v \in Outcomes, NEW wish,
           RetryOrRaise(c, v, wish), Over(c, v), pc'[c] = "sleeping",
           wish = IF v = NoStatus THEN Absent ELSE ParseRetryAfter(header[c])
    PROVE  timer'[c] \in Pauses(attempt[c], Asked(c))
<1>1. attempt[c] < MaxRetries
  BY DEF RetryOrRaise, Finish, CallTypes
<1>2. timer'[c] \in Pauses(attempt[c], wish)
  BY <1>1 DEF RetryOrRaise, CallTypes
<1>3. heard'[c] = Append(heard[c], v) /\ heard[c] \in Seq(Outcomes)
  BY DEF Over, CallTypes
<1>4. Last(heard'[c]) = v
  BY <1>3 DEF Last
<1>5. QED
  BY <1>2, <1>4 DEF Asked

LEMMA PauseStep ==
    ASSUME IInv, [Next]_vars, NEW c \in Calls, pc[c] # "sleeping", pc'[c] = "sleeping"
    PROVE  timer'[c] \in Pauses(attempt[c], Asked(c))
<1>1. CallTypes /\ CallInv(c)
  BY TypesOk DEF IInv
<1>2. CASE BodyArrives(c)
  <2>1. /\ Over(c, line[c]) /\ pc[c] = "reading" /\ pc'[c] # "done"
    BY <1>2 DEF BodyArrives
  <2>2. line[c] \in Statuses /\ line[c] \in Outcomes
    BY <1>1, <2>1 DEF CallInv, ReadingCall, Outcomes
  <2>3. RetryOrRaise(c, line[c], ParseRetryAfter(header[c]))
    BY <1>1, <1>2, <2>1 DEF BodyArrives, Finish, CallTypes
  <2>4. \A status \in Statuses : status # NoStatus
    BY StatusesOk DEF NoStatus
  <2>5. line[c] # NoStatus
    BY <2>2, <2>4, Zenon
  <2>6. QED
    BY <1>1, <2>1, <2>2, <2>3, <2>5, PauseAfterFailure
<1>3. CASE TransportFails(c)
  <2>1. /\ RetryOrRaise(c, NoStatus, retryAfter[c]) /\ Over(c, NoStatus)
        /\ pc[c] \in {"waiting", "reading"}
    BY <1>3 DEF TransportFails
  <2>2. retryAfter[c] = Absent /\ NoStatus \in Outcomes
    BY <1>1, <2>1 DEF CallInv, OpenCall, Outcomes
  <2>3. QED
    BY <1>1, <2>1, <2>2, PauseAfterFailure
<1>4. ASSUME NEW d \in Calls, d # c, Touches(d) PROVE FALSE
  BY <1>4 DEF Touches
<1>5. ASSUME NEW d \in Calls,
             \/ Start(d) \/ NotFoundArrives(d) \/ BodyUndecodable(d) \/ Wake(d)
             \/ \E status \in Statuses, value \in RetryAfters : ResponseArrives(d, status, value)
      PROVE  FALSE
  <2>1. Touches(d)
    <3>1. CASE Start(d)
      BY <1>1, <3>1, SendTouches DEF Start
    <3>2. CASE NotFoundArrives(d)
      BY <1>1, <3>2, FinishTouches DEF NotFoundArrives
    <3>3. CASE BodyUndecodable(d)
      BY <1>1, <3>3, FinishTouches DEF BodyUndecodable
    <3>4. CASE Wake(d)
      BY <1>1, <3>4, SendTouches DEF Wake
    <3>5. CASE \E status \in Statuses, value \in RetryAfters : ResponseArrives(d, status, value)
      BY <1>1, <3>5 DEF ResponseArrives, Touches, CallTypes
    <3>6. QED
      BY <1>5, <3>1, <3>2, <3>3, <3>4, <3>5
  <2>2. pc'[d] # "sleeping"
    BY <1>1, <1>5
       DEF Start, NotFoundArrives, BodyUndecodable, Wake, ResponseArrives, Send, Finish,
           CallTypes
  <2>3. QED
    BY <1>4, <2>1, <2>2
<1>6. ASSUME NEW d \in Calls, d # c, BodyArrives(d) \/ TransportFails(d) PROVE FALSE
  <2>1. Touches(d)
    <3>1. CASE BodyArrives(d)
      BY <1>1, <3>1, FinishTouches, RetryTouches DEF BodyArrives
    <3>2. CASE TransportFails(d)
      BY <1>1, <3>2, RetryTouches DEF TransportFails
    <3>3. QED
      BY <1>6, <3>1, <3>2
  <2>2. QED
    BY <1>4, <1>6, <2>1
<1>7. ASSUME Close \/ OwnerCloses \/ Tick \/ UNCHANGED vars PROVE FALSE
  BY <1>7 DEF Close, OwnerCloses, Tick, vars, callVars
<1>8. QED
  BY <1>2, <1>3, <1>5, <1>6, <1>7 DEF Next

\* A Retry-After never outlives the answer it came with.
THEOREM PauseIsAsked == Spec => PauseFromThisAnswer
<1>1. IInv /\ [Next]_vars =>
         [\A c \in Calls :
             pc[c] # "sleeping" /\ pc'[c] = "sleeping" =>
                timer'[c] \in Pauses(attempt[c],
                    IF Last(heard'[c]) = NoStatus THEN Absent ELSE ParseRetryAfter(header[c]))
         ]_vars
  BY PauseStep DEF Asked
<1>2. QED
  BY <1>1, Inductive, PTL DEF Spec, PauseFromThisAnswer
==============================================================================
