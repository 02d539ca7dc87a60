------------------------------- MODULE FreshRead -------------------------------
(***************************************************************************)
(* What a handler is promised by TTLCache.get_or_fetch, with no cache in   *)
(* sight: a request for an object is answered, once, with a payload of     *)
(* that very object, or fails.  The payload may be old, but never older    *)
(* than the kind's TTL and one fetch together, and readers never travel    *)
(* back in time by more than one fetch.                                    *)
(***************************************************************************)
EXTENDS Naturals

CONSTANTS
    Tasks,           (* request handlers                                   *)
    Kinds, Keys,
    TTL,             (* kind -> seconds, for the cacheable kinds           *)
    FetchBound,      (* seconds one fetched payload may be under way       *)
    None, Failed

Objects == Kinds \X Keys

\* How old an answer may be: an undeclared kind is only as old as its fetch.
Window(kind) == FetchBound + (IF kind \in DOMAIN TTL THEN TTL[kind] ELSE 0)

VARIABLES
    clock,
    waiting,         (* task -> the object it waits for, or None           *)
    answer,          (* task -> its last answer                            *)
    newest           (* object -> time of the newest payload handed out    *)

Init ==
    /\ clock = 0
    /\ waiting = [t \in Tasks |-> None]
    /\ answer = [t \in Tasks |-> None]
    /\ newest = [id \in Objects |-> 0]

Ask(t, id) ==
    /\ waiting[t] = None
    /\ waiting' = [waiting EXCEPT ![t] = id]
    /\ UNCHANGED <<clock, answer, newest>>

\* The payload was true at some moment asOf within the window.
Serve(t, id, asOf, null) ==
    /\ waiting[t] = id
    /\ asOf <= clock
    /\ clock - asOf <= Window(id[1])
    /\ asOf + FetchBound >= newest[id]
    /\ waiting' = [waiting EXCEPT ![t] = None]
    /\ answer' = [answer EXCEPT ![t] = [of |-> id, age |-> clock - asOf, null |-> null]]
    /\ newest' = [newest EXCEPT ![id] = IF asOf > @ THEN asOf ELSE @]
    /\ UNCHANGED clock

Fail(t) ==
    /\ waiting[t] # None
    /\ waiting' = [waiting EXCEPT ![t] = None]
    /\ answer' = [answer EXCEPT ![t] = Failed]
    /\ UNCHANGED <<clock, newest>>

TimePasses ==
    /\ clock' = clock + 1
    /\ UNCHANGED <<waiting, answer, newest>>

Next ==
    \/ \E t \in Tasks :
          \/ \E id \in Objects :
                \/ Ask(t, id)
                \/ \E asOf \in 0 .. clock, null \in BOOLEAN : Serve(t, id, asOf, null)
          \/ Fail(t)
    \/ TimePasses

Spec == Init /\ [][Next]_<<clock, waiting, answer, newest>>
==============================================================================
