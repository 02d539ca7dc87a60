----------------------------- MODULE WholeListing -----------------------------
(***************************************************************************)
(* What whoever reads a listing page by page is promised, whatever the     *)
(* pages are made of: no item is handed out twice, and a listing that      *)
(* looks whole holds every item that was listed all the time it was read.  *)
(* A reader who sees less than the whole knows that it does.               *)
(***************************************************************************)
EXTENDS Naturals

CONSTANT Items

VARIABLES
    lasting,         (* the items listed ever since the reading began      *)
    times,           (* how often each item was handed out: 0, 1 or 2 (more) *)
    verdict          (* "reading", or what the reader knows at the end     *)

Init ==
    /\ lasting \in SUBSET Items
    /\ times = [i \in Items |-> 0]
    /\ verdict = "reading"

Shrink ==
    /\ lasting' \in SUBSET lasting
    /\ UNCHANGED <<times, verdict>>

Deliver(page) ==
    /\ verdict = "reading"
    /\ \A i \in page : times[i] = 0
    /\ times' = [i \in Items |-> IF i \in page THEN 1 ELSE times[i]]
    /\ UNCHANGED <<lasting, verdict>>

End(v) ==
    /\ verdict = "reading"
    /\ v = "whole" => \A i \in lasting : times[i] = 1
    /\ verdict' = v
    /\ UNCHANGED <<lasting, times>>

Next ==
    \/ Shrink
    \/ \E page \in SUBSET Items : Deliver(page)
    \/ \E v \in {"whole", "unfinished"} : End(v)

Spec == Init /\ [][Next]_<<lasting, times, verdict>>
==============================================================================
