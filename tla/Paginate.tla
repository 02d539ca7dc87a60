------------------------------- MODULE Paginate -------------------------------
(***************************************************************************)
(* Reading a listing page by page, which takes many upstream calls between *)
(* which the listing changes.  Two kinds of reader do it: whoever iterates *)
(* AlgorandClient.paginate, an async generator that keeps the cursor and   *)
(* stops at MaxPages, and whoever follows the next_page_params of a route, *)
(* who keeps the cursor himself and may ask for a failed page again.  The  *)
(* holders route needs a second call, for the decimals, before it answers. *)
(*                                                                         *)
(* The listing is external: items in the order of their ids, which join    *)
(* and leave at any place.  A cursor is the id of the last item of a page. *)
(***************************************************************************)
EXTENDS Integers, FiniteSets

CONSTANTS
    Items,           (* the ids of what may be listed                      *)
    PageSize,        (* limit                                              *)
    MaxPages,        (* max_pages                                          *)
    MaxChanges,      (* bound: changes of the listing                      *)
    MaxFailures,     (* how often the reader of a route asks again         *)
    None

ASSUME PageAssumption ==
    /\ Items \subseteq Int /\ IsFiniteSet(Items)
    /\ None \notin Int
    /\ PageSize \in Nat \ {0}
    /\ {MaxPages, MaxChanges, MaxFailures} \subseteq Nat

VARIABLES
    reader,          (* "paginate", or the route that is read              *)
    pc,              (* "ready" between pages, "calling", "decimals", "done" *)
    token,           (* next_token of the page held, None if it has none   *)
    held,            (* what was handed out last: nothing, a page, a null  *)
    pending,         (* the page a holders request has and cannot yet send *)
    pages,           (* the loop counter of paginate                       *)
    failures,        (* requests of a route that failed                    *)
    listing,         (* external: the items listed now                     *)
    changes,         (* changes of the listing so far                      *)
    lasting,         (* history: the items listed ever since the start     *)
    times            (* history: how often each item was handed out, to 2  *)

worldVars == <<listing, changes, lasting>>
vars == <<reader, pc, token, held, pending, pages, failures, times, listing, changes, lasting>>

Readers == {"paginate", "transactions", "holders"}
Payloads == [items : SUBSET Items, next : Items \cup {None}]

\* What the indexer may answer: the first items of l beyond the cursor, at
\* most PageSize; a next-token if there are more, and perhaps after the last.
Beyond(l, cursor) == {i \in l : cursor # None => i > cursor}

Answers(l, cursor) ==
    {p \in [items : SUBSET Beyond(l, cursor), next : l \cup {None}] :
        /\ Cardinality(p.items) <= PageSize
        /\ \A i \in p.items, j \in Beyond(l, cursor) : j < i => j \in p.items
        /\ p.next = None => p.items = Beyond(l, cursor)
        /\ p.next # None => p.next \in p.items /\ \A i \in p.items : i <= p.next}

Init ==
    /\ reader \in Readers
    /\ pc = "ready"
    /\ token = None
    /\ held = "nothing"
    /\ pending = [items |-> {}, next |-> None]
    /\ pages = 0
    /\ failures = 0
    /\ listing \in SUBSET Items
    /\ changes = 0
    /\ lasting = listing
    /\ times = [i \in Items |-> 0]

------------------------------------------------------------------------------
\* A page without next-token, or with an empty one, is the last.
Last == held # "nothing" /\ token = None

\* The token handed on with page p: payload.get("next-token") in the generator,
\* _next_page in a route.
NextStuckMutant(p) == IF token # None THEN token ELSE p.next
NextToken(p) == p.next

Enough == pages = MaxPages

\* The consumer of the generator goes on (or begins): return at the last page,
\* a warning at MaxPages with the cursor open, or the next call.  A payload
\* that is null raises here, one step after it was handed out.
ResumeUnboundedMutant ==                    \* the bound is looked at too late
    /\ reader = "paginate" /\ pc = "ready"
    /\ pc' = IF Last \/ pages > MaxPages THEN "done" ELSE "calling"
    /\ UNCHANGED <<reader, token, held, pending, pages, failures, times, worldVars>>

Resume ==
    /\ reader = "paginate" /\ pc = "ready"
    /\ pc' = IF Last \/ Enough THEN "done" ELSE "calling"
    /\ UNCHANGED <<reader, token, held, pending, pages, failures, times, worldVars>>

\* The reader of a route asks for the page next_page_params names.
Follow ==
    /\ reader # "paginate" /\ pc = "ready"
    /\ pc' = IF Last THEN "done" ELSE "calling"
    /\ UNCHANGED <<reader, token, held, pending, pages, failures, times, worldVars>>

\* Either kind of reader may have seen enough.
Leave ==
    /\ pc = "ready"
    /\ pc' = "done"
    /\ UNCHANGED <<reader, token, held, pending, pages, failures, times, worldVars>>

HandOut(p) ==
    /\ pc' = "ready"
    /\ held' = "page"
    /\ token' = NextToken(p)
    /\ times' = [i \in Items |-> IF i \notin p.items THEN times[i]
                                 ELSE IF times[i] = 0 THEN 1 ELSE 2]

\* The listing is read upstream and its page comes back.
PageArrives(p) ==
    /\ pc = "calling"
    /\ HandOut(p)
    /\ pages' = IF reader = "paginate" THEN pages + 1 ELSE pages
    /\ UNCHANGED <<reader, pending, failures, worldVars>>

\* holders with resolve: the page waits for the asset's decimals.
HoldersArrive(p) ==
    /\ pc = "calling" /\ reader = "holders"
    /\ pc' = "decimals"
    /\ pending' = p
    /\ UNCHANGED <<reader, token, held, pages, failures, times, worldVars>>

\* The asset's decimals, or an AlgorandError, which costs only the decimals.
DecimalsEmptyMutant ==                   \* a failing lookup empties the page
    /\ pc = "decimals"
    /\ \E found \in BOOLEAN : HandOut(IF found THEN pending ELSE [pending EXCEPT !.items = {}])
    /\ UNCHANGED <<reader, pending, pages, failures, worldVars>>

DecimalsEnd ==
    /\ pc = "decimals"
    /\ HandOut(pending)
    /\ UNCHANGED <<reader, pending, pages, failures, worldVars>>

\* A null body: paginate hands it out before it looks, a route is a 500.
NullArrives ==
    /\ pc = "calling" /\ reader = "paginate"
    /\ pc' = "ready"
    /\ held' = "null"
    /\ token' = None
    /\ pages' = pages + 1
    /\ UNCHANGED <<reader, pending, failures, times, worldVars>>

\* A call raises and the generator with it: the cursor is lost.
CallRaises ==
    /\ pc = "calling" /\ reader = "paginate"
    /\ pc' = "done"
    /\ UNCHANGED <<reader, token, held, pending, pages, failures, times, worldVars>>

\* A request of a route fails: the listing's call, or in holders the second
\* call with an exception that is no AlgorandError.  Its reader has the cursor.
RequestFails ==
    /\ reader # "paginate" /\ pc \in {"calling", "decimals"}
    /\ failures' = IF failures < MaxFailures THEN failures + 1 ELSE failures
    /\ pc' = IF failures < MaxFailures THEN "ready" ELSE "done"
    /\ UNCHANGED <<reader, token, held, pending, pages, times, worldVars>>

------------------------------------------------------------------------------
\* Items join and leave the listing, wherever the reader is.
ListingChanges(i) ==
    /\ pc # "done"
    /\ changes < MaxChanges
    /\ changes' = changes + 1
    /\ listing' = IF i \in listing THEN listing \ {i} ELSE listing \cup {i}
    /\ lasting' = lasting \cap listing'
    /\ UNCHANGED <<reader, pc, token, held, pending, pages, failures, times>>

ReadOn == Resume \/ Follow

CallEnds ==
    \/ \E p \in Answers(listing, token) : PageArrives(p) \/ HoldersArrive(p)
    \/ DecimalsEnd
    \/ NullArrives
    \/ CallRaises
    \/ RequestFails

Next ==
    \/ ReadOn
    \/ Leave
    \/ CallEnds
    \/ \E i \in Items : ListingChanges(i)

Spec == Init /\ [][Next]_vars

\* A call ends (UpstreamCall!CallsEnd), and a reader that does not leave reads on.
FairSpec == Spec /\ WF_vars(CallEnds) /\ WF_vars(ReadOn)

------------------------------------------------------------------------------
(* Type invariant.                                                         *)
TypeOK ==
    /\ reader \in Readers
    /\ pc \in {"ready", "calling", "decimals", "done"}
    /\ pc = "decimals" => reader = "holders"
    /\ token \in Items \cup {None}
    /\ held \in {"nothing", "page", "null"}
    /\ pending \in Payloads
    /\ pages \in 0 .. MaxPages
    /\ failures \in 0 .. MaxFailures
    /\ listing \subseteq Items /\ lasting \subseteq listing
    /\ changes \in 0 .. MaxChanges
    /\ times \in [Items -> 0 .. 2]

\* What the reader knows at the end is in the last page: no cursor, no more.
Verdict ==
    CASE pc # "done" -> "reading"
      [] pc = "done" /\ held = "page" /\ token = None -> "whole"
      [] OTHER -> "unfinished"

\* A listing read to a page without a cursor is whole: nothing that was there
\* all along is missing and nothing comes twice, whatever joins and leaves
\* between the pages, whichever page had to be asked for again, and whether or
\* not the decimals could be looked up; and a listing cut at max_pages, which
\* only the log is told, shows its open cursor in the last page handed out
\* (paginate, client.py:363-369, _next_page, mapping.py:514-516).
Promise == INSTANCE WholeListing WITH verdict <- Verdict
ReadsWhole == Promise!Spec

\* "Bounded by max_pages on purpose" (client.py:357): after MaxPages pages the
\* generator asks for no other, whatever its cursor, and over a listing that
\* changes it hands out no more than those pages hold.
WalkBounded ==
    reader = "paginate" =>
        /\ pages <= MaxPages
        /\ Cardinality({i \in Items : times[i] > 0}) <= MaxPages * PageSize
        /\ pages = MaxPages => pc # "calling"

\* A reader comes to an end even of a listing that grows while it is read,
\* because the cursor only moves forward (paginate; next_page_params).
ReaderEnds == pc = "calling" ~> pc = "done"
==============================================================================
