---------------------------- MODULE PaginateProofs ----------------------------
(***************************************************************************)
(* Paginate keeps the promise of WholeListing for every set of items, page *)
(* size and bound.  The inductive invariant says what the cursor divides:  *)
(* up to it every lasting item was handed out, beyond it nothing was; and  *)
(* a page that waits for its decimals still begins where the cursor is.    *)
(***************************************************************************)
EXTENDS Paginate, FiniteSetTheorems, TLAPS

USE PageAssumption

\* i comes after the cursor.
After(i) == token # None => i > token

\* A page that goes on from the cursor and leaves out no lasting item.
GoodPage(p) ==
    /\ p \in Payloads
    /\ \A i \in p.items : After(i)
    /\ \A i \in lasting : After(i) /\ (p.next # None => i <= p.next) => i \in p.items
    /\ p.next # None => After(p.next) /\ \A i \in p.items : i <= p.next

HandedUpToCursor ==
    /\ \A i \in Items : times[i] \in {0, 1}
    /\ held = "nothing" => token = None /\ \A i \in Items : times[i] = 0
    /\ token # None => /\ \A i \in Items : times[i] = 1 => i <= token
                       /\ \A i \in lasting : i <= token => times[i] = 1
    /\ held = "page" /\ token = None => \A i \in lasting : times[i] = 1

CallHasCursor ==
    /\ pc \in {"calling", "decimals"} => held = "nothing" \/ token # None
    /\ pc = "decimals" => GoodPage(pending)

BoundedPages == reader = "paginate" /\ pc = "calling" => pages < MaxPages

IInv == TypeOK /\ HandedUpToCursor /\ CallHasCursor /\ BoundedPages

------------------------------------------------------------------------------
\* Whatever the indexer answers goes on from the cursor: the items listed ever
\* since the start are among those listed now.
LEMMA AnswersAreGood ==
    ASSUME TypeOK, NEW p \in Answers(listing, token)
    PROVE  GoodPage(p)
<1>1. p \in Payloads
  BY DEF TypeOK, Answers, Beyond, Payloads
<1>2. \A i \in p.items : After(i)
  BY DEF TypeOK, Answers, Beyond, After
<1>3. \A i \in lasting : After(i) => i \in Beyond(listing, token)
  BY DEF TypeOK, Beyond, After
<1>4. CASE p.next = None
  <2>1. p.items = Beyond(listing, token)
    BY <1>4 DEF Answers
  <2>2. QED
    BY <1>1, <1>2, <1>3, <1>4, <2>1 DEF GoodPage
<1>5. CASE p.next # None
  <2>1. p.next \in p.items /\ \A i \in p.items : i <= p.next
    BY <1>5 DEF Answers
  <2>2. ASSUME NEW i \in lasting, After(i), i <= p.next
        PROVE  i \in p.items
    <3>1. i \in Beyond(listing, token)
      BY <1>3, <2>2
    <3>2. CASE i = p.next
      BY <2>1, <3>2
    <3>3. CASE i < p.next
      BY <2>1, <3>1, <3>3 DEF Answers
    <3>4. i \in Int /\ p.next \in Int
      BY <1>1, <1>5 DEF TypeOK, Payloads
    <3>5. QED
      BY <2>2, <3>2, <3>3, <3>4
  <2>3. QED
    BY <1>1, <1>2, <1>5, <2>1, <2>2 DEF GoodPage
<1>6. QED
  BY <1>4, <1>5

\* Handing out such a page moves the cursor over it and nothing else.
LEMMA HandOutKeepsOrder ==
    ASSUME TypeOK, HandedUpToCursor, NEW p, GoodPage(p), HandOut(p),
           held = "nothing" \/ token # None,
           UNCHANGED lasting
    PROVE  /\ HandedUpToCursor'
           /\ \A i \in p.items : times[i] = 0
           /\ times' = [i \in Items |-> IF i \in p.items THEN 1 ELSE times[i]]
           /\ token' \in Items \cup {None}
           /\ held' = "page" /\ pc' = "ready"
<1>1. /\ held' = "page" /\ pc' = "ready" /\ token' = p.next
      /\ p.items \subseteq Items /\ p.next \in Items \cup {None}
  BY DEF HandOut, NextToken, GoodPage, Payloads
<1>2. \A i \in p.items : times[i] = 0
  <2>1. SUFFICES ASSUME NEW i \in p.items PROVE times[i] = 0
    OBVIOUS
  <2>2. i \in Items /\ i \in Int /\ (token # None => i > token) /\ times[i] \in {0, 1}
    BY <1>1 DEF GoodPage, After, HandedUpToCursor
  <2>3. CASE token = None
    BY <2>2, <2>3 DEF HandedUpToCursor
  <2>4. CASE token # None
    <3>1. token \in Int
      BY <2>4 DEF TypeOK
    <3>2. QED
      BY <2>2, <2>4, <3>1 DEF HandedUpToCursor
  <2>5. QED
    BY <2>3, <2>4
<1>3. times' = [i \in Items |-> IF i \in p.items THEN 1 ELSE times[i]]
  BY <1>2 DEF HandOut
<1>4. \A i \in Items : times'[i] \in {0, 1}
  BY <1>3 DEF HandedUpToCursor
<1>5. ASSUME token' # None
      PROVE  /\ \A i \in Items : times'[i] = 1 => i <= token'
             /\ \A i \in lasting : i <= token' => times'[i] = 1
  <2>1. /\ p.next \in Int /\ (token # None => p.next > token)
        /\ \A i \in p.items : i <= p.next
    BY <1>1, <1>5 DEF GoodPage, After
  <2>2. ASSUME NEW i \in Items, times'[i] = 1, i \notin p.items
        PROVE  i <= token'
    <3>1. times[i] = 1 /\ i \in Int
      BY <1>3, <2>2
    <3>2. token # None
      BY <3>1 DEF HandedUpToCursor
    <3>3. token \in Int /\ i <= token
      BY <3>1, <3>2 DEF HandedUpToCursor, TypeOK
    <3>4. QED
      BY <1>1, <2>1, <3>1, <3>2, <3>3
  <2>3. ASSUME NEW i \in lasting, i <= token'
        PROVE  times'[i] = 1
    <3>1. i \in Items /\ i \in Int
      BY DEF TypeOK
    <3>2. CASE After(i)
      BY <1>1, <1>3, <1>5, <2>3, <3>1, <3>2 DEF GoodPage
    <3>3. CASE ~After(i)
      <4>1. token # None /\ token \in Int /\ i <= token
        BY <3>1, <3>3 DEF After, TypeOK
      <4>2. times[i] = 1
        BY <2>3, <4>1 DEF HandedUpToCursor
      <4>3. QED
        BY <1>3, <3>1, <4>2
    <3>4. QED
      BY <3>2, <3>3
  <2>4. QED
    BY <1>1, <2>1, <2>2, <2>3
<1>6. ASSUME token' = None
      PROVE  \A i \in lasting : times'[i] = 1
  <2>1. SUFFICES ASSUME NEW i \in lasting PROVE times'[i] = 1
    OBVIOUS
  <2>2. i \in Items /\ i \in Int
    BY DEF TypeOK
  <2>3. CASE After(i)
    BY <1>1, <1>3, <1>6, <2>2, <2>3 DEF GoodPage
  <2>4. CASE ~After(i)
    <3>1. token # None /\ token \in Int /\ i <= token
      BY <2>2, <2>4 DEF After, TypeOK
    <3>2. times[i] = 1
      BY <2>1, <3>1 DEF HandedUpToCursor
    <3>3. QED
      BY <1>3, <2>2, <3>2
  <2>5. QED
    BY <2>3, <2>4
<1>7. QED
  BY <1>1, <1>2, <1>3, <1>4, <1>5, <1>6 DEF HandedUpToCursor

------------------------------------------------------------------------------
LEMMA InitInv == Init => IInv
<1>1. SUFFICES ASSUME Init PROVE IInv
  OBVIOUS
<1>2. TypeOK
  BY <1>1 DEF Init, TypeOK, Readers, Payloads
<1>3. HandedUpToCursor /\ CallHasCursor /\ BoundedPages
  BY <1>1 DEF Init, HandedUpToCursor, CallHasCursor, BoundedPages
<1>4. QED
  BY <1>2, <1>3 DEF IInv

\* A step that only moves the reader between its stages, or ends a call
\* without a page, keeps the order; the pending page is not looked at again.
LEMMA QuietStep ==
    ASSUME IInv, UNCHANGED <<reader, token, held, pending, pages, times, worldVars>>,
           pc' \in {"ready", "calling", "done"}, failures' \in 0 .. MaxFailures,
           pc' = "calling" => held = "nothing" \/ token # None,
           reader = "paginate" /\ pc' = "calling" => pages < MaxPages
    PROVE  IInv'
<1>1. TypeOK'
  BY DEF IInv, TypeOK, worldVars, Readers, Payloads
<1>2. HandedUpToCursor'
  BY DEF IInv, HandedUpToCursor, worldVars
<1>3. CallHasCursor' /\ BoundedPages'
  BY DEF CallHasCursor, BoundedPages
<1>4. QED
  BY <1>1, <1>2, <1>3 DEF IInv

\* A page is handed out, the one that just came or the one that waited.
LEMMA PageStep ==
    ASSUME IInv, NEW p, GoodPage(p), HandOut(p), pc \in {"calling", "decimals"},
           pages' \in 0 .. MaxPages, UNCHANGED <<reader, pending, failures, worldVars>>
    PROVE  IInv'
<1>1. /\ HandedUpToCursor'
      /\ times' = [i \in Items |-> IF i \in p.items THEN 1 ELSE times[i]]
      /\ token' \in Items \cup {None} /\ held' = "page" /\ pc' = "ready"
  BY HandOutKeepsOrder DEF IInv, CallHasCursor, worldVars
<1>2. TypeOK'
  BY <1>1 DEF IInv, TypeOK, worldVars, Readers, Payloads
<1>3. CallHasCursor' /\ BoundedPages'
  BY <1>1 DEF CallHasCursor, BoundedPages
<1>4. QED
  BY <1>1, <1>2, <1>3 DEF IInv

LEMMA NextInv == IInv /\ [Next]_vars => IInv'
<1>1. SUFFICES ASSUME IInv, [Next]_vars PROVE IInv'
  OBVIOUS
<1>a. TypeOK /\ HandedUpToCursor /\ CallHasCursor /\ BoundedPages
  BY <1>1 DEF IInv
<1>2. CASE Resume
  BY <1>1, <1>2, <1>a, QuietStep DEF Resume, Last, Enough, TypeOK
<1>3. CASE Follow
  BY <1>1, <1>3, <1>a, QuietStep DEF Follow, Last, TypeOK
<1>4. CASE Leave
  BY <1>1, <1>4, <1>a, QuietStep DEF Leave, TypeOK
<1>5. ASSUME NEW p \in Answers(listing, token), PageArrives(p)
      PROVE  IInv'
  <2>1. GoodPage(p)
    BY <1>a, AnswersAreGood
  <2>2. pages' \in 0 .. MaxPages
    BY <1>5, <1>a DEF PageArrives, TypeOK, BoundedPages
  <2>3. QED
    BY <1>1, <1>5, <2>1, <2>2, PageStep DEF PageArrives
<1>6. ASSUME NEW p \in Answers(listing, token), HoldersArrive(p)
      PROVE  IInv'
  <2>1. GoodPage(p)
    BY <1>a, AnswersAreGood
  <2>2. GoodPage(pending)' /\ p \in Payloads
    BY <1>6, <2>1 DEF HoldersArrive, GoodPage, After, worldVars
  <2>3. TypeOK'
    BY <1>6, <1>a, <2>2 DEF HoldersArrive, TypeOK, worldVars
  <2>4. HandedUpToCursor' /\ CallHasCursor' /\ BoundedPages'
    BY <1>6, <1>a, <2>2
       DEF HoldersArrive, HandedUpToCursor, CallHasCursor, BoundedPages, worldVars
  <2>5. QED
    BY <2>3, <2>4 DEF IInv
<1>7. CASE DecimalsEnd
  <2>1. GoodPage(pending) /\ pages' \in 0 .. MaxPages
    BY <1>7, <1>a DEF DecimalsEnd, CallHasCursor, TypeOK
  <2>2. QED
    BY <1>1, <1>7, <2>1, PageStep DEF DecimalsEnd
<1>8. CASE NullArrives
  <2>1. pages' \in 0 .. MaxPages
    BY <1>8, <1>a DEF NullArrives, TypeOK, BoundedPages
  <2>2. TypeOK'
    BY <1>8, <1>a, <2>1 DEF NullArrives, TypeOK, worldVars
  <2>3. HandedUpToCursor' /\ CallHasCursor' /\ BoundedPages'
    BY <1>8, <1>a DEF NullArrives, HandedUpToCursor, CallHasCursor, BoundedPages, worldVars
  <2>4. QED
    BY <2>2, <2>3 DEF IInv
<1>9. CASE CallRaises
  BY <1>1, <1>9, <1>a, QuietStep DEF CallRaises, TypeOK
<1>10. CASE RequestFails
  BY <1>1, <1>10, <1>a, QuietStep DEF RequestFails, TypeOK
<1>11. ASSUME NEW i \in Items, ListingChanges(i)
       PROVE  IInv'
  <2>1. TypeOK'
    BY <1>11, <1>a DEF ListingChanges, TypeOK
  <2>2. lasting' \subseteq lasting
    BY <1>11 DEF ListingChanges
  <2>3. HandedUpToCursor' /\ BoundedPages'
    BY <1>11, <1>a, <2>2 DEF ListingChanges, HandedUpToCursor, BoundedPages
  <2>4. GoodPage(pending) => GoodPage(pending)'
    BY <1>11, <2>2 DEF ListingChanges, GoodPage, After
  <2>5. CallHasCursor'
    BY <1>11, <1>a, <2>4 DEF ListingChanges, CallHasCursor
  <2>6. QED
    BY <2>1, <2>3, <2>5 DEF IInv
<1>12. CASE UNCHANGED vars
  BY <1>12, <1>a
     DEF vars, worldVars, IInv, TypeOK, HandedUpToCursor, CallHasCursor, BoundedPages,
         GoodPage, After, Readers, Payloads
<1>13. QED
  BY <1>1, <1>2, <1>3, <1>4, <1>5, <1>6, <1>7, <1>8, <1>9, <1>10, <1>11, <1>12
     DEF Next, ReadOn, CallEnds

\* A walk over a listing keeps every variable in its range: in particular the
\* generator never counts more than max_pages pages and no item is handed out
\* more often than times can say.
THEOREM Inductive == Spec => []IInv
BY InitInv, NextInv, PTL DEF Spec

THEOREM TypeCorrect == Spec => []TypeOK
<1>1. IInv => TypeOK
  BY DEF IInv
<1>2. QED
  BY <1>1, Inductive, PTL

------------------------------------------------------------------------------
(* The bound of the generator.                                             *)

Handed == {i \in Items : times[i] > 0}

BoundedHanded == reader = "paginate" => Cardinality(Handed) <= pages * PageSize

LEMMA HandedIsFinite == IsFiniteSet(Handed) /\ Cardinality(Handed) \in Nat
<1>1. IsFiniteSet(Handed)
  BY FS_Subset DEF Handed
<1>2. QED
  BY <1>1, FS_CardinalityType

\* Where nothing is handed out, nothing changes.
LEMMA NothingHanded ==
    ASSUME BoundedHanded, reader' = reader, times' = times, pages' = pages
    PROVE  BoundedHanded'
BY DEF BoundedHanded, Handed

\* A page adds at most PageSize items and counts as one page.
LEMMA PageHanded ==
    ASSUME TypeOK, BoundedHanded, NEW p \in Answers(listing, token), PageArrives(p)
    PROVE  BoundedHanded'
<1>1. SUFFICES ASSUME reader' = "paginate" PROVE Cardinality(Handed') <= pages' * PageSize
  BY DEF BoundedHanded
<1>2. reader = "paginate" /\ pages' = pages + 1
  BY <1>1 DEF PageArrives
<1>3. p.items \subseteq Items /\ Cardinality(p.items) <= PageSize
  BY DEF Answers, Beyond, TypeOK
<1>4. IsFiniteSet(p.items) /\ Cardinality(p.items) \in Nat
  BY <1>3, FS_Subset, FS_CardinalityType
<1>5. Handed' = Handed \cup p.items
  <2>1. times' = [i \in Items |-> IF i \notin p.items THEN times[i]
                                  ELSE IF times[i] = 0 THEN 1 ELSE 2]
    BY DEF PageArrives, HandOut
  <2>2. QED
    BY <1>3, <2>1 DEF Handed, TypeOK
<1>6. Cardinality(Handed \cup p.items)
         = Cardinality(Handed) + Cardinality(p.items) - Cardinality(Handed \cap p.items)
  BY <1>4, HandedIsFinite, FS_Union
<1>7. Cardinality(Handed \cap p.items) \in Nat
  BY <1>4, FS_Intersection, FS_CardinalityType
<1>8. Cardinality(Handed') <= Cardinality(Handed) + PageSize
  BY <1>3, <1>4, <1>5, <1>6, <1>7, HandedIsFinite
<1>9. Cardinality(Handed) <= pages * PageSize
  BY <1>2 DEF BoundedHanded
<1>10. (pages + 1) * PageSize = pages * PageSize + PageSize
  BY DEF TypeOK
<1>11. pages * PageSize \in Nat
  BY DEF TypeOK
<1>12. Cardinality(Handed') \in Nat
  BY <1>5, <1>6, <1>7, <1>4, HandedIsFinite, FS_Union, FS_CardinalityType
<1>13. QED
  BY <1>2, <1>8, <1>9, <1>10, <1>11, <1>12, HandedIsFinite

LEMMA BoundedHandedStep == IInv /\ BoundedHanded /\ [Next]_vars => BoundedHanded'
<1>1. SUFFICES ASSUME IInv, BoundedHanded, [Next]_vars PROVE BoundedHanded'
  OBVIOUS
<1>2. TypeOK
  BY <1>1 DEF IInv
<1>3. CASE Resume
  BY <1>1, <1>3, NothingHanded DEF Resume
<1>4. CASE Follow
  BY <1>1, <1>4, NothingHanded DEF Follow
<1>5. CASE Leave
  BY <1>1, <1>5, NothingHanded DEF Leave
<1>6. ASSUME NEW p \in Answers(listing, token), PageArrives(p)
      PROVE  BoundedHanded'
  BY <1>1, <1>2, <1>6, PageHanded
<1>7. ASSUME NEW p \in Answers(listing, token), HoldersArrive(p)
      PROVE  BoundedHanded'
  BY <1>1, <1>7, NothingHanded DEF HoldersArrive
<1>8. CASE DecimalsEnd
  BY <1>2, <1>8 DEF DecimalsEnd, BoundedHanded, TypeOK
<1>9. CASE NullArrives
  <2>1. times' = times /\ reader' = reader /\ pages' = pages + 1 /\ Handed' = Handed
    BY <1>9 DEF NullArrives, Handed
  <2>2. pages * PageSize <= (pages + 1) * PageSize
    BY <1>2 DEF TypeOK
  <2>3. pages * PageSize \in Nat /\ (pages + 1) * PageSize \in Nat
    BY <1>2 DEF TypeOK
  <2>4. QED
    BY <1>1, <2>1, <2>2, <2>3, HandedIsFinite DEF BoundedHanded
<1>10. CASE CallRaises
  BY <1>1, <1>10, NothingHanded DEF CallRaises
<1>11. CASE RequestFails
  BY <1>2, <1>11 DEF RequestFails, BoundedHanded
<1>12. ASSUME NEW i \in Items, ListingChanges(i)
       PROVE  BoundedHanded'
  BY <1>1, <1>12, NothingHanded DEF ListingChanges
<1>13. CASE UNCHANGED vars
  BY <1>1, <1>13, NothingHanded DEF vars
<1>14. QED
  BY <1>1, <1>3, <1>4, <1>5, <1>6, <1>7, <1>8, <1>9, <1>10, <1>11, <1>12, <1>13
     DEF Next, ReadOn, CallEnds

LEMMA BoundedHandedInit == Init => BoundedHanded
<1>1. SUFFICES ASSUME Init PROVE BoundedHanded
  OBVIOUS
<1>2. Handed = {} /\ pages = 0
  BY <1>1 DEF Init, Handed
<1>3. Cardinality(Handed) = 0
  BY <1>2, FS_EmptySet
<1>4. QED
  BY <1>2, <1>3 DEF BoundedHanded

LEMMA BoundedImpliesWalk == IInv /\ BoundedHanded => WalkBounded
<1>1. SUFFICES ASSUME IInv, BoundedHanded, reader = "paginate"
               PROVE  /\ pages <= MaxPages
                      /\ Cardinality(Handed) <= MaxPages * PageSize
                      /\ pages = MaxPages => pc # "calling"
  BY DEF WalkBounded, Handed
<1>2. pages \in Nat /\ pages <= MaxPages /\ (pc = "calling" => pages < MaxPages)
  BY <1>1 DEF IInv, TypeOK, BoundedPages
<1>3. pages * PageSize <= MaxPages * PageSize
  BY <1>2
<1>4. pages * PageSize \in Nat /\ MaxPages * PageSize \in Nat
  BY <1>2
<1>5. Cardinality(Handed) <= pages * PageSize
  BY <1>1 DEF BoundedHanded
<1>6. QED
  BY <1>2, <1>3, <1>4, <1>5, HandedIsFinite

\* The generator hands out at most MaxPages pages and so many items, for every
\* bound and page size.
THEOREM WalkIsBounded == Spec => []WalkBounded
<1>1. Init => BoundedHanded
  BY BoundedHandedInit
<1>2. IInv /\ BoundedHanded /\ [Next]_vars => BoundedHanded'
  BY BoundedHandedStep
<1>3. IInv /\ BoundedHanded => WalkBounded
  BY BoundedImpliesWalk
<1>4. QED
  BY <1>1, <1>2, <1>3, Inductive, PTL DEF Spec

------------------------------------------------------------------------------
(* Refinement.                                                             *)

LEMMA InitRefines == Init => Promise!Init
<1>1. SUFFICES ASSUME Init PROVE Promise!Init
  OBVIOUS
<1>2. Verdict = "reading"
  BY <1>1 DEF Init, Verdict
<1>3. QED
  BY <1>1, <1>2 DEF Init, Promise!Init

\* A reader ends with a verdict the promise allows: it says "whole" only of a
\* page without a cursor, and then every lasting item was handed out once.
LEMMA EndRefines ==
    ASSUME IInv, pc # "done", pc' = "done", UNCHANGED <<token, held, times, lasting>>
    PROVE  Promise!Next
<1>1. Verdict = "reading" /\ Verdict' \in {"whole", "unfinished"}
  BY DEF Verdict
<1>2. Verdict' = "whole" => \A i \in lasting : times[i] = 1
  BY DEF Verdict, IInv, HandedUpToCursor
<1>3. Promise!End(Verdict')
  BY <1>1, <1>2 DEF Promise!End
<1>4. QED
  BY <1>1, <1>3 DEF Promise!Next

\* A page handed out is a delivery of items never delivered before.
LEMMA PageRefines ==
    ASSUME IInv, NEW p, GoodPage(p), HandOut(p), pc \in {"calling", "decimals"},
           UNCHANGED worldVars
    PROVE  Promise!Next
<1>1. /\ \A i \in p.items : times[i] = 0
      /\ times' = [i \in Items |-> IF i \in p.items THEN 1 ELSE times[i]]
      /\ pc' = "ready"
  BY HandOutKeepsOrder DEF IInv, CallHasCursor, worldVars
<1>2. Verdict = "reading" /\ Verdict' = "reading"
  BY <1>1 DEF Verdict
<1>3. p.items \in SUBSET Items
  BY DEF GoodPage, Payloads
<1>4. Promise!Deliver(p.items)
  BY <1>1, <1>2 DEF Promise!Deliver, worldVars
<1>5. QED
  BY <1>3, <1>4 DEF Promise!Next

LEMMA NextRefines ==
    IInv /\ [Next]_vars => [Promise!Next]_<<lasting, times, Verdict>>
<1>1. SUFFICES ASSUME IInv, [Next]_vars, ~UNCHANGED <<lasting, times, Verdict>>
               PROVE  Promise!Next
  OBVIOUS
<1>a. TypeOK /\ CallHasCursor
  BY <1>1 DEF IInv
<1>b. ASSUME UNCHANGED <<token, held, times, lasting>>, pc' = "done"
      PROVE  Promise!Next
  <2>1. pc # "done"
    BY <1>1, <1>b DEF Verdict
  <2>2. QED
    BY <1>1, <1>b, <2>1, EndRefines
<1>c. ASSUME UNCHANGED <<times, lasting>>, pc # "done", pc' # "done"
      PROVE  FALSE
  BY <1>1, <1>c DEF Verdict
<1>2. CASE Resume
  BY <1>2, <1>b, <1>c DEF Resume, worldVars
<1>3. CASE Follow
  BY <1>3, <1>b, <1>c DEF Follow, worldVars
<1>4. CASE Leave
  BY <1>4, <1>b DEF Leave, worldVars
<1>5. ASSUME NEW p \in Answers(listing, token), PageArrives(p)
      PROVE  Promise!Next
  BY <1>1, <1>5, <1>a, AnswersAreGood, PageRefines DEF PageArrives
<1>6. ASSUME NEW p \in Answers(listing, token), HoldersArrive(p)
      PROVE  Promise!Next
  BY <1>6, <1>c DEF HoldersArrive, worldVars
<1>7. CASE DecimalsEnd
  BY <1>1, <1>7, <1>a, PageRefines DEF DecimalsEnd, CallHasCursor
<1>8. CASE NullArrives
  BY <1>8, <1>c DEF NullArrives, worldVars
<1>9. CASE CallRaises
  BY <1>9, <1>b DEF CallRaises, worldVars
<1>10. CASE RequestFails
  BY <1>10, <1>b, <1>c DEF RequestFails, worldVars
<1>11. ASSUME NEW i \in Items, ListingChanges(i)
       PROVE  Promise!Next
  <2>1. Verdict' = Verdict /\ times' = times /\ lasting' \in SUBSET lasting
    BY <1>11 DEF ListingChanges, Verdict
  <2>2. Promise!Shrink
    BY <2>1 DEF Promise!Shrink
  <2>3. QED
    BY <2>2 DEF Promise!Next
<1>12. CASE UNCHANGED vars
  BY <1>1, <1>12 DEF vars, worldVars, Verdict
<1>13. QED
  BY <1>1, <1>2, <1>3, <1>4, <1>5, <1>6, <1>7, <1>8, <1>9, <1>10, <1>11, <1>12
     DEF Next, ReadOn, CallEnds

\* Reading a listing page by page keeps the promise: nothing twice, and a
\* listing that looks whole has every item that was there all along, whatever
\* the page size and the bound and however often the listing changes.
THEOREM ReadsWholeHolds == Spec => ReadsWhole
<1>1. Init => Promise!Init
  BY InitRefines
<1>2. IInv /\ [Next]_vars => [Promise!Next]_<<lasting, times, Verdict>>
  BY NextRefines
<1>3. QED
  BY <1>1, <1>2, Inductive, PTL DEF Spec, ReadsWhole, Promise!Spec
==============================================================================
