----------------------------- MODULE HoldingsPage -----------------------------
(***************************************************************************)
(* get_address_token_balances: a page of holdings is fetched, then the     *)
(* metadata of each distinct asset on it, by tasks that share a semaphore  *)
(* of ResolveConcurrency slots and that asyncio.gather awaits.  Several    *)
(* pages are served at once, each with a semaphore of its own.             *)
(*                                                                         *)
(* gather raises the first exception of a task while the other tasks run   *)
(* on, so the lookups of a page can outlive its answer.                    *)
(***************************************************************************)
EXTENDS ErrorHandler, FiniteSets, Amounts, Payload

CONSTANTS
    Pages,               (* requests for a page of holdings                *)
    Prompt,              (* those whose upstream calls all end             *)
    Assets,
    Decimals,            (* asset -> the decimals of its metadata, or None *)
    Listings,            (* pages the indexer may list: sequences of an    *)
                         (* asset, None for a record without one, and an   *)
                         (* amount                                         *)
    ResolveConcurrency   (* RESOLVE_CONCURRENCY                            *)

ASSUME PageAssumption ==
    /\ Prompt \subseteq Pages
    /\ Decimals \in [Assets -> Nat \cup {None}]
    /\ Listings \subseteq Seq([asset : Assets \cup {None}, amount : Nat])
    /\ ResolveConcurrency \in Nat \ {0}
    /\ IsFiniteSet(Assets)
    /\ None \notin Assets /\ None \notin Nat \cup DecimalStrings

VARIABLES
    stage,               (* where each handler is                          *)
    holdings,            (* the page the indexer listed                    *)
    lookup,              (* page -> asset -> the state of resolve_one      *)
    slots,               (* the value of each page's semaphore             *)
    answer               (* the response: a status, and the items of a 200 *)

vars == <<stage, holdings, lookup, slots, answer>>

Stages == {"new", "listing", "resolving", "done"}
Ended == {"resolved", "empty", "unresolved", "crashed"}
Lookups == {"none", "queued", "running"} \cup Ended

Init ==
    /\ stage = [r \in Pages |-> "new"]
    /\ holdings = [r \in Pages |-> <<>>]
    /\ lookup = [r \in Pages |-> [a \in Assets |-> "none"]]
    /\ slots = [r \in Pages |-> ResolveConcurrency]
    /\ answer = [r \in Pages |-> None]

Respond(r, status, items) ==
    /\ stage' = [stage EXCEPT ![r] = "done"]
    /\ answer' = [answer EXCEPT ![r] = [status |-> status, items |-> items]]

\* map_account_assets: every holding, with the metadata known of its asset.
\* An asset missing from params and one with empty params read the same.
Item(holding, known) ==
    LET described == holding.asset \in known
    IN  [asset |-> holding.asset,
         described |-> described,
         value |-> holding.amount,
         valueDecimal |-> IF described /\ Decimals[holding.asset] # None
                          THEN DecimalString(holding.amount, Decimals[holding.asset])
                          ELSE None]

MapAccountAssetsDropsMutant(page, known) ==     \* only what was resolved
    LET kept == SelectSeq(page, LAMBDA holding : holding.asset \in known)
    IN  [i \in DOMAIN kept |-> Item(kept[i], known)]

MapAccountAssets(page, known) == [i \in DOMAIN page |-> Item(page[i], known)]

Listed(page) == {page[i].asset : i \in DOMAIN page} \ {None}

------------------------------------------------------------------------------
\* validate_address: a malformed address is refused before any upstream call.
Refuse(r) ==
    /\ stage[r] = "new"
    /\ Respond(r, 400, <<>>)
    /\ UNCHANGED <<holdings, lookup, slots>>

Ask(r) ==
    /\ stage[r] = "new"
    /\ stage' = [stage EXCEPT ![r] = "listing"]
    /\ UNCHANGED <<holdings, lookup, slots, answer>>

\* The page arrives.  With resolve, one task per distinct asset is created;
\* with none to create, gather has nothing to wait for.
Arrives(r, page, resolve) ==
    /\ stage[r] = "listing"
    /\ holdings' = [holdings EXCEPT ![r] = page]
    /\ LET ids == IF resolve THEN Listed(page) ELSE {}
       IN  IF ids = {}
           THEN /\ Respond(r, 200, MapAccountAssets(page, {}))
                /\ UNCHANGED lookup
           ELSE /\ stage' = [stage EXCEPT ![r] = "resolving"]
                /\ lookup' = [lookup EXCEPT ![r] =
                                 [a \in Assets |-> IF a \in ids THEN "queued" ELSE "none"]]
                /\ UNCHANGED answer
    /\ UNCHANGED slots

\* account_assets raises: an AlgorandError, attributed by its handler, or
\* anything else, which is a 500.
ListingErrors == {Attributed(failure) : failure \in Failures} \cup {500}

ListingFails(r, status) ==
    /\ stage[r] = "listing"
    /\ Respond(r, status, <<>>)
    /\ UNCHANGED <<holdings, lookup, slots>>

\* "async with semaphore" of resolve_one.
AcquireSharedMutant(r, a) ==              \* one semaphore for all the pages
    /\ lookup[r][a] = "queued"
    /\ Cardinality({p \in Pages \X Assets : lookup[p[1]][p[2]] = "running"})
          < ResolveConcurrency
    /\ slots' = [slots EXCEPT ![r] = @ - 1]
    /\ lookup' = [lookup EXCEPT ![r][a] = "running"]
    /\ UNCHANGED <<stage, holdings, answer>>

AcquireUnboundedMutant(r, a) ==           \* the guard is off by one
    /\ lookup[r][a] = "queued"
    /\ slots[r] >= 0
    /\ slots' = [slots EXCEPT ![r] = IF @ = 0 THEN 0 ELSE @ - 1]
    /\ lookup' = [lookup EXCEPT ![r][a] = "running"]
    /\ UNCHANGED <<stage, holdings, answer>>

Acquire(r, a) ==
    /\ lookup[r][a] = "queued"
    /\ slots[r] > 0
    /\ slots' = [slots EXCEPT ![r] = @ - 1]
    /\ lookup' = [lookup EXCEPT ![r][a] = "running"]
    /\ UNCHANGED <<stage, holdings, answer>>

\* c.asset returns, or raises an AlgorandError (which resolve_one catches) or
\* anything else (which it does not).  Either way the slot is released.
LookupLeaksMutant(r, a, end) ==           \* a crash keeps its slot
    /\ lookup[r][a] = "running"
    /\ lookup' = [lookup EXCEPT ![r][a] = end]
    /\ slots' = [slots EXCEPT ![r] = IF end = "crashed" THEN @ ELSE @ + 1]
    /\ UNCHANGED <<stage, holdings, answer>>

LookupEnds(r, a, end) ==
    /\ lookup[r][a] = "running"
    /\ lookup' = [lookup EXCEPT ![r][a] = end]
    /\ slots' = [slots EXCEPT ![r] = @ + 1]
    /\ UNCHANGED <<stage, holdings, answer>>

\* gather returns: every task ended, none by an exception of its own.
Gathered(r) ==
    /\ stage[r] = "resolving"
    /\ \A a \in Assets : lookup[r][a] \in Ended \cup {"none"}
    /\ \A a \in Assets : lookup[r][a] # "crashed"
    /\ Respond(r, 200, MapAccountAssets(holdings[r],
                                        {a \in Assets : lookup[r][a] = "resolved"}))
    /\ UNCHANGED <<holdings, lookup, slots>>

\* gather raises as soon as one task has; the others keep running.
GatherRaisesMutant(r) ==                  \* AlgorandErrors are not caught
    /\ stage[r] = "resolving"
    /\ \E a \in Assets : lookup[r][a] \in {"crashed", "unresolved"}
    /\ Respond(r, 500, <<>>)
    /\ UNCHANGED <<holdings, lookup, slots>>

GatherRaises(r) ==
    /\ stage[r] = "resolving"
    /\ \E a \in Assets : lookup[r][a] = "crashed"
    /\ Respond(r, 500, <<>>)
    /\ UNCHANGED <<holdings, lookup, slots>>

ListingEnds(r) ==
    \/ \E page \in Listings, resolve \in BOOLEAN : Arrives(r, page, resolve)
    \/ \E status \in ListingErrors : ListingFails(r, status)

Next ==
    \E r \in Pages :
        \/ Refuse(r)
        \/ Ask(r)
        \/ \E page \in Listings, resolve \in BOOLEAN : Arrives(r, page, resolve)
        \/ \E status \in ListingErrors : ListingFails(r, status)
        \/ \E a \in Assets : \/ Acquire(r, a)
                             \/ \E end \in Ended : LookupEnds(r, a, end)
        \/ Gathered(r)
        \/ GatherRaises(r)

\* The event loop runs every task that can run, and each upstream call of a
\* Prompt page ends (UpstreamCall's CallsEnd); those of other pages may hang.
Fairness ==
    \A r \in Prompt :
        /\ WF_vars(ListingEnds(r))
        /\ WF_vars(Gathered(r) \/ GatherRaises(r))
        /\ \A a \in Assets :
              /\ WF_vars(Acquire(r, a))
              /\ WF_vars(\E end \in Ended : LookupEnds(r, a, end))

Spec == Init /\ [][Next]_vars /\ Fairness

------------------------------------------------------------------------------
(* Type invariant.                                                         *)
TypeOK ==
    /\ stage \in [Pages -> Stages]
    /\ holdings \in [Pages -> Listings \cup {<<>>}]
    /\ lookup \in [Pages -> [Assets -> Lookups]]
    /\ slots \in [Pages -> 0 .. ResolveConcurrency]
    /\ \A r \in Pages : answer[r] # None =>
          \A i \in DOMAIN answer[r].items : answer[r].items[i].asset \in Assets \cup {None}

\* At most ResolveConcurrency lookups of a page are under way ("bounded because
\* an unbounded fan-out on a public keyless endpoint is a good way to get
\* rate-limited", service.py:291), before its answer and after it, and no slot
\* is ever lost or released twice.
FanOutBounded ==
    \A r \in Pages :
        Cardinality({a \in Assets : lookup[r][a] = "running"}) + slots[r]
            = ResolveConcurrency

\* A page that is answered lists every holding, in the indexer's order, and an
\* asset whose lookup failed costs its own description and nothing else ("a
\* destroyed ASA 404s; the holding is still real", service.py:301).
WholePage ==
    \A r \in Pages : answer[r] # None /\ answer[r].status = 200 =>
        /\ DOMAIN answer[r].items = DOMAIN holdings[r]
        /\ \A i \in DOMAIN holdings[r] :
              LET a == holdings[r][i].asset
              IN  /\ answer[r].items[i].asset = a
                  /\ answer[r].items[i].described <=>
                        a \in Assets /\ lookup[r][a] = "resolved"

\* What is written next to an amount is that amount: no digit is lost or moved
\* at the boundary between whole units and decimals, and an asset whose
\* decimals are not known has none ("without float", mapping.py:68).
AmountsAreExact ==
    \A r \in Pages : answer[r] # None =>
        \A i \in DOMAIN answer[r].items :
            LET item == answer[r].items[i]
                known == item.described /\ Decimals[item.asset] # None
            IN  /\ item.value = holdings[r][i].amount
                /\ known <=> item.valueDecimal # None
                /\ known => /\ Says(item.valueDecimal, item.value, Decimals[item.asset])
                            /\ Plain(item.valueDecimal)

\* Once the indexer has listed the page, only an exception resolve_one does not
\* name can fail it.
FailureIsolated ==
    \A r \in Pages :
        /\ \E a \in Assets : lookup[r][a] # "none"
        /\ answer[r] # None /\ answer[r].status # 200
        => \E a \in Assets : lookup[r][a] = "crashed"

\* A page whose own upstream calls end is answered, even while every lookup of
\* another page hangs.
PageAnswered == \A r \in Prompt : stage[r] = "listing" ~> stage[r] = "done"

\* Every lookup ends, those a failed page left behind included.
LookupsEnd ==
    \A r \in Prompt, a \in Assets : lookup[r][a] = "queued" ~> lookup[r][a] \in Ended
==============================================================================
