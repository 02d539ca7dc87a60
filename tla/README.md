# Algorandscout in TLA+

A verification development of `algorandscout`, the read-only explorer API over Algorand's
node (algod) and archive (indexer). The modules model the program in `src/algorandscout`;
TLC checks them on small instances and TLAPS proves the central properties for every value
of the constants. `PROJECT.json` maps each definition to the lines it translates, and lists
the hazards of the code at the line where each bites, with the properties that catch it.

## The system

One asyncio process. Requests are tasks on one event loop: between two `await`s a handler
runs alone, and at each `await` anything may happen. What they share is one `TTLCache`, one
`AlgorandClient` (with one `aiohttp` session) and the `METRICS` counters. Nothing is
persisted, so a restart is an initial state and there is no recovery to model.

| Component | State it keeps | Operations | What is hard | What makes it correct |
|---|---|---|---|---|
| `cache.TTLCache` | an `OrderedDict` of (kind, key) to (stored_at, value); four counters | `get`, `set`, `clear` | LRU and TTL together, one bound for all kinds | bounded, if not per kind as its docs say; every entry accounted for; evicts only the least recently used; ages from the last set |
| `TTLCache.get_or_fetch` and the cached routes | none of their own | lookup, fetch, store | the fetch is awaited between lookup and store, and nothing is locked meanwhile | the right object, boundedly old; a stuck fetch blocks nobody |
| `client.AlgorandClient._get` | the session, whether it is owned | a call of up to MAX_RETRIES attempts, `close` | Retry-After, timeouts in mid-body, sessions closed under a running call | the last attempt is reported; pauses are those asked for; every call ends; no session leaks |
| `client.AlgorandClient.paginate`, routes with `next_page_params` | a cursor | one page after another | the listing changes between pages; a bound cuts the walk | nothing twice; what lasted is not missed, or the reader can tell |
| `client.AlgorandConfig` | two URLs and a label, constant after start | `__post_init__` | three sources of each URL, independent of the label | no other chain is served under a label without a warning |
| `/health`, `/readyz`, `/api/v2/stats`, `/api/v2/blocks` | none | two or three calls each | samples of a moving chain, of two upstreams | an answer was true at some instant of the request |
| `/api/v2/addresses/{address}/token-balances` | a semaphore per request | listing, fan-out, `gather` | partial failure; lookups that outlive their answer | a failed lookup costs one description; amounts are exact |
| `/api/v2/search` | none | one or two probes | exceptions swallowed for one shape of term and not for another | what exists is found and can be opened; an outage of the name search shows (one of an exact lookup is swallowed) |
| error handlers, middleware, `metrics.Metrics` | the counters | `algorand_error_handler`, `validation_error_handler`, `observability`, `render` | handlers count before the middleware does; three ways to leave it | blame, status and counters agree at every scrape |
| `validation` | none | `validate_*`, `classify_query` | borderline terms | search and routes agree on what is a number; a typo is caught |
| `mapping` | none | `map_*`, `decimal_string` | closes, clawbacks, rekeying, inner transactions, zero spelled as unset | books kept from mapped transactions differ from the chain by the rewards it paid only |
| `capabilities`, `__main__` | none | tables and argument parsing | nothing | not modelled |

## Modules

| Module | Models |
|---|---|
| `CacheData` | the `OrderedDict` as operators on a sequence: look up, remove, move to end, store, trim |
| `TTLCache` | the object of `cache.py`, one action per outcome of `get`, `set`, `clear` |
| `CacheHistory` | `TTLCache` under arbitrary legal calls, with history variables (`setAt`, `touched`, `fate`, `inserted`) that never guard a step |
| `FreshRead` | abstract: what a reader is promised, with no cache in sight |
| `ReadThrough` | `get_or_fetch` as the block, transaction, asset and application handlers run it concurrently; refines `FreshRead` |
| `UpstreamCall` | `AlgorandClient._get` and its session: attempts, bodies, timeouts, pauses, `close()` |
| `WholeListing` | abstract: what whoever reads a listing is promised, whatever its pages are made of |
| `Paginate` | `AlgorandClient.paginate` and the readers of `next_page_params` (transactions, holders) against a listing that changes; refines `WholeListing` |
| `Config` | `AlgorandConfig.__post_init__` as operators: precedence, defaults, refusal to start, warnings |
| `ErrorHandler` | the decision of `algorand_error_handler`, shared by the modules below |
| `ChainView` | the reporting routes as sequences of calls against a moving node and archive, under any `Config` |
| `Amounts` | `decimal_string`, digit by digit, and what a reader makes of such a string |
| `HoldingsPage` | `get_address_token_balances`: listing, semaphore, `asyncio.gather`, `map_account_assets` |
| `Validation` | `validation.py` on terms |
| `Search` | `/api/v2/search`: probes in order against a changing chain |
| `Metrics` | the `METRICS` object as bags, and what `render` exposes |
| `Service` | the process: middleware, exception handlers, local replies, upstream routes, the search, cancellation, scrapes |
| `Payload` | what the payloads of both upstreams have in common: `None`, a key left out or null |
| `TransactionMapping` | `map_transaction`, `map_block`, `map_account`, `map_asset` |
| `LedgerReplay` | external Algorand chain, the indexer's spellings of its objects, and an auditor who keeps books from what is mapped |
| `*Proofs` | the theorems below, one module per component |
| `MC*` | TLC instances |

How they compose:

    CacheData <- TTLCache <- CacheHistory
    CacheData <- ReadThrough ............ refines FreshRead
    UpstreamCall
    Paginate ............................ refines WholeListing
    ErrorHandler, Config <- ChainView
    ErrorHandler, Amounts <- HoldingsPage
    Validation, ErrorHandler <- Search;   Search, Metrics <- Service
    TransactionMapping <- LedgerReplay;   Payload <- TransactionMapping, HoldingsPage

In `ReadThrough`, `Paginate`, `ChainView`, `HoldingsPage` and `Service` an upstream call is
atomic at the instant the upstream reads its state. Its outcomes are those `UpstreamCall`
shows a call to have: a payload (perhaps null), an AlgorandError with or without a status,
or an exception of another kind. That such a call ends is what `UpstreamCall` establishes as
`CallsEnd`; the other modules assume it where they say so.

### Correspondence

*Cache.* The sequence `data` is the dictionary in its own order, oldest first. A method body
runs under the lock, so one call is one step. Time is `time.monotonic()` in ticks.

*ReadThrough.* `pc[t]` is `asked` before `get`, `fetching` and `sending` while `await fetch()`
is pending (before and after the upstream has read its state), and `idle` otherwise. Lookup is
one step; set and return are one step, because no await separates them. A payload is the
object it describes, the moment the upstream read it and whether it is null; the cached value
`None` is a miss for `get_or_fetch` although `get` counted a hit. `FetchFails` stands for every
way a fetch can raise, cancellation included.

*UpstreamCall.* An attempt is `waiting` for a status line, then `reading` a body. A transport
failure or the total timeout can strike in either, so an error response whose body cannot be
read is retried even if it was a 4xx. `last`, `retryAfter` and `attempt` are the local
variables; `using` is the session captured before the loop. Undecodable bodies and closed
sessions raise exceptions no `except` names (`Crash`). `heard` and `spent` are history.

*Paginate.* `token` is the cursor the reader would send next; `held` is the last thing handed
out (nothing, a page or a null body). The generator counts `pages` up to `MaxPages`. The reader
of a route may repeat a request that failed; the holders route has fetched its page and not yet
sent it while it asks for the decimals (`pc = "decimals"`, `pending`). A cursor is the id of the
last item of its page, in the indexer's order; items join and leave anywhere. `Verdict` is what
the reader can conclude at the end, and only that is compared with `WholeListing`.

*Config and ChainView.* A URL is the set of networks its text names and the chain behind it,
which the program cannot see. `settings` is chosen at start among those the constructor accepts.
`heard[t]` holds what each call of the request returned; a null body is remembered and raises
where the code reads its fields. `truth` is history. Node and archive are external: rounds only
grow, and the archive trails its node, unless the two URLs belong to different chains.

*HoldingsPage and Amounts.* `lookup[r][a]` is the state of `resolve_one` for one distinct asset,
`slots[r]` the semaphore. `gather` raises on the first exception while the other tasks run on.
An amount is written as a sign and two sequences of digits, with the padding, the cut and the
stripping the code does.

*Validation and Search.* A term is a record of what the code can tell of it: its length, whether
it is base32, whether `isdigit()` holds, the number `int()` makes of it, whether its checksum is
right; and what it cannot: whether it is the canonical spelling of its bytes. `matching` is
external and changes between probes. `asked`, `failed` and `always` are history.

*Service.* `stage[q]` is where a request is: `handling`, `awaiting` its upstream, `answered` when an
exception handler or the route has made a response, `raised` when an exception passed them all.
`response[q]` is what was sent, or `Gone` for a request that was cancelled. `Attribute` (the
exception handler, counting the upstream failure) and `Deliver` (the middleware, counting the
request) are separate steps, because FastAPI runs them in different tasks. `Attribute` counts every
failure under "indexer", as the code does, whichever upstream it was. A cached payload is answered
like a fetched one (`Replies`), a 404 for a transaction it lacks included, or cannot be mapped
(`CachedRaises`). A scrape reads `METRICS` in any state, so what it must show is an invariant of
`Rendered(metrics)`. The search is `Search` unchanged, through `SearchRuns`; its stage is read off
its `pc`. The other routes ask one upstream each; which client method that is makes no difference
here.

*TransactionMapping and LedgerReplay.* A key a payload lacks (`Absent`) is not a null (`None`):
`Get`, `GetAmount`, `OrZero`, `OrNone` and `StrOf` do to each what `d.get(k)`, `d.get(k, 0)`,
`x or 0`, `x or None` and `str(x)` do. A transaction is the sequence of itself and its inner
transactions in order of execution, each with its depth, so `map_transaction`, which calls itself
on the inner ones, is `Mapped` of each, at any depth and of any number. On the chain, which is
external, an outer transaction is followed by inner ones (`Depths`) until it is confirmed; each
executes one deed, which is one movement with an optional close and rekeying, or none. Whoever
it touches is first paid the rewards it is `due`; the payload lists them, the mapper drops them,
`unreported` adds them up. `Indexed` gives the payload in each spelling: what is zero or unset is
left out or spelled out, `close-amount` stands in the detail, at the top or at both. No captured
payload has a null, nor a zero address for the sender of an ordinary asset transfer, so the chain
has none either. The auditor replays mapped blocks and reads mapped accounts and assets; nothing
of the chain's own state reaches the books.

## What the runs show

| Run | Expect | Shows | Bounds | Distinct states |
|---|---|---|---|---|
| `cache` | pass | `Conservation`, `WorkingSet`, `AgeFromLastSet` | 3 kinds (one never cached), 2 keys, 2 entries, 6 calls, 3 ticks, TTLs 3 and 1 | 234,544 |
| `cache_per_kind` | violation | `SizedPerKind`: one kind evicts another's entries | as above | |
| `readthrough` | pass | `KeepsPromise` (refinement of `FreshRead`), `PromptServed` | 2 handlers, 3 requests, 3 kinds, 1 entry, 4 ticks | 411,794 |
| `readthrough_tip` | violation | `ConfirmationsFromTip`: cached confirmations stand still | 1 handler, 2 requests | |
| `upstream_call` | pass | `HonestOutcome`, `BoundedCall`, `SessionOwnership`, `PauseFromThisAnswer`, `CallsEnd` | 2 calls, 3 attempts, statuses 200, 400, 404, 429, headers absent, negative, above the cap | 1,428,819 |
| `chain_view` | pass | `LagIsHonest`, `StatsAgree`, `LatestIsLatest`, `LabelIsHonest` | 1 request, rounds 0 to 2, 9 settings | 475,323 |
| `holdings` | pass | `FanOutBounded`, `WholePage`, `FailureIsolated`, `AmountsAreExact`, `PageAnswered`, `LookupsEnd` | 2 pages, 3 assets, 2 slots, 7 amounts, decimals 2, 0 and none | 148,996 |
| `paginate` | pass | `WalkBounded`, `ReadsWhole` (refinement of `WholeListing`), `ReaderEnds` | 5 items, pages of 2, 2 pages, 2 changes of the listing, 1 repeated request | 210,861 |
| `service` | pass | `LastingIsFound`, `OutageShows`, `BlameIsFair`, `FailuresExplained`, `AccountedFor`, `HistogramAddsUp`, `FoundCanBeOpened` | a search over 11 kinds of term and another request over 12 asks, 1 change of the chain, 2 bucket edges, 2 durations | 835,758 |
| `request_id` | violation | `EveryResponseIdentified`: a re-raised exception loses its X-Request-ID | as above | |
| `address_typo` | violation | `TypoCaughtByChecksum`: a wrong last character can pass | as above | |
| `ledger` | pass | `LedgerTypeOK`, `Reconciles`, `ConsentIsVisible`, `ControlIsVisible`, `ClawbackIsAnnounced`, `ClosureIsVisible`, `TotalIsAllItHeld` | 2 accounts, 1 asset, 2 blocks, 3 transactions executed, so an inner transaction of an inner call, or two of one call | 311,643 |

`cache`, `readthrough`, `service` and `ledger` check the type invariant of their modules as well.
That of `UpstreamCall`, `ChainView`, `HoldingsPage` and `Paginate` is proved (`TypeCorrect` of each)
and not checked again.

Why the bounds are enough. Two entries and three cacheable identifiers or more make every order of
use, overwrite, expiry and eviction happen within six calls. Two handlers are enough for a fetch to
overtake another on the same key and for an eviction in between. A third attempt is needed for a
Retry-After to outlive its own answer, a second call for a session to be replaced under a running
one. Rounds 0 to 2 let the node move before and after a sample; a request of `ChainView` shares
nothing with another. The settings hold each precedence, each kind of URL (named, unnamed, misnamed)
and each way of mixing two chains. One page of holdings has more assets than slots, a record without
an asset and an asset without decimals, and a second page may hang; the amounts lie on both sides of
each power of ten where a digit could be lost. Five items in pages of two let the bound of two pages
cut a walk, and two changes let an item leave where the cursor stands and another join. The
durations 1 and 4 lie on the first edge and beyond the last of <<1, 3>>. The terms of `service` are
one of each kind the code tells apart and the borderline ones: an address mistyped in the middle and
at the end, one made of digits only, an id beyond uint64, a negative one, a digit `int()` refuses, a
transaction id in another spelling of its bytes. Two transactions let a close be followed by a
transfer from the account that received it, and a rekeying by its reset. Three executed transactions
let a call make a call that makes a transaction, or one call make two.

Every bound is a constant named in the module: `MaxCalls`, `MaxTime`, `MaxRequests`, `MaxRound`,
`MaxChanges`, `MaxFailures`, `MaxTransactions` and `MaxExecuted` count steps; `Sums`, `Rewards`,
`RekeyTargets` and `RoleHolders` limit what a transaction on the chain may be; `Statuses`,
`RetryAfters`, `Terms`, `Asks` and `Durations` are the inputs. What is proved below holds for any
value of them. What is fixed in the definitions is fixed there too: one search beside any number
of other requests in `Service`, a `Retry-After` that is a number or missing, payloads without nulls
in `LedgerReplay`, and blocks of one outer transaction each, which the mapper maps one by one.

Runs that stop at a bound, or whose requests are all served, end in states without a successor;
they say `CHECK_DEADLOCK FALSE`.

### Fairness

The event loop runs every task and timer that is due, so handlers, lookups and timers are weakly
fair. Upstreams are not. `UpstreamCall` assumes that time passes (`Tick`) and that a timer that
ran out fires (`TimesOut`, `Wake`), and derives `CallsEnd`: no answer is ever assumed. `Paginate`
assumes that a call ends, one way or another (`CallEnds`), and that the reader goes on (`ReadOn`).
`ReadThrough` and `HoldingsPage` assume that the calls of the `Prompt` requests end and of no
others: the others may hang for ever, and the liveness properties say that they block nobody.
The other specifications state safety only and assume no fairness.

## What is proved

All theorems are for every value of the constants that satisfies the assumptions named in the
modules (`CacheAssumption`, `HistoryAssumption`, `ReadAssumption`, `CallAssumption`, the two
`PageAssumption`s, `ViewAssumption`, `ConfigAssumption`, `TermAssumption`, `SearchAssumption`,
`ServiceAssumption`, `BucketAssumption`, `LedgerAssumption`, `MappingAssumption`): sets of tasks,
requests, keys, items, terms, accounts and assets of any size, any TTLs, bounds, settings and
bucket edges, any `Retry-After` that is a number, any rewards and any nesting of inner transactions.

| Module | Theorems | The inductive invariant and why it is needed |
|---|---|---|
| `CacheHistoryProofs` | `TypeCorrect` (the bound included), `CountersConserve`, `WorkingSetSafe`, `AgeCounted` | identifiers occur once, `fate` is "held" exactly for those in the dictionary, and the entries behind an entry are exactly those touched since it was last used: so what falls off a full dictionary had MaxEntries others used since |
| `ReadThroughProofs` | `TypeCorrect`, `Refines` | every entry is genuine (of its own identifier, produced at most one fetch before it was stored), a payload in transit is of the object asked for; so an older payload that overwrites a newer one is harmless up to `FetchBound` |
| `UpstreamCallProofs` | `TypeCorrect`, `SessionsOwned`, `OutcomeHonest`, `CallBounded`, `PauseIsAsked` | after n attempts and m pauses a call has spent, with what its timer may still run, no more than n timeouts and m of the longest pauses; what was heard of each attempt but the last was worth retrying |
| `PaginateProofs` | `TypeCorrect`, `WalkIsBounded`, `ReadsWholeHolds` | up to the cursor every lasting item was handed out once, beyond it nothing was, and a page that waits for its decimals still begins at the cursor |
| `ChainViewProofs` | `TypeCorrect`, `LagHonest`, `StatsAgreeing`, `LatestRecent`, `LabelHonest` | what a request has heard is tied to the samples of the chain taken then, and samples are ordered as the calls are |
| `MappingProofs`, pages | `TypeCorrect`, `FanOutIsBounded`, `PagesAreWhole`, `FailuresAreIsolated`, `AmountsAlwaysExact`, `DecimalStringIsExact` | running lookups and free slots add up; a 200 was made from lookups that are all over, any other answer before there were any or after one crashed |
| `MappingProofs`, ledger | `LedgerInductive`, `LedgerTypeCorrect`, `BooksReconcile`, `ConsentIsAlwaysVisible`, `ClosureIsAlwaysVisible`, `TotalIsAlwaysAllItHeld`, `ControlIsAlwaysVisible`, `ClawbackIsAlwaysAnnounced` | what the auditor would know, had it read the transaction under way, is what the chain holds less the rewards paid, and who signs; an asset once declared free of clawback has lost the role for good; each entry of the listing, and of the last view, tells its deed |
| `ServiceProofs`, search | `SearchInside`, `SearchInductive`, `LastingIsAlwaysFound`, `OutagesShow`, `FoundCanAlwaysBeOpened` | of the search alone: each namespace that matched all along is found, failed or still ahead; what it found its term can match; a number it asked about is in range |
| `ServiceProofs`, counters | `AccountsKept`, `MetricsObserved`, `EveryResponseCounted`, `BlameIsAlwaysFair`, `ServiceTypeCorrect`, `FailuresAlwaysExplained`, `HistogramAlwaysAddsUp` | each counter is the cardinality of the set of requests of which something is true; a 502 is justified (by an upstream error already counted, or by the latest block) from the step that decides it until after it is sent |

`SearchInside` shows that `ServiceSpec` implements `Search`'s own specification, so what is proved
of a search alone holds beside any number of other requests. `Refines` and `ReadsWholeHolds` are
step simulations: initial states map to initial states, and every step to a step or a stutter.
`CacheDataProofs` holds the lemmas on the dictionary operators: what removing, moving to the end,
storing and trimming do to its length, its identifiers and their order.

*The ledger.* What `map_transaction` makes of a deed does not depend on how the indexer spells it
(`DeedIsTold`), and what moves nothing tells of nothing but a fee and a rekeying (`QuietIsTold`). A
listing grows by one transaction at a time, its mapping by one entry (`MapGrows`) and its replay by
one step (`ReplayGrows`, from the existence and uniqueness of the function `Replay` defines), so
the invariant speaks of the listing under way and not only of confirmed ones. What the auditor
posts for a deed is what the chain executed (`DeedPosted`, `QuietPosted`), and posting shifts along
with the rewards the books lack (`ShiftPosted`), through a close that sweeps such rewards on too.
So each step takes books and chain to the same place. Nothing about the movements is bounded: any
amounts and rewards, a close on top of a payment, to the receiver, a payment to oneself, any of
them rekeying its sender, any number of inner transactions at any depth.

*The counters.* A step sends or cancels at most one response (`StepsCount`). `FailuresExplained` and
`HistogramAddsUp` sum counters over labels and codes. That such a sum is the number of requests
whose label or code is in the set is `SumCounts`: were it wrong for some set, it would be wrong for
a smallest one (`SmallestMember`), which is neither empty nor more than one element away from one
for which it is right. The finite sums are taken through named operators (`LabelSum`, `KeySum`),
whose meaning on the empty set and on one element more comes from the definition of the fold.

*Amounts.* `DecimalStringIsExact` is about the operators alone: any integer, any number of
decimals. `Number`, by which a reader of a string is modelled, folds over its digits; `NumberRead`
replaces the fold by the values read up to each place (`Reads`). `Digits` recurses over n; at the
least number written wrongly (`LeastNumber`) a tenth of it would be wrong too, which is
`DigitsWritten`. Zeros in front change no value (`PaddedRead`), and what the cut and the stripping
take apart, the reader's padding restores (`Rejoined`).

Only model-checked: the liveness properties `PromptServed`, `CallsEnd`, `PageAnswered`, `LookupsEnd`
and `ReaderEnds`, since fairness and `ENABLED` are beyond the prover. Every other property of a
passing run is stated by a theorem.

## Divergences found

- *Confirmations* (`readthrough_tip`, `ConfirmationsFromTip`): `get_transaction` subtracts from
  the `current-round` that was cached with the transaction, so the count is up to an hour old.
- *Request ids* (`request_id`, `EveryResponseIdentified`): an exception no handler names is
  re-raised by the middleware, and the server's own 500 carries no `X-Request-ID`.
- *Checksums* (`address_typo`, `TypoCaughtByChecksum`): the last character of an address carries
  two bits that decode to nothing, so three wrong last characters pass `validate_address`.
- *One bound for all kinds* (`cache_per_kind`, `SizedPerKind`): the cache is documented as sized per
  kind, and one kind evicts the entries of another.
- *Digits `int()` refuses* (`request_id`, whose shortest trace it is): a search for a superscript
  digit passes `isdigit()` and ends as a 500, where validation.py promises "Always a 4xx".
- *Upstream label* (`service`, `BlameIsFair`): every failure is counted under "indexer", those of the
  node too, in a counter exposed as being by target.
- *Retried 4xx* (`upstream_call`, `HonestOutcome`): a 4xx whose body is lost on the way is retried,
  against "4xx never". The property holds because it counts a lost body as worth retrying.
- *Rewards* (`ledger`, `Reconciles`): the rewards a payload lists appear nowhere in the mapped
  transaction, so books kept from it fall short by them. The property states exactly that.

Four more observations are part of the models and are not stated as properties. A search asks
the indexer about an address by its shape (`Shape`, `FirstProbe`), one with a wrong checksum
included, although README.md:97 says a malformed identifier never reaches the upstream. What an
exact lookup fails with, an outage too, is swallowed into an empty 200, and `OutageShows` speaks of
the name search alone. "Retried three times" means three attempts in all (`MaxRetries`). And a
`Retry-After` of `nan` passes `float()` and the clamp of `_parse_retry_after`, because every
comparison with it is false; what a sleep of that length does depends on the version of the event
loop, so this header is not among those modelled, and `BoundedCall` is checked and proved for
headers that are missing or a number.

## Not modelled, and why

- `capabilities` and `__main__`: constant tables and argument parsing.
- The rewards of a transaction, in the mapped object: the code drops them, and the models follow it.
  The chain of `LedgerReplay` pays them.
- A `Retry-After` of `nan`, and nulls inside the payloads of the ledger (see above).
- `map_application` and the decoding of its state entries, `classify_asset`, `iso` and the display
  fields of the other mappings (timestamps, labels, notes): each renames or formats one field and
  has no control; nothing in the program depends on their values.
- The computation of SHA-512/256 and base32: the flags `checksum` and `canonical` of a term stand
  for their results.
- The comparison of path segments in the passthrough: `Allowlisted` is its result.
- `latency_sum`, the cache gauges and the escaping of `/metrics`.

## What could follow

1. The steps of the cached handlers after `get_or_fetch` (a null payload, a payload without a
   transaction, mapping), so that `FreshRead` speaks of answers and not of payloads.
2. An abstract specification of an upstream call, one step to an outcome, that `UpstreamCall`
   implements and the modules that take a call as one step instantiate.
