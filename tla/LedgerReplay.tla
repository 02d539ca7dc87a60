----------------------------- MODULE LedgerReplay -----------------------------
(***************************************************************************)
(* An auditor reads every block through the explorer, with its             *)
(* transactions, and keeps books from what is mapped, never from the chain: *)
(* what each account holds and who signs for it.  Of each asset it reads   *)
(* the token object, now and then.                                         *)
(* The chain below is Algorand as the indexer reports it: payments, asset  *)
(* transfers, both with or without a close, clawbacks, changes of an        *)
(* asset's roles, and types that move nothing but the fee; any of them may *)
(* rekey its sender, and any may be an inner transaction of an application *)
(* call, or of one that call made.  An account that a transaction touches  *)
(* is first paid the rewards it is due, which a payload lists and the       *)
(* explorer leaves out.                                                    *)
(* It is external to the explorer; the explorer is TransactionMapping.     *)
(***************************************************************************)
EXTENDS TransactionMapping, SequencesExt

CONSTANTS
    Accounts,
    Tokens,
    Algo,            (* the native unit                                    *)
    Issuer,          (* who manages the assets, and has their roles first  *)
    App,             (* the id of the applications that are called         *)
    Supply,          (* account, unit -> what it holds at first            *)
    FirstSigner,     (* account -> who signs for it at first               *)
    Fee,             (* the fee of an outer transaction                    *)
    Rewards,         (* what each account may come to be due in a block    *)
    Spellings,       (* the ways the indexer may spell a payload           *)
    Sums,            (* bound: explicit amounts of a transfer              *)
    RekeyTargets,    (* bound: accounts others are rekeyed to              *)
    RoleHolders,     (* bound: accounts that roles are given to            *)
    MaxTransactions, (* bound: transactions confirmed                      *)
    MaxExecuted      (* bound: transactions executed, the inner ones too   *)

Units == Tokens \cup {Algo}
Holdings == Accounts \X Units
OptionalAccounts == Accounts \cup {None}

Roles(clawback, freeze) == [clawback |-> clawback, freeze |-> freeze]

\* The records that None must not be mistaken for.
Transfers ==
    [asset : Tokens, from : OptionalAccounts, to : Accounts, amount : Nat,
     closeTo : OptionalAccounts, isClawback : BOOLEAN]
Closes ==
    [closesAccount : BOOLEAN, to : Accounts, amount : Nat, valueTotal : Nat,
     asset : Tokens \cup {None}]
DeedsDone ==
    [unit : Units, source : Accounts, receiver : Accounts, closeTo : OptionalAccounts, held : Nat]

ASSUME LedgerAssumption ==
    /\ {None, Zero, Absent} \cap Accounts = {}
    /\ Algo \notin Tokens /\ {None, Absent, 0} \cap Units = {}
    /\ None \notin Nat \cup Transfers \cup Closes \cup DeedsDone
    /\ 0 \notin Accounts
    /\ Issuer \in Accounts
    /\ Supply \in [Holdings -> Nat] /\ FirstSigner \in [Accounts -> Accounts]
    /\ Fee \in Nat /\ Rewards \subseteq [Accounts -> Nat] /\ Sums \subseteq Nat
    /\ Spellings \subseteq [sparse : BOOLEAN, closing : {"detail", "top", "both"}]
    /\ RekeyTargets \subseteq Accounts /\ RoleHolders \subseteq Accounts
    /\ MaxTransactions \in Nat /\ MaxExecuted \in Nat

VARIABLES
    balance,         (* the chain: account, unit -> amount                 *)
    signer,          (* the chain: account -> who signs for it             *)
    roles,           (* the chain: asset -> its clawback and freeze roles  *)
    due,             (* the chain: account -> rewards it was not paid yet  *)
    pending,         (* the chain: the transaction being executed, as the
                        indexer will report it, with its inner ones        *)
    spelling,        (* how the indexer spells                             *)
    executed,        (* transactions executed, the inner ones too          *)
    confirmed,       (* transactions confirmed                             *)
    books,           (* the auditor's reconstruction of balance            *)
    signs,           (* the auditor's reconstruction of signer             *)
    safe,            (* assets it was once told nobody can claw back       *)
    view,            (* what the explorer says of the last transaction     *)
    before,          (* history: balance before that transaction           *)
    deeds,           (* history: what each part of it truly did            *)
    unreported       (* history: account -> rewards it was paid            *)

chainVars == <<balance, signer, roles, due, pending, executed, before, deeds, unreported>>
auditorVars == <<confirmed, books, signs>>
ledgerVars == <<chainVars, auditorVars, spelling, safe, view>>

Nothing == [a \in Accounts |-> 0]

LedgerInit ==
    /\ balance = Supply
    /\ signer = FirstSigner
    /\ roles = [x \in Tokens |-> Roles(Issuer, Issuer)]
    /\ due = Nothing
    /\ pending = <<>>
    /\ spelling \in Spellings
    /\ executed = 0
    /\ confirmed = 0
    /\ books = Supply
    /\ signs = FirstSigner
    /\ safe = {}
    /\ view = None
    /\ before = Supply
    /\ deeds = <<>>
    /\ unreported = Nothing

------------------------------------------------------------------------------
(* The chain.  A deed is one movement: source pays receiver, and if closeTo *)
(* is an account, whatever source has left goes there.                     *)

Take(b, account, unit, n) == [b EXCEPT ![<<account, unit>>] = @ - n]
Give(b, account, unit, n) == [b EXCEPT ![<<account, unit>>] = @ + n]
Move(b, from, to, unit, n) == Give(Take(b, from, unit, n), to, unit, n)

\* What is left to close, after the fee and the explicit amount.
Rest(b, d) ==
    IF d.closeTo = None THEN 0
    ELSE Move(b, d.source, d.receiver, d.unit, d.amount)[<<d.source, d.unit>>]

Executed(b, d) ==
    LET moved == Move(b, d.source, d.receiver, d.unit, d.amount)
    IN  IF d.closeTo = None THEN moved
        ELSE Move(moved, d.source, d.closeTo, d.unit, Rest(b, d))

\* What is remembered of a deed.
Done(b, d) ==
    [unit |-> d.unit, source |-> d.source, receiver |-> d.receiver, closeTo |-> d.closeTo,
     held |-> b[<<d.source, d.unit>>]]

\* Who signs afterwards: a rekeying comes first, a closed account starts anew.
Rekeyed(s, account, rekeyTo) ==
    IF rekeyTo = None THEN s ELSE [s EXCEPT ![account] = rekeyTo]

SignersAfter(d) ==
    LET rekeyed == Rekeyed(signer, d.signer, d.rekeyTo)
    IN  IF d.unit = Algo /\ d.closeTo # None
        THEN [rekeyed EXCEPT ![d.source] = d.source] ELSE rekeyed

\* Rewards: those who are touched are paid what they are due.
Claims(touched) == [a \in Accounts |-> IF a \in touched THEN due[a] ELSE 0]
Credited(b, claims) ==
    [p \in Holdings |-> IF p[2] = Algo THEN b[p] + claims[p[1]] ELSE b[p]]

\* A movement of the native unit touches whoever it moves it to.
Touched(d) ==
    {d.signer} \cup
        IF d.unit = Algo THEN {d.receiver, d.closeTo} \ {None} ELSE {}

\* The depth the next transaction may have: an outer one if none is under way,
\* else an inner one, one level down only right after a call.  The fee of an
\* inner one is pooled in that of the outer one.
Depths ==
    IF pending = <<>> THEN {0}
    ELSE 1 .. Last(pending).depth + (IF Last(pending).type = "appl" THEN 1 ELSE 0)

FeeAt(depth) == IF depth = 0 THEN Fee ELSE 0

\* What the accounts hold once the rewards and the fee are paid.
Funds(touched, by, depth) == Take(Credited(balance, Claims(touched)), by, Algo, FeeAt(depth))

------------------------------------------------------------------------------
(* The indexer leaves out what is zero or unset, or spells it out, and puts *)
(* a payment's close-amount in the detail, at the top, or at both places.   *)
(* It has no null, and leaves out the sender of a detail that has none, as  *)
(* the captured transactions do (tests/fixtures/block.json).                *)

Unset(x, how) == IF x # None THEN x ELSE IF how.sparse THEN Absent ELSE Zero
Amount(n, how) == IF n = 0 /\ how.sparse THEN Absent ELSE n

Detail(receiver, amount, closeTo, closeAmount, asset, sender, app, address) ==
    [receiver |-> receiver, amount |-> amount, closeTo |-> closeTo,
     closeAmount |-> closeAmount, asset |-> asset, sender |-> sender, app |-> app,
     address |-> address]

\* The detail of a transaction that is about an asset, an application or a
\* holding, and moves nothing.
About(asset, app, address) ==
    Detail(Absent, Absent, Absent, Absent, asset, Absent, app, address)

\* rewards are those paid to its sender, its receiver and the account it closes to.
Payload(type, by, rekeyTo, depth, rewards, detail, closingAmount, how) ==
    [type |-> type, sender |-> by, rekeyTo |-> Unset(rekeyTo, how),
     fee |-> Amount(FeeAt(depth), how), detail |-> detail,
     closingAmount |-> closingAmount, rewards |-> rewards, depth |-> depth]

\* The payload of deed d executed on b.
Indexed(b, d, depth, rewards, how) ==
    LET swept == Amount(Rest(b, d), how)
        pays == d.type = "pay"
        detail ==
            Detail(d.receiver, Amount(d.amount, how), Unset(d.closeTo, how),
                   IF pays /\ how.closing = "top" THEN Absent ELSE swept,
                   IF d.unit = Algo THEN Absent ELSE d.unit,
                   IF d.source = d.signer THEN Absent ELSE d.source,
                   Absent, Absent)
    IN  Payload(d.type, d.signer, d.rekeyTo, depth, rewards, detail,
                IF pays /\ how.closing # "detail" THEN swept ELSE Absent, how)

\* What the indexer says of an account, rewards it is due included, and of an asset.
AccountPayload(a, how) ==
    [address |-> a,
     amount |-> Amount(balance[<<a, Algo>>] + due[a], how),
     authAddr |-> Unset(IF signer[a] = a THEN None ELSE signer[a], how)]

AssetParams(x, how) == Roles(Unset(roles[x].clawback, how), Unset(roles[x].freeze, how))

TokenObject(x) == MapAsset(AssetParams(x, spelling))

------------------------------------------------------------------------------
(* The auditor: books b after one mapped transaction, its inner ones apart. *)
Posted(b, m) ==
    LET paid == Take(b, m.from, Algo, m.fee)
        holder == IF m.transfer # None /\ m.transfer.from # None
                  THEN m.transfer.from ELSE m.from
        moved == IF m.transfer # None
                 THEN Move(paid, holder, m.transfer.to, m.transfer.asset, m.transfer.amount)
                 ELSE IF m.to \in Accounts THEN Move(paid, m.from, m.to, Algo, m.value)
                 ELSE paid
        unit == IF m.close # None /\ m.close.asset # None THEN m.close.asset ELSE Algo
    IN  IF m.close = None THEN moved ELSE Move(moved, holder, m.close.to, unit, m.close.amount)

\* Who signs: a rekeying first, then a closure.
Resigned(s, m) ==
    LET rekeyed == Rekeyed(s, m.from, m.rekeyTo)
    IN  IF m.close # None /\ m.close.closesAccount
        THEN [rekeyed EXCEPT ![m.from] = m.from] ELSE rekeyed

\* The books and the signers, after each of a sequence of them in turn.
Kept(b, s) == [books |-> b, signs |-> s]
Audited(kept, m) == Kept(Posted(kept.books, m), Resigned(kept.signs, m))

Replay(kept, ms) ==
    LET after[i \in 0 .. Len(ms)] == IF i = 0 THEN kept ELSE Audited(after[i - 1], ms[i])
    IN  after[Len(ms)]

------------------------------------------------------------------------------
(* The steps of the chain.                                                 *)

\* by can send a transaction of this depth.
CanSend(by, depth) ==
    /\ depth \in Depths
    /\ executed < MaxExecuted
    /\ pending = <<>> => confirmed < MaxTransactions
    /\ FeeAt(depth) <= balance[<<by, Algo>>] + due[by]

\* What every transaction does to the chain.
Execute(touched, after, done, payload) ==
    /\ executed' = executed + 1
    /\ balance' = after
    /\ due' = [a \in Accounts |-> due[a] - Claims(touched)[a]]
    /\ unreported' = [a \in Accounts |-> unreported[a] + Claims(touched)[a]]
    /\ pending' = Append(pending, payload)
    /\ before' = IF pending = <<>> THEN balance ELSE before
    /\ deeds' = Append(IF pending = <<>> THEN <<>> ELSE deeds, done)
    /\ view' = None
    /\ UNCHANGED <<auditorVars, spelling, safe>>

Optional(accounts) == {None} \cup accounts

\* A transaction that moves nothing but its fee.
Quietly(type, by, depth, detail) ==
    LET touched == {by} IN
    /\ CanSend(by, depth)
    /\ \E rekeyTo \in Optional(RekeyTargets) :
          /\ signer' = Rekeyed(signer, by, rekeyTo)
          /\ Execute(touched, Funds(touched, by, depth), None,
                     Payload(type, by, rekeyTo, depth, Claims(touched), detail, Absent, spelling))

\* keyreg, stpf, hb, or a type the explorer has no name for.
Other(account, depth) ==
    /\ Quietly("keyreg", account, depth, About(Absent, Absent, Absent))
    /\ UNCHANGED roles

\* A call of an application, whose inner transactions may follow.
Call(account, depth) ==
    /\ Quietly("appl", account, depth, About(Absent, App, Absent))
    /\ UNCHANGED roles

\* The freeze role marks a holding.
Freeze(asset, holder, depth) ==
    LET by == roles[asset].freeze
    IN  /\ by # None
        /\ Quietly("afrz", by, depth, About(asset, Absent, holder))
        /\ UNCHANGED roles

\* The manager reassigns the roles.  One that was given up stays given up.
Reconfigure(asset, clawback, freeze, depth) ==
    /\ roles[asset].clawback = None => clawback = None
    /\ roles[asset].freeze = None => freeze = None
    /\ Quietly("acfg", Issuer, depth, About(asset, Absent, Absent))
    /\ roles' = [roles EXCEPT ![asset] = Roles(clawback, freeze)]

Deeds(type, by, source, unit) ==
    [type : {type}, signer : {by}, source : {source}, unit : {unit}, receiver : Accounts,
     amount : Sums, closeTo : Optional(Accounts \ {source}), rekeyTo : Optional(RekeyTargets)]

Do(d, depth) ==
    LET b == Funds(Touched(d), d.signer, depth) IN
    /\ CanSend(d.signer, depth)
    /\ d.amount <= b[<<d.source, d.unit>>]
    /\ signer' = SignersAfter(d)
    /\ Execute(Touched(d), Executed(b, d), Done(b, d),
               Indexed(b, d, depth, Claims(Touched(d)), spelling))
    /\ UNCHANGED roles

Pay(account, depth) ==
    \E d \in Deeds("pay", account, account, Algo) : Do(d, depth)

Transfer(account, asset, depth) ==
    \E d \in Deeds("axfer", account, account, asset) : Do(d, depth)

\* The clawback role moves someone else's holding; it cannot close it.
ClawBack(holder, asset, depth) ==
    LET by == roles[asset].clawback
    IN  /\ by \notin {None, holder}
        /\ \E d \in Deeds("axfer", by, holder, asset) : d.closeTo = None /\ Do(d, depth)

\* The block is written, and the auditor reads it.
BlockOf(payload) == [round |-> confirmed + 1, transactions |-> <<payload>>]

Confirm ==
    /\ pending # <<>>
    /\ view' = MapBlock(BlockOf(pending), TRUE).transactions[1]
    /\ LET kept == Replay(Kept(books, signs), view')
       IN  books' = kept.books /\ signs' = kept.signs
    /\ confirmed' = confirmed + 1
    /\ pending' = <<>>
    /\ \E rewards \in Rewards : due' = [a \in Accounts |-> due[a] + rewards[a]]
    /\ UNCHANGED <<balance, signer, roles, executed, before, deeds, unreported, spelling, safe>>

\* The auditor reads an asset, and remembers a promise for good.
ReadToken(asset) ==
    /\ pending = <<>>
    /\ safe' = safe \cup {x \in {asset} : ~TokenObject(x).clawbackEnabled}
    /\ view' = None
    /\ UNCHANGED <<chainVars, auditorVars, spelling>>

LedgerNext ==
    \/ \E depth \in Depths :
          \/ \E account \in Accounts :
                Other(account, depth) \/ Call(account, depth) \/ Pay(account, depth)
          \/ \E account \in Accounts, asset \in Tokens :
                \/ Transfer(account, asset, depth)
                \/ ClawBack(account, asset, depth)
                \/ Freeze(asset, account, depth)
          \/ \E asset \in Tokens, clawback, freeze \in Optional(RoleHolders) :
                Reconfigure(asset, clawback, freeze, depth)
    \/ Confirm
    \/ \E asset \in Tokens : ReadToken(asset)

LedgerSpec == LedgerInit /\ [][LedgerNext]_ledgerVars

------------------------------------------------------------------------------
(* Type invariant.                                                         *)
LedgerTypeOK ==
    /\ {balance, before} \subseteq [Holdings -> Nat]
    /\ books \in [Holdings -> Int]
    /\ {signer, signs} \subseteq [Accounts -> Accounts]
    /\ roles \in [Tokens -> [clawback : OptionalAccounts, freeze : OptionalAccounts]]
    /\ {due, unreported} \subseteq [Accounts -> Nat]
    /\ safe \subseteq Tokens
    /\ confirmed \in Nat /\ executed \in 0 .. MaxExecuted
    /\ view # None =>
          /\ Len(view) = Len(deeds)
          /\ \A i \in DOMAIN view :
                /\ view[i].from \in Accounts
                /\ {view[i].value, view[i].valueTotal, view[i].fee} \subseteq Nat
                /\ view[i].closesAccount \in BOOLEAN

\* The mapper drops the rewards a payload lists, and they are all that is lost
\* (map_transaction, mapping.py:368-410): what an account has beyond books kept
\* from mapped transactions alone is exactly the rewards it was paid, through
\* closes that sweep such rewards on, clawbacks and inner transactions.
Reconciles == pending = <<>> => balance = Credited(books, unreported)

\* "A clawback moves funds from a holder without the holder signing" and is
\* named as one (mapping.py:425): an account lost some of an asset only if a
\* transfer of its own says so, or one says it was clawed back from that account.
ConsentIsVisible ==
    view # None =>
        \A a \in Accounts, x \in Tokens :
            balance[<<a, x>>] < before[<<a, x>>] =>
               \E i \in DOMAIN view :
                  /\ view[i].transfer # None /\ view[i].transfer.asset = x
                  /\ IF view[i].from = a THEN ~view[i].transfer.isClawback
                     ELSE view[i].transfer.isClawback /\ view[i].transfer.from = a

\* Who controls an account can be known, at any time, from the transactions
\* alone (rekey_to, and the closures that undo it) and from the account object
\* alone (rekeyed_to), and both say what the chain says ("ignoring it
\* misattributes who actually controls an account", README.md:63).
ControlIsVisible ==
    pending = <<>> =>
        /\ signs = signer
        /\ \A a \in Accounts :
              MapAccount(AccountPayload(a, spelling)).rekeyedTo =
                  IF signer[a] = a THEN None ELSE signer[a]

\* "Is clawback enabled" is a promise: of an asset it was once denied for, no
\* clawback is ever seen; and one it is confirmed for names who may do it
\* ("clawback_enabled and roles are always reported", README.md:59).
ClawbackIsAnnounced ==
    /\ view # None =>
          \A i \in DOMAIN view :
              view[i].transfer # None /\ view[i].transfer.isClawback =>
                  view[i].transfer.asset \notin safe
    /\ \A x \in Tokens :
          TokenObject(x).clawbackEnabled <=> TokenObject(x).roles.clawback \in Accounts

\* Of each transaction, the inner ones at any depth included, closes_account is
\* told exactly if it swept an account's native balance, and a closed holding is
\* never passed off as a closed account (_extract_close, mapping.py:444).
ClosureIsVisible ==
    view # None =>
        \A i \in DOMAIN view :
            view[i].closesAccount <=>
                deeds[i] # None /\ deeds[i].unit = Algo /\ deeds[i].closeTo # None

\* "value_total is what actually left" (mapping.py:381): a transaction that
\* closes reports all that the account held of the unit when its fee was paid,
\* wherever the two parts of it went, unless it paid part of it to itself.
TotalIsAllItHeld ==
    view # None =>
        \A i \in DOMAIN view :
            deeds[i] # None /\ deeds[i].closeTo # None /\ deeds[i].receiver # deeds[i].source =>
                view[i].valueTotal = deeds[i].held
==============================================================================
