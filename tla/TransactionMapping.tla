-------------------------- MODULE TransactionMapping --------------------------
(***************************************************************************)
(* mapping.map_transaction, map_block, map_account, map_asset: from what the *)
(* indexer returns to the object the explorer serves.  Only the fields that *)
(* say who moved how much of what to whom, and who controls what, are kept. *)
(* A key of a payload may be missing (Absent), which is not the same as a   *)
(* null (None): d.get(key, 0) makes 0 of the first and keeps the second.    *)
(*                                                                         *)
(* A transaction is the sequence of it and its inner transactions in the    *)
(* order of execution, each with the depth it is nested at.                 *)
(***************************************************************************)
EXTENDS Integers, Sequences, Payload

CONSTANTS
    Zero,            (* ZERO_ADDRESS, which means "unset"                  *)
    Absent           (* the value of a key that a payload does not have    *)

ASSUME MappingAssumption ==
    /\ None # Zero
    /\ Absent \notin {None, Zero} \cup Int

\* d.get(key)
Get(x) == IF x = Absent THEN None ELSE x

\* d.get(key, 0)
GetAmount(x) == IF x = Absent THEN 0 ELSE x

\* x or 0
OrZero(x) == IF x = None THEN 0 ELSE x

\* d.get(key) or None, of an address or an id
OrNone(x) == IF x \in {Absent, 0} THEN None ELSE x

\* str of an amount, which is a number or, for a null, a word.
StrOf(x) == IF x = None THEN "None" ELSE x

\* _clean
CleanKeepsZeroMutant(address) == address
Clean(address) == IF address = Zero THEN None ELSE address

\* _extract_movement: the counterparty, the native value, the token transfer.
Movement(to, value, transfer) == [to |-> to, value |-> value, transfer |-> transfer]

ExtractMovementHolderMutant(type, detail) ==   \* a clawback as a transfer
    CASE type = "pay" -> Movement(Get(detail.receiver), GetAmount(detail.amount), None)
      [] type = "axfer" ->
            Movement(Get(detail.receiver), 0,
                     [asset |-> Get(detail.asset), from |-> None, to |-> Get(detail.receiver),
                      amount |-> StrOf(GetAmount(detail.amount)),
                      closeTo |-> Clean(Get(detail.closeTo)), isClawback |-> FALSE])
      [] type = "appl" -> Movement(OrNone(detail.app), 0, None)
      [] type = "acfg" -> Movement(OrNone(detail.asset), 0, None)
      [] type = "afrz" -> Movement(Get(detail.address), 0, None)
      [] OTHER -> Movement(None, 0, None)

ExtractMovement(type, detail) ==
    CASE type = "pay" -> Movement(Get(detail.receiver), GetAmount(detail.amount), None)
      [] type = "axfer" ->
            Movement(Get(detail.receiver), 0,
                     [asset |-> Get(detail.asset), from |-> OrNone(detail.sender),
                      to |-> Get(detail.receiver), amount |-> StrOf(GetAmount(detail.amount)),
                      closeTo |-> Clean(Get(detail.closeTo)),
                      isClawback |-> OrNone(detail.sender) # None])
      [] type = "appl" -> Movement(OrNone(detail.app), 0, None)
      [] type = "acfg" -> Movement(OrNone(detail.asset), 0, None)
      [] type = "afrz" -> Movement(Get(detail.address), 0, None)
      [] OTHER -> Movement(None, 0, None)

\* _extract_close: where the rest of a balance went.  A payment's close-amount
\* may be in its detail or, if the key is not there, at the top.
CloseAmount(type, detail, tx) ==
    IF type = "pay" /\ detail.closeAmount = Absent
    THEN OrZero(GetAmount(tx.closingAmount)) ELSE OrZero(GetAmount(detail.closeAmount))

ExtractCloseSweptOnlyMutant(type, detail, tx) ==   \* value_total without amount
    IF type \in {"pay", "axfer"} /\ Clean(Get(detail.closeTo)) # None
    THEN [closesAccount |-> type = "pay",
          to |-> detail.closeTo,
          amount |-> CloseAmount(type, detail, tx),
          valueTotal |-> CloseAmount(type, detail, tx),
          asset |-> IF type = "pay" THEN None ELSE Get(detail.asset)]
    ELSE None

ExtractClose(type, detail, tx) ==
    IF type \in {"pay", "axfer"} /\ Clean(Get(detail.closeTo)) # None
    THEN [closesAccount |-> type = "pay",
          to |-> detail.closeTo,
          amount |-> CloseAmount(type, detail, tx),
          valueTotal |-> OrZero(GetAmount(detail.amount)) + CloseAmount(type, detail, tx),
          asset |-> IF type = "pay" THEN None ELSE Get(detail.asset)]
    ELSE None

\* close["closes_account"] if close else False
ClosesAccountNullMutant(close) == IF close = None THEN None ELSE close.closesAccount
ClosesAccount(close) == close # None /\ close.closesAccount

\* The account that signs for the sender from here on.
RekeyToSelfMutant(tx) ==            \* a rekey to oneself is taken for none
    IF tx.rekeyTo = tx.sender THEN None ELSE Clean(Get(tx.rekeyTo))
RekeyTo(tx) == Clean(Get(tx.rekeyTo))

\* map_transaction of one transaction, apart from its inner ones.
Mapped(tx) ==
    LET moved == ExtractMovement(tx.type, tx.detail)
        close == ExtractClose(tx.type, tx.detail, tx)
        value == OrZero(moved.value)
    IN  [from |-> Get(tx.sender),
         to |-> moved.to,
         value |-> value,
         close |-> close,
         closesAccount |-> ClosesAccount(close),
         valueTotal |-> IF close # None THEN close.valueTotal ELSE value,
         fee |-> StrOf(GetAmount(tx.fee)),
         rekeyTo |-> RekeyTo(tx),
         transfer |-> moved.transfer,
         depth |-> tx.depth]

\* map_transaction calls itself on each inner transaction, however deep, and
\* puts the result where that was.
MapTransactionShallowMutant(txs) ==    \* an inner call's own inner ones are left out
    SelectSeq([i \in DOMAIN txs |-> Mapped(txs[i])], LAMBDA m : m.depth <= 1)
MapTransaction(txs) == [i \in DOMAIN txs |-> Mapped(txs[i])]

\* map_block: a round; its transactions only if they are asked for.
MapBlock(block, includeTransactions) ==
    [height |-> block.round,
     transactionsCount |-> Len(block.transactions),
     transactions |->
        IF includeTransactions
        THEN [i \in DOMAIN block.transactions |-> MapTransaction(block.transactions[i])]
        ELSE None]

\* map_account: the balance, and who signs for the account if not itself.
MapAccount(account) ==
    [hash |-> account.address,
     coinBalance |-> StrOf(GetAmount(account.amount)),
     rekeyedTo |-> Clean(Get(account.authAddr))]

\* map_asset: the roles that may act on what others hold.
EnabledSwappedMutant(params) ==
    [clawback |-> Clean(Get(params.freeze)) # None, freeze |-> Clean(Get(params.clawback)) # None]
Enabled(params) ==
    [clawback |-> Clean(Get(params.clawback)) # None, freeze |-> Clean(Get(params.freeze)) # None]

MapAsset(params) ==
    [roles |-> [clawback |-> Clean(Get(params.clawback)), freeze |-> Clean(Get(params.freeze))],
     clawbackEnabled |-> Enabled(params).clawback,
     freezeEnabled |-> Enabled(params).freeze]
==============================================================================
