------------------------------ MODULE MCService ------------------------------
(* TLC instances of Service: a search for one term of each kind the code tells *)
(* apart and the borderline ones (an address with a wrong character in the     *)
(* middle or at the end, one made of digits only, a transaction id spelled     *)
(* with other spare bits, an id beyond uint64, a digit that int() refuses, a   *)
(* negative number, a long name), beside one other request.                    *)
EXTENDS Service

Text(length, base32) ==
    [length |-> length, base32 |-> base32, digits |-> FALSE, number |-> None,
     checksum |-> FALSE, canonical |-> TRUE]

Address(checksum, canonical) ==
    [Text(58, TRUE) EXCEPT !.checksum = checksum, !.canonical = canonical]

Digits(length, base32, number) ==
    [Text(length, base32) EXCEPT !.digits = TRUE, !.number = number]

Id == Digits(1, FALSE, 7)
Negative == [Text(2, FALSE) EXCEPT !.number = -5]
Superscript == Digits(1, FALSE, None)
Txid == Text(52, TRUE)
TxidRespelled == [Txid EXCEPT !.canonical = FALSE]

MCTerms ==
    {Address(TRUE, TRUE), Address(FALSE, TRUE), Address(TRUE, FALSE), Digits(58, TRUE, 99),
     Txid, TxidRespelled, Id, Digits(2, FALSE, 99), Superscript, Negative, Text(20, FALSE)}

Ask(route, t) == [route |-> route, term |-> t]

MCAsks ==
    {Ask(None, None), Ask("/livez", None), Ask("/blocks", None), Ask("/search", None),
     Ask("/algorand/v2/{path}", None), Ask("/transactions/{txid}", Txid)}
    \cup {Ask("/addresses/{address}", Address(c, TRUE)) : c \in BOOLEAN}
    \cup {Ask("/addresses/{address}", Address(TRUE, FALSE))}
    \cup {Ask("/tokens/{asset_id}", t) : t \in {Id, Negative, Superscript}}

MCBuckets == <<1, 3>>
MCDurations == {1, 4}
==============================================================================
