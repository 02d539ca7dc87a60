------------------------------ MODULE Validation ------------------------------
(***************************************************************************)
(* validation.py: what is refused at the door, and what a search term is   *)
(* taken for.  A term is what the code can tell of it (its length, its     *)
(* alphabet, the number it spells, its checksum) and what only the chain   *)
(* can: base32 spells 36 bytes in 58 characters with two bits to spare and *)
(* 32 bytes in 52 with four, and only one spelling is the canonical one.   *)
(***************************************************************************)
EXTENDS Integers

CONSTANTS
    Terms,           (* the terms a caller may send                        *)
    MaxId,           (* MAX_UINT64                                         *)
    None

TermTypes == [length : Nat, base32 : BOOLEAN, digits : BOOLEAN, number : Int \cup {None},
              checksum : BOOLEAN, canonical : BOOLEAN]

ASSUME TermAssumption ==
    /\ Terms \subseteq TermTypes
    /\ MaxId \in Nat
    /\ None \notin Int

\* validate_address: the checksum is of the decoded bytes.
ValidAddress(t) == t.length = 58 /\ t.base32 /\ t.checksum

\* validate_txid: "No checksum exists here".
ValidTxidChecksumMutant(t) == t.length = 52 /\ t.base32 /\ t.checksum
ValidTxid(t) == t.length = 52 /\ t.base32

\* validate_uint64
ValidUint64(t) == t.number \in 0 .. MaxId

\* classify_query: by length and alphabet, a checksum is not looked at.
\* isdigit() is true of digits that int() refuses: they have no number here.
Shape(t) ==
    CASE t.base32 /\ t.length = 58 -> "address"
      [] t.base32 /\ t.length = 52 -> "transaction"
      [] t.digits /\ ~(t.base32 /\ t.length \in {52, 58}) -> "numeric"
      [] OTHER -> "other"

\* The namespaces a term can match on any chain: an id is a uint64, a name has
\* at most 32 bytes and a unit name 8, and an address or a transaction is known
\* by the one canonical spelling of its bytes.
CanMatch(t) ==
    {n \in {"account", "transaction", "asset", "application", "name", "unit"} :
        CASE n = "account" -> t.length = 58 /\ t.base32 /\ t.checksum /\ t.canonical
          [] n = "transaction" -> t.length = 52 /\ t.base32 /\ t.canonical
          [] n \in {"asset", "application"} -> t.number # None /\ t.number \in 0 .. MaxId
          [] n = "name" -> t.length <= 32
          [] n = "unit" -> t.length <= 8}
==============================================================================
