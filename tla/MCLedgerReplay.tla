---------------------------- MODULE MCLedgerReplay ----------------------------
(* TLC instances of LedgerReplay: two accounts, one asset.  a2 is rekeyed to  *)
(* the issuer at first; either may be rekeyed to a2, a2 thus to itself.        *)
EXTENDS LedgerReplay

CONSTANTS a1, a2

MCSupply == [pair \in Holdings |-> IF pair[2] = Algo THEN 2 ELSE 1]
MCSigner == [a \in Accounts |-> IF a = a2 THEN a1 ELSE a]

\* In each block, everybody earns a reward.
MCRewards == {[a \in Accounts |-> 1]}

Spelling(sparse, closing) == [sparse |-> sparse, closing |-> closing]
MCSpellings == {Spelling(TRUE, "top"), Spelling(FALSE, "detail"), Spelling(TRUE, "both")}
==============================================================================
