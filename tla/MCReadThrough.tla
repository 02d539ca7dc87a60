----------------------------- MODULE MCReadThrough -----------------------------
(* TLC instances of ReadThrough.                                            *)
EXTENDS ReadThrough

\* A settled kind with a longer life, an asset kind with a shorter one; any
\* other kind is undeclared.
MCTTL == ("transaction" :> 2) @@ ("asset" :> 1)
==============================================================================
