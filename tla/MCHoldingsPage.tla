---------------------------- MODULE MCHoldingsPage ----------------------------
(* TLC instance of HoldingsPage: more assets on a page than slots, a record *)
(* without an asset id, metadata without decimals, and amounts on both      *)
(* sides of every boundary between whole units and decimals.                *)
EXTENDS HoldingsPage

CONSTANTS x, y, z

Holds(asset, amount) == [asset |-> asset, amount |-> amount]

MCListings ==
    {<<Holds(x, 1050), Holds(None, 7), Holds(y, 5), Holds(z, 5)>>, <<Holds(None, 1)>>}
    \cup {<<Holds(x, amount)>> : amount \in {0, 1, 99, 1000}}

MCDecimals == x :> 2 @@ y :> 0 @@ z :> None
==============================================================================
