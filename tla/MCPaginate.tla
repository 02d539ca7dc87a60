------------------------------ MODULE MCPaginate ------------------------------
(* TLC instance of Paginate: a listing of up to five items in pages of two,   *)
(* and a generator that stops after two pages.                                *)
EXTENDS Paginate

MCItems == 1 .. 5
==============================================================================
