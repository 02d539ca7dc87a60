------------------------------- MODULE MCCache -------------------------------
(* TLC instance of CacheHistory: two cacheable kinds with different TTLs,   *)
(* one kind that is never cached, two keys, room for two entries.           *)
EXTENDS CacheHistory

MCTTL == ("block" :> 3) @@ ("asset" :> 1)
==============================================================================
