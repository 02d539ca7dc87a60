-------------------------------- MODULE Payload --------------------------------
(* What the payloads of the indexer and of algod have in common.            *)
CONSTANT None            (* d.get(key) of a missing key, and null           *)
==============================================================================
