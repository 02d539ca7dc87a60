---------------------------- MODULE MCUpstreamCall ----------------------------
(* TLC instance of UpstreamCall: a Retry-After header is missing, negative  *)
(* (as good as missing), or longer than the cap.                            *)
EXTENDS UpstreamCall

MCHeaders == {Absent, -1, 3}
==============================================================================
