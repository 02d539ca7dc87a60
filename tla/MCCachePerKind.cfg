SPECIFICATION Spec
CONSTANTS
  Kinds = {"block", "asset", "account"}
  Keys = {k1, k2}
  TTL <- MCTTL
  MaxEntries = 2
  Values = {v}
  MaxCalls = 6
  MaxTime = 3
INVARIANT
  SizedPerKind
CHECK_DEADLOCK FALSE
