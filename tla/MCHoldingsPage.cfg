SPECIFICATION Spec
CONSTANTS
  Pages = {p1, p2}
  Prompt = {p1}
  x = x
  y = y
  z = z
  Assets = {x, y, z}
  Decimals <- MCDecimals
  Listings <- MCListings
  ResolveConcurrency = 2
  None = None
INVARIANTS
  FanOutBounded
  WholePage
  FailureIsolated
  AmountsAreExact
PROPERTIES
  PageAnswered
  LookupsEnd
CHECK_DEADLOCK FALSE
