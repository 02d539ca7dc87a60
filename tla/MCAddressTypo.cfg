SPECIFICATION ServiceSpec
CONSTANTS
  Terms <- MCTerms
  MaxId = 9
  MaxChanges = 1
  None = None
  LatencyBuckets <- MCBuckets
  Others = {q1}
  Query = search
  Asks <- MCAsks
  Durations <- MCDurations
INVARIANTS
  TypoCaughtByChecksum
CHECK_DEADLOCK FALSE
