SPECIFICATION ServiceSpec
CONSTANTS
  Terms <- MCTerms
  MaxId = 9
  MaxChanges = 1
  None = None
  LatencyBuckets <- MCBuckets
  Others = {q1}
  Query = search
  Asks <- MCAsks
  Durations <- MCDurations
INVARIANTS
  ServiceTypeOK
  LastingIsFound
  OutageShows
  BlameIsFair
  FailuresExplained
  AccountedFor
  HistogramAddsUp
  
CHECK_DEADLOCK FALSE
