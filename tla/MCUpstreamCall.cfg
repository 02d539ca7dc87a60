SPECIFICATION FairSpec
CONSTANTS
  Calls = {c1, c2}
  MaxRetries = 3
  Timeout = 1
  RetryBackoff = 1
  RetryJitter = 0
  MaxRetryAfter = 1
  Statuses = {200, 400, 404, 429}
  RetryAfters <- MCHeaders
  Absent = Absent
INVARIANTS
  HonestOutcome
  BoundedCall
  SessionOwnership
PROPERTIES
  PauseFromThisAnswer
  CallsEnd
CHECK_DEADLOCK FALSE
