SPECIFICATION Spec
CONSTANTS
  Kinds = {"asset", "transaction"}
  Keys = {1}
  TTL <- MCTTL
  MaxEntries = 1
  Tasks = {t1}
  Prompt = {t1}
  FetchBound = 1
  None = None
  Failed = Failed
  MaxRequests = 2
  MaxTime = 3
INVARIANTS
  ConfirmationsFromTip
CHECK_DEADLOCK FALSE
