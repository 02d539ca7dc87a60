SPECIFICATION FairSpec
CONSTANTS
  Kinds = {"asset", "transaction", "account"}
  Keys = {1}
  TTL <- MCTTL
  MaxEntries = 1
  Tasks = {t1, t2}
  Prompt = {t1}
  FetchBound = 1
  None = None
  Failed = Failed
  MaxRequests = 3
  MaxTime = 4
INVARIANTS
  TypeOK
PROPERTIES
  KeepsPromise
  PromptServed
CHECK_DEADLOCK FALSE
