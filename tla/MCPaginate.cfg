SPECIFICATION FairSpec
CONSTANTS
  Items <- MCItems
  PageSize = 2
  MaxPages = 2
  MaxChanges = 2
  MaxFailures = 1
  None = None
INVARIANTS
  WalkBounded
PROPERTIES
  ReadsWhole
  ReaderEnds
CHECK_DEADLOCK FALSE
