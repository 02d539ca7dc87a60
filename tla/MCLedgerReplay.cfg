SPECIFICATION LedgerSpec
CONSTANTS
  None = None
  Zero = Zero
  Absent = Absent
  a1 = a1
  a2 = a2
  Accounts = {a1, a2}
  Tokens = {x}
  Algo = Algo
  Issuer = a1
  App = App
  Supply <- MCSupply
  FirstSigner <- MCSigner
  Fee = 1
  Rewards <- MCRewards
  Spellings <- MCSpellings
  Sums = {0, 1}
  RekeyTargets = {a2}
  RoleHolders = {a2}
  MaxTransactions = 2
  MaxExecuted = 3
INVARIANTS
  LedgerTypeOK
  Reconciles
  ConsentIsVisible
  ControlIsVisible
  ClawbackIsAnnounced
  ClosureIsVisible
  TotalIsAllItHeld
CHECK_DEADLOCK FALSE
