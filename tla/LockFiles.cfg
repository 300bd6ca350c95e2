CONSTANTS
  Owners = {a, b, c}
  Waiters = {a, b}
  StaleAfter = 2
  WaitLimit = 1
  HoldLimit = 2
  MaxCrashes = 1
SPECIFICATION FairSpec
INVARIANTS
  MutualExclusion
PROPERTIES
  ReclaimAfterCrash
