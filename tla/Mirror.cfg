CONSTANTS
  Syncers = {p, q}
  Builders = {b}
  Attempts = 2
  MaxVersion = 2
  MaxFailures = 2
  MayDamage = TRUE
  MayStrand = TRUE
SPECIFICATION FairSpec
INVARIANTS
  PublishesFresh
PROPERTIES
  ActivatedVerified
  CopyKept
  SyncReturns
  RetriesSucceed
