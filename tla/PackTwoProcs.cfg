CONSTANTS
  p1 = p1
  p2 = p2
  t1 = t1
  t2 = t2
  t3 = t3
  Procs = {p1, p2}
  Tasks = {t1, t2, t3}
  Keys = {k1, k2}
  OwnerOf <- OwnerTwoProcs
SPECIFICATION FairSpec
INVARIANTS
  IndexedInPack
  PublishedIndexed
  OwnProcessReadable
PROPERTIES
  CatalogSpec
  PublishReturns
CHECK_DEADLOCK FALSE
