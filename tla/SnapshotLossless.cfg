CONSTANTS
  s1 = s1
  s2 = s2
  pa = pa
  pb = pb
  shared = shared
  other = other
  retail = retail
  classic = classic
  Builders = {b1, b2}
  Timed = {b1}
  Snapshots = {s1, s2}
  Products = {retail, classic}
  Paths = {pa, pb}
  Blobs = {shared, other}
  TreeOf <- Trees
  ProductOf <- TwoProducts
  Malformed = {other}
  MayLose = FALSE
  MayOutlive = FALSE
  MaxFailures = 2
SPECIFICATION FairSpec
INVARIANTS
  ReadyReadable
PROPERTIES
  StoreSpec
  EventuallyListed
