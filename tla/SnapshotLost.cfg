CONSTANTS
  s1 = s1
  s2 = s2
  pa = pa
  pb = pb
  shared = shared
  other = other
  retail = retail
  classic = classic
  Builders = {b1, b2}
  Timed = {}
  Snapshots = {s1, s2}
  Products = {retail, classic}
  Paths = {pa, pb}
  Blobs = {shared, other}
  TreeOf <- Trees
  ProductOf <- OneProduct
  Malformed = {}
  MayLose = TRUE
  MayOutlive = FALSE
  MaxFailures = 0
SPECIFICATION Spec
INVARIANTS
  ReadyReadable
