CONSTANTS
  Workers = {w1, w2, w3}
  NumEntries = 4
  MayFail = TRUE
  MayCancel = TRUE
SPECIFICATION FairSpec
INVARIANTS
  CompleteUnlessCancelled
  NoSendAfterClose
PROPERTIES
  BuildReturns
  GoroutinesEnd
CHECK_DEADLOCK FALSE
