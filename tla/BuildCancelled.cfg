CONSTANTS
  Workers = {w1, w2}
  NumEntries = 3
  MayFail = FALSE
  MayCancel = TRUE
SPECIFICATION Spec
INVARIANTS
  PublishesAll
CHECK_DEADLOCK FALSE
