CONSTANTS
  Syncers = {p}
  Builders = {}
  Attempts = 2
  MaxVersion = 1
  MaxFailures = 1
  MayDamage = FALSE
  MayStrand = TRUE
SPECIFICATION RetrySpec
PROPERTIES
  EventuallySynced
