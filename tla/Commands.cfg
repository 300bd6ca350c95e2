SPECIFICATION FairSpec
CONSTANTS
  a = a
  b = b
  ui = ui
  ace = ace
  retail = retail
  addon = addon
  Commands = {a, b}
  KindsOf <- MCKindsOf
  Repeated = {a}
  Sources = {ui, ace}
  Products = {retail, addon}
  SourceOf <- MCSourceOf
  SelectionsOf <- MCSelectionsOf
  Budget = 4
  InitTags = 1
  SyncTags = 2
  MaxCommit = 2
  MaxFailures = 1
INVARIANTS
  NothingForgotten
  WithinBudget
PROPERTIES
  SuccessMeansDone
  RerunsFinish
CHECK_DEADLOCK FALSE
