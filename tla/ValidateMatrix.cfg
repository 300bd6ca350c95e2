SPECIFICATION MatrixSpec
CONSTANTS
  a = a
  b = b
  l = l
  t = t
  w = w
  missing = missing
  gone = gone
  x = x
  y = y
  F = F
  E = E
  B = B
  M = M
  NoId = NoId
  Lua = {l}
  Xml = {a, b}
  Tocs = {t, w}
  Rejected = {missing, gone}
  MaxLinks = 1
  Disks <- MCDisks
  Ids = {x, y}
  Names = {F, E, B, M}
  Signatures = {"old", "new", "s"}
  Uses <- MCUses
  OneLine = {a}
  MessageOf <- MCMessageOf
  Snapshots <- MCSnapshots
  Inputs <- MCInputs
INVARIANTS
  ClosureExact
  EveryReferenceAnswered
  CyclesFound
  LoadOrder
  VerdictExact
  SummaryExact
  SummaryCovers
PROPERTIES
  MatrixReturns
CHECK_DEADLOCK FALSE
