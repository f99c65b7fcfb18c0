SPECIFICATION Spec
CONSTANTS
  a = a
  b = b
  u = u
  v = v
  T4 = T4
  T6 = T6
  Clerks = {a, b}
  Ops <- MCSplitOps
  Units = {u, v}
  Types = {T4, T6}
  Days <- MCDays
  WeekStarts = {1}
  WeekDays = 2
  Bankable = {u}
  Batches <- MCBatches
  Registered <- MCRegistered
  MaxRanges = 2
  Editable = {u}
  MaxRows = 5
  NoType = NoType
  NoSnap = NoSnap
INVARIANTS
  ActCountsBlocks
  BalanceInRange
PROPERTY PoolSpec
