SPECIFICATION FairSpec
CONSTANTS
  Clerks = {c1}
  Cancelers = {c1}
  Schedules = {cp, lhc}
  cp = cp
  lhc = lhc
  short = short
  CoCode <- MCCoCode
  Total <- MCTotal
  FirstDue <- MCFirstDue
  Periods = {12, 24}
  NewStatuses = {"NA", "SU", "TM"}
  Legacy = {lhc}
  Overrun = {}
  LegacyNo <- MCLegacyNo
  SeedNo = 1
  Seeded = {"03"}
  MaxMint = 2
  NoDate = NoDate
  NoRow = NoRow
INVARIANTS
  TypeOK
  ProcessedWasExported
PROPERTIES
  GenerateEnds
