SPECIFICATION Spec
CONSTANTS
  Clerks = {c1, c2}
  Cancelers = {c1, c2}
  Schedules = {lhc, short}
  cp = cp
  lhc = lhc
  short = short
  CoCode <- MCCoCode
  Total <- MCTotal
  FirstDue <- MCFirstDue
  Periods = {12}
  NewStatuses = {"NA"}
  Legacy = {}
  Overrun = {}
  LegacyNo <- MCLegacyNo
  SeedNo = 1
  Seeded = {"03"}
  MaxMint = 3
  NoDate = NoDate
  NoRow = NoRow
INVARIANT NumbersUnique
