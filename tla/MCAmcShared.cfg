SPECIFICATION Spec
CONSTANTS
  Clerks = {c1, c2}
  Cancelers = {c1}
  Schedules = {lhc, short}
  cp = cp
  lhc = lhc
  short = short
  CoCode <- MCCoCode
  Total <- MCTotal
  FirstDue <- MCFirstDue
  Periods = {12, 18}
  NewStatuses = {"NA"}
  Legacy = {lhc}
  Overrun = {short}
  LegacyNo <- MCLegacyNo
  SeedNo = 1
  Seeded = {}
  MaxMint = 3
  NoDate = NoDate
  NoRow = NoRow
INVARIANTS
  NumbersUnique
  BilledWithinTerm
  NeverStranded
