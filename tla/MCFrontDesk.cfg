SPECIFICATION Spec
CONSTANTS
  Agreements = {1, 2, 3, 4, 5, 6, 7, 8}
  Agmt <- MCAgmt
  Acct0 <- MCAcct0
  Scheme0 <- MCScheme0
  Claims0 <- MCClaims0
  Filters <- MCFilters
  PreviewLimit = 1
  ThisYear = 2026
  MaxYears = 1
  MaxChanges = 1
  None = None
  Stale = Stale
  NightsFile <- MCNights
  PointsFile <- MCPoints
  FirstDay = 20260630
  LastDay = 20280401
  Clerks = {"ann", "bob", "cat"}
  Dept <- MCDept
  Numbers = {"m1", "m2"}
  Columns = {"resStateCode", "resCityState"}
  Slots = {1, 2}
  NomColumns = {"fullName", "telHome"}
  Values = {"x"}
  SuReasons = {"s"}
  CanReasons = {"t"}
  Members0 <- MCMembers
  Agreement0 <- MCAgreement
  MaxSaves = 2
  MaxKeys = 2
  Null = Null
  Lists = {"members", "audit", "schedules", "agreements", "pbs", "invoices", "users"}
  TotalOf <- MCTotal
  MaxClicks = 5
  NoTimer = NoTimer
INVARIANTS
  TypeOK
  ReportsReconcile
  EntitlementAccounted
  ListPageExists
PROPERTIES
  SavesKeepOthers
CHECK_DEADLOCK FALSE
