SPECIFICATION Spec
CONSTANTS
  a = a
  b = b
  Clerks = {a, b}
  Ops <- MCOps
  Years = {2028, 2029}
  MaxEdits = 3
  HolidayDates <- MCHolidayDates
  HolidayNames = {"TERM 1", "TERM 2"}
  SeededHolidays <- MCSeeded
  SeasonMonths = {2, 3}
  SeasonDays = {1, 29}
  Seasons = {"S", "G"}
  DEFAULT_SEASON = "S"
  MigratedSeasons <- MCSeasons
  WeekYears = {2027, 2028}
  MigratedYears = {2027}
  MigratedWeeks <- MCWeeks
  Covered <- MCCovered
  WeekSeasons = {"R", "W"}
  Staff = {a, b}
  SetupOps <- MCSetupOps
  Products = {"02", "25"}
  CP_CO_CODE = "02"
  Resorts = {"CP-PBR"}
  LvcCodes = {"LVC-CLC"}
  Types = {"SLEEP2", "SLEEP4"}
  Sold = {"02"}
  Housed = {}
  LastDay = 3
  MaxSaves = 2
  MaxMasterEdits = 2
  Migrated <- MCMigrated
INVARIANTS
  TypeOK
  SchoolBreaksDistinct
  MonthsGradedWhole
  WeeksTile
  VersionsWhole
  ReferencesResolve
PROPERTIES
  NewRateSupersedes
  CloneKeepsGrades
  BankedKeepCalendar
CHECK_DEADLOCK FALSE
