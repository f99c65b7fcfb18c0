SPECIFICATION Spec
CONSTANTS
  a = a
  b = b
  it = it
  free = free
  dIT = dIT
  dCredit = dCredit
  Browsers = {a, b}
  Ops <- MCOps
  People <- MCPeople
  Users = {it, free}
  Depts = {dIT, dCredit}
  Keys = {"RESORTS_SETUP_ACCESS"}
  Rights <- MCRights
  IT = dIT
  SeededUsers <- MCSeededUsers
  SeededMatrix <- MCSeededMatrix
  SeededGrants = {}
  Toggled <- MCToggled
  MaxAttempts = 2
  MaxLogins = 2
  Absent = Absent
INVARIANTS
  TypeOK
  OneSession
  AdminRemains
  PagesMatchGuards
CHECK_DEADLOCK FALSE
