SPECIFICATION Spec
CONSTANTS
  a = a
  b = b
  Informix = Informix
  Clerks = {a, b}
  Ops <- MCOps
  Agreements = {"M1/1", "M2/1"}
  Membership <- MCMembership
  Migrated <- MCMigrated
  RciNos = {"n1", "n2"}
  Typed <- MCTyped
  MaxCreates = 2
INVARIANTS
  SerialsUnique
  EnrolledOnce
  RciNoOneMembership
  EditNeverBlocked
