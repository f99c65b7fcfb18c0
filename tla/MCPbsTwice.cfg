SPECIFICATION Spec
CONSTANTS
  a = a
  b = b
  s = s
  t = t
  Clerks = {a, b}
  Ops <- MCAllOps
  Schemes = {s, t}
  Registered <- MCRegistered
  Opened = {s}
  Periods = {0, 2}
  Now = 0
  FormTypes = {"ND", "PBS"}
  MaxSaves = 2
  NotLoaded = NotLoaded
PROPERTY TransferSkipsClaimed
