SPECIFICATION Spec
CONSTANTS
  a = a
  b = b
  c = c
  x = x
  y = y
  None = None
  Owner = {a, b}
  Operator = {x}
  Host <- OneHost
  Confirm <- NoFlags
  MaxCommands = 2
  MaxDeaths = 0
  GuardWedges = FALSE
PROPERTY RecoveryRecordHolds
SYMMETRY Symmetry
CHECK_DEADLOCK FALSE
