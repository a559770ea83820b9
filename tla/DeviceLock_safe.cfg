SPECIFICATION FairSpec
CONSTANTS
  a = a
  b = b
  c = c
  x = x
  y = y
  None = None
  Owner = {a, b}
  Operator = {x}
  Host <- AB
  Confirm <- AnyFlags
  MaxCommands = 2
  MaxDeaths = 1
  GuardWedges = TRUE
INVARIANTS
  HeldUnlessCleared
PROPERTIES
  ActiveOwnerProtected
  ResourceSpec
  DisplacedStops
CHECK_DEADLOCK FALSE
