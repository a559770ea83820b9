SPECIFICATION Spec
CONSTANTS
  a = a
  b = b
  h1 = h1
  h2 = h2
  i1 = i1
  i2 = i2
  None = None
  Op = {a, b}
  Preflight = {b}
  Human = {h1, h2}
  MaxDecisions = 1
  Id = {i1, i2}
  Left <- OnePending
  Host <- OneHost
  MaxDeaths = 1
  GuardWedges = TRUE
PROPERTIES
  LifeSpec
  ReusedNotRequested
CHECK_DEADLOCK FALSE
