SPECIFICATION FairSpec
CONSTANTS
  a = a
  b = b
  h1 = h1
  h2 = h2
  i1 = i1
  i2 = i2
  None = None
  Op = {a, b}
  Preflight = {}
  Human = {}
  MaxDecisions = 0
  Id = {i1, i2}
  Left <- OneApproved
  Host <- TwoHosts
  MaxDeaths = 1
  GuardWedges = TRUE
INVARIANTS
  ClaimHeld
  OneEffectPerApproval
PROPERTIES
  LifeSpec
  LostClaimStops
CHECK_DEADLOCK FALSE
