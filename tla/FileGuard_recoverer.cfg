SPECIFICATION Spec
CONSTANTS
  p1 = p1
  p2 = p2
  p3 = p3
  p4 = p4
  Proc <- FourProcs
  Host <- OneHost
  MaxAttempts = 1
  CrashPoints <- RecoveryDeaths
INVARIANT Mutex
SYMMETRY Symmetry
CHECK_DEADLOCK FALSE
