SPECIFICATION FairSpec
CONSTANTS
  p1 = p1
  p2 = p2
  p3 = p3
  p4 = p4
  Proc <- ThreeProcs
  Host <- TwoHosts
  MaxAttempts = 1
  CrashPoints <- AllPoints
INVARIANTS
  MutexUnlessRecovererDied
  NoFileError
PROPERTY StaleGuardRecovered
CHECK_DEADLOCK FALSE
