SPECIFICATION FairSpec
CONSTANTS
  a = a
  b = b
  i1 = i1
  None = None
  Op = {a, b}
  Id = {i1}
  Start <- AgainstWorkflow
  Dangerous = {a}
  MaxDeaths = 1
INVARIANTS
  LockCoversRegistered
  RunningUnderLock
  GivenBackUnlessDeaf
  SuccessMeansClean
PROPERTY OperationEnds
CHECK_DEADLOCK FALSE
