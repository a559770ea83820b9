SPECIFICATION FairSpec
CONSTANTS
  a = a
  b = b
  op = op
  nobody = nobody
  Session = {a, b}
  Op = op
  Nobody = nobody
  MaxDeaths = 1
  MaxFaults = 1
INVARIANTS
  PortUnderLock
  StoppedMeansReleased
  FailedBeforeClaim
  RunningIsServed
  QuarantineReported
PROPERTIES
  TerminalFinal
  Settles
CHECK_DEADLOCK FALSE
ACTION_CONSTRAINT FirstStarts
