SPECIFICATION Spec
CONSTANTS
  a = a
  b = b
  i1 = i1
  None = None
  Op = {a, b}
  Id = {i1}
  Start <- AllWorkflows
  Dangerous = {}
  MaxDeaths = 1
INVARIANT LockCoversProcess
CHECK_DEADLOCK FALSE
