SPECIFICATION Spec
CONSTANTS
  a = a
  b = b
  i1 = i1
  None = None
  Op = {a, b}
  Id = {i1}
  Start <- AllActions
  Dangerous = {a}
  MaxDeaths = 1
INVARIANT GivenBackMeansUntouched
CHECK_DEADLOCK FALSE
