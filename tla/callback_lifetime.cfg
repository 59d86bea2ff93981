SPECIFICATION Spec
CONSTANTS
  first = first
  second = second
  Callbacks <- MCCallbacks
  Args <- PointArgs
  Ret <- PointRet
  MaxDepth = 2
  MaxInvocations = 2
  HoldThroughCall = FALSE
INVARIANTS MemorySafe
CHECK_DEADLOCK FALSE
