SPECIFICATION FairSpec
CONSTANTS
  first = first
  second = second
  Callbacks <- MCCallbacks
  Args <- StrangeArgs
  Ret <- StrangeRet
  MaxDepth = 3
  MaxInvocations = 2
  HoldThroughCall = TRUE
PROPERTIES ForeignCallReturns
CHECK_DEADLOCK FALSE
