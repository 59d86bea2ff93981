SPECIFICATION Spec
CONSTANTS
  first = first
  second = second
  Callbacks <- MCCallbacks
  Args <- PointArgs
  Ret <- PointRet
  MaxDepth = 2
  MaxInvocations = 2
  HoldThroughCall = TRUE
INVARIANTS TypeOK MemorySafe CountedOnce DescriptorAligned ReasonAgrees PreserveBalance
PROPERTIES DiagnosticKept ContractSpec
CHECK_DEADLOCK FALSE
