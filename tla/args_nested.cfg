SPECIFICATION Spec
CONSTANTS
  Aggregates <- NestedAggregates
  MaxStack = 0
  Abis = {"sysv"}
INVARIANTS ClassesRight
CHECK_DEADLOCK FALSE
