SPECIFICATION Spec
CONSTANTS
  Base <- MCBase
  Modes <- MCModes
  Alnum <- MCAlnum
  Known <- MCKnown
  Inputs <- MCInputs
  BufSize = 2
  IntMax <- MCIntMax
INVARIANTS TypeOK StaysInside LayoutsFit ReadsAsWritten TokensTile TailSplit
CHECK_DEADLOCK FALSE
