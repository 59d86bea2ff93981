SPECIFICATION Spec
CONSTANTS
  plain = plain
  struct = struct
  variadic = variadic
  large = large
  long = long
  Functions <- AllFunctions
  Sig <- AllSig
  Res <- AllRes
  NRegs = 2
  Room = 8
  BigWords = 4
  FinalizersCall = TRUE
  MaxDepth = 3
  MaxCalls = 3
INVARIANTS TypeOK OwnArgsDelivered VariadicModes DescriptorsFreed
CHECK_DEADLOCK FALSE
