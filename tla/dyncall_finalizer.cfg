SPECIFICATION Spec
CONSTANTS
  plain = plain
  struct = struct
  variadic = variadic
  large = large
  long = long
  Functions <- PlainAndStruct
  Sig <- StructSig
  Res <- StructRes
  NRegs = 2
  Room = 4
  BigWords = 4
  FinalizersCall = TRUE
  MaxDepth = 2
  MaxCalls = 3
INVARIANTS ArgsDelivered
CHECK_DEADLOCK FALSE
