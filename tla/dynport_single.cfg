SPECIFICATION Spec
CONSTANTS
  None = None
  Ordinary = Ordinary
  a = a
  b = b
  c = c
  Sessions = {s1}
  Libs = {l1, l2}
  Contents = {a, b, c}
  Version <- MCVersion
  Overlap = TRUE
  Intrude = FALSE
  MaxCalls = 4
INVARIANTS LoadedMatches LoadedOnDisk
PROPERTIES OrdinaryKept ContractSpec
CHECK_DEADLOCK FALSE
