SPECIFICATION Spec
CONSTANTS
  None = None
  Ordinary = Ordinary
  a = a
  b = b
  c = c
  Sessions = {s1, s2}
  Libs = {l1}
  Contents = {a, b}
  Version <- MCVersion
  Overlap = FALSE
  Intrude = FALSE
  MaxCalls = 3
INVARIANTS LoadedMatches
CHECK_DEADLOCK FALSE
