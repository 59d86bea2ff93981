SPECIFICATION FairSpec
CONSTANTS
  None = None
  Malformed = malformed
  malformed = malformed
  f = f
  g = g
  Libs = {a}
  Handles = {h1, h2}
  Pointers = {p1, p2}
  Names = {f, g}
  Exports <- MCExports
  Tables <- MCTables
  MaxDepth = 1
  MaxLinks = 2
INVARIANTS TypeOK LinksCover StaysWhileUsed
PROPERTIES AutoUnloads
CHECK_DEADLOCK FALSE
