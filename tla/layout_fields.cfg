SPECIFICATION Spec
CONSTANTS
  c = c
  C = C
  S = S
  B = B
  d = d
  P = P
  Types <- MCTypes
  SizeOf <- MCSize
  AlignOf <- MCAlign
  BitTypes = {c, C, S, B}
  Booleans = {B}
  Signed = {c}
  DoubleTypes = {C, S}
  Aggregates = {P}
  Shapes <- MCShapes
  Layouts <- MCLayouts
  Values <- MCValues
  IntBits = 8
  LongBits = 16
  DoubleBits = 10
  MaxFields = 3
  MaxStores = 2
INVARIANTS TypeOK FieldsDisjoint FirstFit UnitsInside 
PROPERTIES OneFieldChanges
CHECK_DEADLOCK FALSE
