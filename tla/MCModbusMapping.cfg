SPECIFICATION Spec
CONSTANTS
  Space = 8
  Word = 4
  Byte = 2
  Limit = 4
  Address = {0, 1, 2, 3, 4, 6, 7}
  Kind <- AllKinds
  MaxPoints = 3
  Value <- Edges
INVARIANTS
  BatchesTiled
  NeverThrown
  RoundTrip
CHECK_DEADLOCK FALSE
