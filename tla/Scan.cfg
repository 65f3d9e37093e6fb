SPECIFICATION Spec
CONSTANTS
  UnitsPerMs = 2
  CycleTime = 3
  PT = 2
  MaxTime = 12
INVARIANTS
  OnTheGrid
  NoBurst
  NeverEarly
