SPECIFICATION Spec
CONSTANTS
  Unit = {1, 2}
  TicksPerMs = 2
  Timeout = 4
  Addresses = 2
  RequestSize = 2
  ReadUpTo <- Sizes
  MaxRequests = 3
INVARIANTS
  RepliesBelong
