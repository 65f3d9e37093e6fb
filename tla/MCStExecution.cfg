SPECIFICATION Spec
CONSTANTS
  Least <- LeastDef
  Greatest <- GreatestDef
  Significand <- SignificandDef
  Finest <- FinestDef
  Spacings <- SpacingsDef
  Literals <- LiteralsDef
  Addresses <- AddressesDef
  Sources <- SourcesDef
  Drafts <- DraftsDef
  InputAddresses <- InputsDef
  Samples <- SamplesDef
  CycleTimes = {2}
  LoopLimit = 3
  MaxScans = 2
INVARIANTS
  NothingMisread
  Closed
  TypeSound
  StopsSoon
  NumbersRight
PROPERTIES
  InterpreterMeetsReference
  GeneratedMeetsReference
CHECK_DEADLOCK FALSE
