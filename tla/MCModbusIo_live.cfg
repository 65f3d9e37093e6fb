SPECIFICATION FairSpec
CONSTANTS
  Bus = {1}
  Device = {1}
  BusOf <- OneBusOf
  Serial = {}
  Batch = {1, 2}
  DeviceOf <- IoDeviceOf
  Writes = {2}
  Coils = {}
  Function <- FunctionCode
  Extent <- OneExtent
  Point = {1, 2, 3}
  BatchOf <- IoBatchOf
  Declared = {1, 2, 3}
  Images <- IoPairs
  MaxVersion = 0
  Delays = TRUE
  MaxLate = 0
INVARIANTS
  NoTornWrite
PROPERTIES
  Delivered
  HealthFollows
  StopJoins
