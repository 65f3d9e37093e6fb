SPECIFICATION Spec
CONSTANTS
  Bus = {1}
  Device = {1}
  BusOf <- OneBusOf
  Serial = {}
  Batch = {1}
  DeviceOf <- OutDeviceOf
  Writes = {1}
  Coils = {}
  Function <- FunctionCode
  Extent <- OneExtent
  Point = {1, 2}
  BatchOf <- OutBatchOf
  Declared = {1}
  Images <- OutPairs
  MaxVersion = 0
  Delays = FALSE
  MaxLate = 0
INVARIANTS
  NeverCrashes
