SPECIFICATION Spec
CONSTANTS
  Bus = {1}
  Device = {1}
  BusOf <- OneBusOf
  Serial = {1}
  Batch = {1, 2, 3}
  DeviceOf <- InDeviceOf
  Writes = {}
  Coils = {}
  Function <- FunctionCode
  Extent <- InExtent
  Point = {1, 2, 3, 4}
  BatchOf <- InBatchOf
  Declared = {1, 2, 4}
  Images <- NoImage
  MaxVersion = 1
  Delays = FALSE
  MaxLate = 1
INVARIANTS
  NoTornRead
PROPERTIES
  InputsFollow
