SPECIFICATION Spec
CONSTANTS
  Devices = {d1, d2}
  NoDevice = NoDevice
  d1 = d1
  d2 = d2
  MAX_SLAVES = 2
  JOB_MAP_SIZE = 3
  Pools = {0}
  HexId <- OnePool
  ULONG_MAX = 255
  FALLBACK_START = 128
  EN2_LIMIT = 4096
  MaxLoops = 1
  MaxRetriggers = 1
  NoWork = NoWork
SYMMETRY DeviceSymmetry
INVARIANTS TypeOK RoundPartitions 
CHECK_DEADLOCK FALSE
