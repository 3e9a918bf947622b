SPECIFICATION TaskSpec
CONSTANTS
  Slaves = {a, b}
  NoMac = NoMac
  a = a
  b = b
  MAX_SLAVES = 1
  RX_QUEUE_SIZE = 1
  SLAVE_TIMEOUT = 0
  WORK_TIMEOUT = 0
  TIME_MOD = 64
  LockWait = 0
  MaxFaults = 0
PROPERTY NoZombieForever
