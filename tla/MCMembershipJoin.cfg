SPECIFICATION LiveSpec
CONSTANTS
  Slaves = {a}
  NoMac = NoMac
  a = a
  MAX_SLAVES = 1
  RX_QUEUE_SIZE = 2
  SLAVE_TIMEOUT = 1
  WORK_TIMEOUT = 2
  TIME_MOD = 64
  LockWait = 1
  MaxFaults = 1
PROPERTIES EventuallyRegistered NoZombieForever
