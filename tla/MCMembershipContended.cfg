SPECIFICATION Spec
CONSTANTS
  Slaves = {a, b}
  NoMac = NoMac
  a = a
  b = b
  MAX_SLAVES = 1
  RX_QUEUE_SIZE = 1
  SLAVE_TIMEOUT = 1
  WORK_TIMEOUT = 1
  TIME_MOD = 64
  LockWait = 1
  MaxFaults = 1
SYMMETRY SlaveSymmetry
INVARIANTS TypeOK  SelfHealArmed
 
