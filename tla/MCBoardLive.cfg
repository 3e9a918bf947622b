SPECIFICATION LiveSpec
CONSTANTS
  CAL_INTERVALS <- MCIntervals
  MIN_INTERVAL = 1
  MAX_INTERVAL = 3
  STEP_UP = 2
  STEP_DOWN = 1
  HIGH = 1
  LOW = 1
  WINDOW = 5
  STABILIZE = 2
  Rates = {0, 1, 2}
  ASIC_IDS = 2
  Pools = {1}
  NoJob = NoJob
  Enonces <- MCEnonces
  e1 = e1
  e2 = e2
  e3 = e3
  NoEnonce = NoEnonce
  EN2_MOD = 4
  BOARD_INTERVAL = 4
  MaxNotifies <- MCTwoJobs
  WORK_QUEUE_SIZE = 2
  NonceStarts = {0, 1}
  MaxWork = 3
 
PROPERTIES NewWorkIsHashed CalibrationPicksBest TimingFollowsPool
CHECK_DEADLOCK FALSE
