SPECIFICATION LiveSpec
CONSTANTS
  Slaves = {s1, s2}
  Nonces = {n1, n2}
  NoShare = NoShare
  RECENT_SHARES = 2
  SHARE_QUEUE_DEPTH = 2
  RX_QUEUE_SIZE = 1
  COPIES = 2
  JOB_MAP_SIZE = 2
  MaxJobs = 3
  MaxShares = 3
  s1 = s1
  s2 = s2
  n1 = n1
  n2 = n2
INVARIANTS TypeOK DedupWindow NothingInvented SubmittedForItsJob
 
CHECK_DEADLOCK FALSE
