SPECIFICATION LiveSpec
CONSTANTS
  NoPool = NoPool
  NoLine = NoLine
  Modes = {"failover", "dual"}
  Configs = {0, 1}
  NoHost = 0
  Balances = {20, 50}
  Preempt = FALSE
  QuietPools = FALSE
  MaxChanges = 1
  MaxPicks = 2
INVARIANTS TypeOK ValidJobIsUsable   DitherRatio
  
CHECK_DEADLOCK FALSE
