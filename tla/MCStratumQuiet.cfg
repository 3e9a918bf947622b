SPECIFICATION LiveSpec
CONSTANTS
  NoPool = NoPool
  NoLine = NoLine
  Modes = {"failover"}
  Configs = {0, 1}
  NoHost = 0
  Balances = {100}
  Preempt = FALSE
  QuietPools = TRUE
  MaxChanges = 0
  MaxPicks = 0
PROPERTY FailsOver
CHECK_DEADLOCK FALSE
