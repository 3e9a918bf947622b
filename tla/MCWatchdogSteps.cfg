SPECIFICATION LiveSpec
CONSTANTS
  Master = Master
  Slots = {s1}
  s1 = s1
  MIN <- MinSetting
  STEP <- Steps
  User <- UserSetting
  STABILITY = 2
  INTERVAL = 2
  Outcomes = {"delivered", "lost", "goneEarly", "gone"}
  Tears = {{"freq"}}
INVARIANTS TypeOK  
PROPERTIES NoEarlyRecovery RecoveryCompletes HotMasterThrottled
