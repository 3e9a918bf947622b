SPECIFICATION LiveSpec
CONSTANTS
  Master = Master
  Slots = {s1}
  s1 = s1
  MIN <- MinSetting
  STEP <- Steps
  User <- UserSetting
  STABILITY = 1
  INTERVAL = 2
  Outcomes = {"delivered"}
  Tears = {{}}
PROPERTY HotSlaveThrottled
