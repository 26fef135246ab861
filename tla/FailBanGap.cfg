SPECIFICATION FailBanSpec
CONSTANTS
  Threads = {failed}
  FailThread = failed
  Addresses = {a1}
  Whitelist = {}
  Invalid = {}
  RuleNames = {n1, n2}
  BlockTimes = {2}
  TicksPerSecond = 2
  CanFail = {}
  MaxTerminations = 0
  NoTask = NoTask
  Threshold = 2
  ExpireTime = 4
  MaxTicks = 12
  MaxCount = 6
PROPERTY ExceedingIsBlocked
CHECK_DEADLOCK FALSE
