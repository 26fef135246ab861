SPECIFICATION FailBanSpec
CONSTANTS
  Threads = {failed}
  FailThread = failed
  Addresses = {a1, w}
  Whitelist = {w}
  Invalid = {dash}
  RuleNames = {n1, n2}
  BlockTimes = {0, 2}
  TicksPerSecond = 2
  CanFail = {"remove", "enumerate"}
  MaxTerminations = 1
  NoTask = NoTask
  Threshold = 2
  ExpireTime = 1
  MaxTicks = 12
  MaxCount = 6
SYMMETRY Symmetry
INVARIANTS FailBanTypeOK AtMostOneLiveBlock BlockedIsEnforced BlockedForCause PurgeIsInvisible
PROPERTY MissedWhileRecordOutlasts
CHECK_DEADLOCK FALSE
