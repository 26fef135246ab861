SPECIFICATION FairTasksSpec
CONSTANTS
  Threads = {failed, succeed}
  Addresses = {a1, a2}
  RuleNames = {n1, n2}
  BlockTimes = {1}
  TicksPerSecond = 1
  CanFail = {}
  MaxTerminations = 2
  NoTask = NoTask
PROPERTIES RuleLifted BlockTakesEffect
