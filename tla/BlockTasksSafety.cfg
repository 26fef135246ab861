SPECIFICATION TasksSpec
CONSTANTS
  Threads = {failed, succeed}
  Addresses = {a1}
  RuleNames = {n1, n2, n3}
  BlockTimes = {0, 1}
  TicksPerSecond = 2
  CanFail <- AllFailures
  MaxTerminations = 2
  NoTask = NoTask
INVARIANTS TasksTypeOK NoOrphanRule BlockRunsFirst
PROPERTIES ImplementsLifecycle StaysWhileTimed
\* With every rule name abandoned the program only waits for events.
CHECK_DEADLOCK FALSE
