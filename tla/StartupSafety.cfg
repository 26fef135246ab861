SPECIFICATION FairStartupSpec
CONSTANTS
  Instances = {p1, p2}
  Sessions = {service, user}
  MayDeny = TRUE
  MaxStarts = 3
INVARIANTS StartupTypeOK RunsAsConfigured EditsUnderMutex OnlyRacersRunTogether
PROPERTY AllListenOrNone
\* After the last start every instance ends.
CHECK_DEADLOCK FALSE
