SPECIFICATION StartupSpec
CONSTANTS
  Instances = {p1, p2}
  Sessions = {user}
  MayDeny = FALSE
  MaxStarts = 2
SYMMETRY Symmetry
PROPERTY NoInterference
CHECK_DEADLOCK FALSE
