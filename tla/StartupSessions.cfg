SPECIFICATION StartupSpec
CONSTANTS
  Instances = {p1, p2}
  Sessions = {service, user}
  MayDeny = FALSE
  MaxStarts = 2
SYMMETRY Symmetry
PROPERTY EarlierInstanceKeepsRules
CHECK_DEADLOCK FALSE
