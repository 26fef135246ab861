SPECIFICATION ConfigurationSpec
CONSTANT
  Firsts = {0, 9, 10, 11, 99, 100, 101, 127, 128, 171, 172, 173, 191, 192, 193, 255}
INVARIANT WhitelistIsExact
\* The behaviour ends with the last address.
CHECK_DEADLOCK FALSE
