CONSTANTS
  Total = 5
  BlkSize = 2
  Faults = {"check"}
  Values = {v1, v2}
  Missing = Missing
SPECIFICATION Spec
INVARIANT OneWhole
CHECK_DEADLOCK FALSE
