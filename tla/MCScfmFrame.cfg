CONSTANTS
  Total = 5
  BlkSize = 2
  Faults = {"memalign"}
  Values = {v1, v2}
  Missing = Missing
SPECIFICATION Spec
INVARIANT DefaultsBack
CHECK_DEADLOCK FALSE
