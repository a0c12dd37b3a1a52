CONSTANTS
  Total = 5
  BlkSize = 2
  Faults <- MCFaults
  Values = {v1, v2}
  Missing = Missing
SPECIFICATION Spec
INVARIANTS TypeOK OneWhole CleanedUp
PROPERTIES ImplementsCache Boots
