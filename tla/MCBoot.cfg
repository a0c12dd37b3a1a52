CONSTANTS
  Boots <- MCBoots
  Mirrors <- MCMirrors
  MirrorSz = 2
  RamdiskEnd = 64
  MaxBack = 3
SPECIFICATION Spec
INVARIANTS
  ImportsBound
  MapSound
  NotesIntact
  SearchFindsFirst
PROPERTY
  BootCompletes
\* the boot ends, well or badly
CHECK_DEADLOCK FALSE
