CONSTANTS
  Boots <- MCBoots
  Words <- MCWords
  DriveKey <- MCDriveKey
  Data = {"new"}
  WordBits = 3
  partition_offset = 4
  UnitShift = 1
  Images <- MCImages
SPECIFICATION HaiSpec
INVARIANTS
  OneMlc
  ScfmFits
  KeysRight
  SeepromIntact
  HaiReadsImage
PROPERTIES
  DevicesAppear
\* crash_and_burn and iosPanic stop the console
CHECK_DEADLOCK FALSE
