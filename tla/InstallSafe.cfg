\* One run at a time, every disturbance outside the windows between a check
\* and the operation it guards.
SPECIFICATION Spec
CONSTANTS
  Workers = {w1}
  Drives = {stick, other}
  Planned = stick
  NoDrive = NoDrive
  Blocks = 2
  Required = 2
  Room = 4
  Action = "REPLACE"
  DirectorySync = TRUE
  Faults = {"kill", "power", "unplug", "swap", "media", "io", "cancel", "create"}
  MaxFaults = 6
INVARIANTS
  TypeOK
  VisibleIsVerified
  SuccessIsDurable
  OldKeptUntilReplaced
PROPERTIES
  OtherDrivesUntouched
  OthersFilesKept
  Implements
\* The last disturbance spent and the ISO added, nothing is left to do.
CHECK_DEADLOCK FALSE
