\* One run, retried until it succeeds.
SPECIFICATION FairSpec
CONSTANTS
  Workers = {w1}
  Drives = {stick}
  Planned = stick
  NoDrive = NoDrive
  Blocks = 3
  Required = 3
  Room = 5
  Action = "ADD"
  DirectorySync = TRUE
  Faults = {"kill", "power", "unplug", "media", "io", "cancel"}
  MaxFaults = 5
PROPERTIES
  EventuallyVisible
\* The ISO added and the last disturbance spent, nothing is left to do.
CHECK_DEADLOCK FALSE
