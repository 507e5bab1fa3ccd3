\* Another program creates the target's name at any moment.
SPECIFICATION Spec
CONSTANTS
  Workers = {w1}
  Drives = {stick}
  Planned = stick
  NoDrive = NoDrive
  Blocks = 2
  Required = 2
  Room = 2
  Action = "ADD"
  DirectorySync = TRUE
  Faults = {"create", "createInWindow"}
  MaxFaults = 1
PROPERTY
  OthersFilesKept
CHECK_DEADLOCK FALSE
