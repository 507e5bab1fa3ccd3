\* Two application processes apply the same item; nothing else goes wrong.
SPECIFICATION Spec
CONSTANTS
  Workers = {w1, w2}
  Drives = {stick}
  Planned = stick
  NoDrive = NoDrive
  Blocks = 2
  Required = 2
  Room = 6
  Action = "ADD"
  DirectorySync = TRUE
  Faults = {}
  MaxFaults = 0
INVARIANT
  VisibleIsVerified
CHECK_DEADLOCK FALSE
