\* Two drives, three scans or assignments; a new thread's first handler runs
\* before the user acts.
SPECIFICATION FairSpec
CONSTANTS
  d1 = d1
  d2 = d2
  p1 = p1
  p2 = p2
  q1 = q1
  Devices = {d1, d2}
  IsosOf <- SomeIsos
  NoDevice = NoDevice
  MaxScans = 3
  Scanners = 2
  Writers = 2
  TypeAhead = FALSE
INVARIANTS
  TypeOK
  OneWriter
  WritesWhatWasConfirmed
  ScreenAgrees
PROPERTIES
  RefreshIgnored
  CancelIsHeeded
  OperationsEnd
