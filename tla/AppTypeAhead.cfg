\* The user acts before the thread that saves an assignment has begun.
SPECIFICATION Spec
CONSTANTS
  d1 = d1
  d2 = d2
  p1 = p1
  p2 = p2
  q1 = q1
  Devices = {d1, d2}
  IsosOf <- SomeIsos
  NoDevice = NoDevice
  MaxScans = 3
  Scanners = 2
  Writers = 2
  TypeAhead = TRUE
PROPERTIES
  RefreshIgnored
