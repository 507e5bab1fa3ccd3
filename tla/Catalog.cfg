\* Two instances, two ISOs, three assignments.
SPECIFICATION Spec
CONSTANTS
  Apps = {a1, a2}
  Isos = {p, q}
  Contents = {c1, c2}
  Identities = {ubuntu, debian}
  Nothing = Nothing
  Faults = {"kill", "power", "io", "change"}
  MaxFaults = 2
  MaxAssignments = 3
SYMMETRY Symmetry
INVARIANTS
  TypeOK
  NeverTorn
  OnlyWhatWasMeant
PROPERTIES
  KeptUnlessOverlapped
CHECK_DEADLOCK FALSE
