\* The metadata do not give the size, as with most built-in resolvers.
SPECIFICATION Spec
CONSTANTS
  r1 = r1
  r2 = r2
  r3 = r3
  Releases = {r1, r2, r3}
  NoTag = NoTag
  Pinned = r1
  Size <- ReleaseSizes
  SizeKnown = FALSE
  Room = 6
  Server = {}
  Faults = {"drive"}
  MaxFaults = 1
INVARIANT
  CompleteStaysOffline
