\* Three ISOs, two lookup threads.
SPECIFICATION FairSpec
CONSTANTS
  root = root
  desktop = desktop
  server = server
  a = a
  b = b
  Isos = 3
  Directories = {root}
  Names = {a, b}
  Variants = {desktop, server}
  Sizes = {1, 2}
  NoSize = NoSize
  Free = {2, 3}
  Parallelism = 2
  Detections <- SomeDetections
  Releases <- SomeReleases
INVARIANTS
  TypeOK
  OneFilePerTarget
  WithinFreeSpace
  OwnVariantOnly
  RefusalsAreJust
  SkipsAreExplained
PROPERTIES
  PlanCompletes
