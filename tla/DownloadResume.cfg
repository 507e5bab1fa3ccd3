\* The size of the image is in the metadata.
SPECIFICATION FairSpec
CONSTANTS
  r1 = r1
  r2 = r2
  r3 = r3
  Releases = {r1, r2, r3}
  NoTag = NoTag
  Pinned = r1
  Size <- ReleaseSizes
  SizeKnown = TRUE
  Room = 4
  Server = {"ignoresIfRange", "omitsTag"}
  Faults = {"kill", "network", "short", "space", "cancel", "drive", "publish"}
  MaxFaults = 3
INVARIANTS
  TypeOK
  CountIsLength
  CompleteStaysOffline
PROPERTIES
  WithinAdvertisedSize
  CompleteDownloadKept
  EventuallyDownloaded
