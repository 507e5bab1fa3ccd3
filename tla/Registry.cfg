\* Two instances, three releases, one disturbance.
SPECIFICATION Spec
CONSTANTS
  Apps = {a1, a2}
  Releases <- MCReleases
  AllIds = {"p", "q", "u"}
  Builtin = {"p"}
  Local = {"u"}
  Refused = Refused
  Faults = {"network", "replay", "expire", "clock", "kill", "local"}
  MaxFaults = 1
INVARIANTS
  TypeOK
PROPERTIES
  OneRelease
  NoRollback
  EventuallyFresh
