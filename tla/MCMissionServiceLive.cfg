\* Liveness: no symmetry, one binary; a preloaded mission or none.
CONSTANTS
  Calls = {c1, c2}
  Shutdown = shutdown
  Runs = {r1}
  Binaries = {b1}
  Partial = partial
  None = none
SPECIFICATION FairSpec
CHECK_DEADLOCK FALSE
PROPERTIES
  MissionEnds
  UploadFlagFreed
  ShutdownCompletes
