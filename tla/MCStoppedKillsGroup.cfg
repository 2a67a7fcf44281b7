\* A statement of the repository that the code does not keep.
CONSTANTS
  Calls = {c1, c2}
  Shutdown = shutdown
  Runs = {r1, r2}
  Binaries = {b1, b2}
  Partial = partial
  None = none
SPECIFICATION ObservedSpec
SYMMETRY Symmetry
CHECK_DEADLOCK FALSE
INVARIANTS
  StoppedKillsGroup
