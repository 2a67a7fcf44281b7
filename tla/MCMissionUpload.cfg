\* Every way to cut up to 7 bytes into chunks of 0 to 4; the ELF prefix has 3.
CONSTANTS
  MaxSize = 7
  PrefixLen = 3
  ChunkSizes = {0, 1, 2, 4}
  Arch = "arm64"
SPECIFICATION Spec
CHECK_DEADLOCK FALSE
INVARIANTS
  AcceptedIsWhole
  CheckedFirst
