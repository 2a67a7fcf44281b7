\* A statement of the repository that the code does not keep.
CONSTANTS
  Calls = {c1}
  Targets = {v1}
  None = none
SPECIFICATION Spec
INVARIANT
  ThreadLives
