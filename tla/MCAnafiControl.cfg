\* Two handler threads whose calls may overlap, two velocities, and the velocity thread.
CONSTANTS
  Calls = {c1, c2}
  Targets = {v1, v2}
  None = none
SPECIFICATION Spec
SYMMETRY Alike
INVARIANTS
  TypeOK
  OneStaleStep
  Settled
  HoldHolds
