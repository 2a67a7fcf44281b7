CONSTANTS
  Calls = {c1}
  Readers = {r1}
  Sim = sim
  MaxCalls = 1
  None = none
SPECIFICATION Spec
PROPERTY InOrder
