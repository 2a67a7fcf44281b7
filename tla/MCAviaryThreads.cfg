\* Two threads that serve three calls of any kind, which may overlap, a telemetry
\* stream and the simulation.
CONSTANTS
  Calls = {c1, c2}
  Readers = {r1}
  Sim = sim
  MaxCalls = 3
  None = none
SPECIFICATION Spec
SYMMETRY Alike
INVARIANTS
  TypeOK
  LastCallWins
  SurvivesUnlessRobbed
\* Every thread may end: both that pop waypoints, with the IndexError of popleft,
\* and those that serve calls, when no more are made.
CHECK_DEADLOCK FALSE
