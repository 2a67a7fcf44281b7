\* Readings below, at and beyond the dead band, the settling error and the
\* setpoints; commands and integral reach their limits; kd divides by every time.
CONSTANTS
  Setpoints <- SomeSetpoints
  Readings <- SomeReadings
  Deadband = 2
  Settling = 3
  Stale = 1
  HalfKp = 1
  Ki = 1
  Kd = 2
  MaxI = 3
  PcmdMax = 8
  Unit = 2
  MaxElapsed = 1
  None = none
SPECIFICATION Spec
INVARIANTS
  TypeOK
  NeverFights
