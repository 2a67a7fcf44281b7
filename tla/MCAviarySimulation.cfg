\* Two actors and one camera, ticks of two lengths, a turn of eight parts.
CONSTANTS
  N = 2
  Places <- SomePlaces
  Configs <- SomeConfigs
  None = none
  Half = 4
  AngSpeed = 2
  Angles <- SomeAngles
  Rates <- SomeRates
  MaxDrift = 21
  NoMode = nomode
  Dts = {1, 2}
SPECIFICATION FairSpec
INVARIANTS
  OnTrace
  StaysNearby
PROPERTIES
  ClosesIn
  TracesRun
  Faces
