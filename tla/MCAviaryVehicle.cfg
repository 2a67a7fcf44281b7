\* Two places, four heights, home a step below zero and a step above the lowest.
CONSTANTS
  Places = {home, away}
  HomePlace = home
  MinHeight <- BelowZero
  MaxHeight = 1
  HomeHeight <- BelowOrigin
  None = none
SPECIFICATION FairSpec
INVARIANTS
  OnRoute
  MotionMatchesMode
PROPERTIES
  LevelReturn
  FollowsRoutes
  ComesToRest
