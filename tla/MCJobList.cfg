SPECIFICATION FairSpec
CONSTANTS
  Name = {a, b}
  Fetch = {f, g}
  MaxChange = 2
  MaxSecond = 1
  MaxError = 1
  Recent = 1
CHECK_DEADLOCK FALSE
INVARIANTS
  ScreenIsHonest
  LastActivityIsLatest
PROPERTIES
  ListCatchesUp
