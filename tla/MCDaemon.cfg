SPECIFICATION FairSpec
CONSTANTS
  Unit = {user, system}
  Foreground = {shell}
  MaxFail = 4
PROPERTIES
  ReachedUntilDisplaced
  StartTakesOver
