SPECIFICATION FairSpec
CONSTANTS
  Name = {a, b}
  None = None
  MaxView = 2
  MaxFetch = 2
  MaxCall = 2
  MaxRow = 2
  MaxChange = 1
  MaxError = 1
CHECK_DEADLOCK FALSE
INVARIANTS
  TypeOK
  ShowsItsOwn
  EnvBusy
  ViewIsHonest
PROPERTIES
  DetailCatchesUp
