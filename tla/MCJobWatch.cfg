SPECIFICATION WatchFairSpec
CONSTANTS
  Job = {j1}
  Name = {api}
  NoName = NoName
  NoJob = NoJob
  Caller = {c1}
  Watcher = {w1}
  MaxAfter = 1
  MaxOutput = 1
  MaxLost = 1
  MaxCrash = 1
INVARIANTS
  DeliveredExactly
  SuccessIsReal
  LateWatchIsComplete
  CancelOfRunningArrives
PROPERTIES
  WatchEnds
