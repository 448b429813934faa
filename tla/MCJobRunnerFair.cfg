SPECIFICATION FairSpec
CONSTANTS
  Job = {j1, j2}
  Name = {api, web}
  NoName = NoName
  NoJob = NoJob
  Caller = {c1}
  MaxOutput = 0
  MaxLost = 0
  MaxCrash = 0
PROPERTIES
  EveryJobSettles
