SPECIFICATION Spec
CONSTANTS
  Job = {j1, j2}
  Name = {api}
  NoName = NoName
  NoJob = NoJob
  Caller = {c1}
  MaxOutput = 1
  MaxLost = 0
  MaxCrash = 1
SYMMETRY JobSymmetry
INVARIANTS
  TypeOK
  MutualExclusion
  StatusIsExplained
  OutcomeIsLogged
  RunningIsCancellable
PROPERTIES
  StatusMovesForward
  LogEndsBeforeStatus
  ImplementsLifecycle
