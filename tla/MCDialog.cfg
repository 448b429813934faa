SPECIFICATION DialogsSpec
CONSTANTS
  Job = {a, b}
  NoJob = NoJob
  MaxLine = 2
  MaxOpen = 2
  MaxError = 1
  MaxCreate = 2
CHECK_DEADLOCK FALSE
SYMMETRY JobSymmetry
INVARIANTS
  DialogsTypeOK
  OwnLog
  CompleteMeansOver
  OneCreateAtATime
  PageScrolls
