SPECIFICATION EarlierSpec
CONSTANTS
  Job = {j1, j2}
  Name = {api}
  NoName = NoName
  Kind = {"create", "delete", "build", "update", "deploy", "restart", "stop"}
  Unnamed = FALSE
  MaxHead = 2
  MaxCrash = 1
SYMMETRY JobSymmetry
\* when every job is over there is nothing left to do
CHECK_DEADLOCK FALSE
INVARIANTS
  SuccessMeansDone
  ListedMeansCheckedOut
  OrphanHasCause
  RunsWhatWasBuilt
PROPERTIES
  OnlyListedIsTouched
