SPECIFICATION Spec
CONSTANTS
  Job = {j1, j2}
  Name = {api}
  NoName = NoName
  Kind = {"create", "delete", "build", "update", "deploy", "restart", "stop"}
  Unnamed = TRUE
  MaxHead = 1
  MaxCrash = 0
SYMMETRY JobSymmetry
\* when every job is over there is nothing left to do
CHECK_DEADLOCK FALSE
INVARIANTS
  OneJobPerCheckout
