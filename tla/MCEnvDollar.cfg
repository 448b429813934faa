SPECIFICATION Spec
CONSTANTS
  Job = {j1, j2}
  Name = {api}
  NoName = NoName
  Var = {x, y}
  Value = {blank, one}
  Literal = {blank}
  Blank = blank
  Kind = {"set", "unset", "import"}
  Target = {"default", "service"}
  MaxCrash = 0
SYMMETRY JobSymmetry
\* when every job is over there is nothing left to do
CHECK_DEADLOCK FALSE
INVARIANTS
  ChangeIsExact
