SPECIFICATION RunSpec
CONSTANTS
  N = 6
  x = x
  y = y
  Var = {x, y}
  Scalar = {x, y}
  Programs <- AllFunctions
  Token = {0, 1}
  Unset = Unset
  MaxBlocks = 8
INVARIANTS
  SameValues
  FailsOnlyUnstored
  NoDangling
  StacksFollowPath
  PhisMinimal
CHECK_DEADLOCK FALSE
