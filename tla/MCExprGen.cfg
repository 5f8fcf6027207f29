SPECIFICATION Spec
CONSTANTS
  Pointee <- VarTypes
  Params <- FunParams
  Returns <- FunReturns
  Exprs <- AllExprs
INVARIANTS
  WellTyped
  ComputesMeaning
