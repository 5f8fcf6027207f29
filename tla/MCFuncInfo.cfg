SPECIFICATION FairSpec
CONSTANTS
  NumFuncs = 3
  MaxRuns = 2
  Modules <- AllModules
INVARIANTS
  TypeOK
  PureIsPure
  ImpureHasCause
  HeldStaysSound
PROPERTIES
  Returns
CHECK_DEADLOCK FALSE
