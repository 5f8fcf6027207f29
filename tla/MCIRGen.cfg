SPECIFICATION Spec
CONSTANTS
  Names <- OneName
  MaxStmts = 2
  MaxVars = 2
  MaxParams = 1
INVARIANTS
  TerminatorLast
  NoBlockLost
  DeclDominatesUse
  Reducible
  OrphansAreJoins
