SPECIFICATION FairSpec
CONSTANTS
  N = 4
  Graphs <- AllGraphs
INVARIANTS
  AssertsHold
  TreeClimbs
  DominatorsOnChain
PROPERTIES
  IdomOnlyClimbs
  ComputesDominance
  Terminates
CHECK_DEADLOCK FALSE
