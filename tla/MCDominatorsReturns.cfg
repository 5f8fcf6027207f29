SPECIFICATION FairSpec
CONSTANTS
  N = 6
  Graphs <- ReturnInBothArms
PROPERTIES
  Terminates
CHECK_DEADLOCK FALSE
