SPECIFICATION FairSpec
CONSTANTS
  NumFuncs = 2
  Ins = {1, 2, 3, 4}
  Programs <- AllPrograms
INVARIANTS
  CriticalKept
  NoDangling
  UnlinkTouchesLive
  UseListsExact
  OnlyUsefulLeft
PROPERTIES
  Ends
CHECK_DEADLOCK FALSE
