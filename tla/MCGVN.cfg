CONSTANTS
  Width = 3
  MaxRounds = 6
  Fuel = 8
  Functions <- BothOrders
  Arguments <- Words
  Pointers <- Addresses
SPECIFICATION Spec
INVARIANTS WellFormed SameResults DuplicatesGone DefinedInOrder TrapsWithProgram
PROPERTY Ends
