CONSTANTS
  Width = 3
  MaxRounds = 6
  Fuel = 8
  Functions <- Stale
  Arguments <- Words
  Pointers <- Addresses
SPECIFICATION Spec
INVARIANT Fixpoint
