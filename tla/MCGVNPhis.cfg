CONSTANTS
  Width = 3
  MaxRounds = 6
  Fuel = 8
  Functions <- PhiReads
  Arguments <- Words
  Pointers <- Addresses
SPECIFICATION Spec
INVARIANT MeaningKept
