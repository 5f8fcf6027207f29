CONSTANTS
  IDENTIFIER <- IDs
  INTEGER <- Ints
  FLOATPOINT <- Floats
  Programs <- All
SPECIFICATION Spec
INVARIANTS SameProgram ListingNests
