SPECIFICATION Spec
CONSTANTS
  b1 = b1
  b2 = b2
  b3 = b3
  arg = arg
  num = num
  yes = yes
  flt = flt
  fun = fun
  MaxInstr = 5
  MaxOps = 4
  MaxPrints = 3
  MaxPreds = 2
  Value <- MCValue
  User <- MCInstr
  Block <- MCBlocks
  Entry = b1
  Other <- MCOther
  Callee = fun
  OtherTypes <- MCTypes
  OtherType <- MCTypeOf
  Menus <- MCMenus
INVARIANTS
  Mirror
  TypesOnce
  ListingReadsBack
CHECK_DEADLOCK FALSE
