CONSTANTS
  b1 = b1
  b2 = b2
  b3 = b3
  x = x
  y = y
  m = m
  NoDef = NoDef
  INVALID = INVALID
  Order <- MCOrder
  Reg <- MCReg
  Mem <- MCMem
  Programs <- MCPrograms
  MaxPath = 5
SPECIFICATION Spec
INVARIANTS
  NoLookupFails
  DefsExact
  MeaningPreserved
PROPERTY
  VisitsProgress
CHECK_DEADLOCK FALSE
