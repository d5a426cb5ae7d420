CONSTANTS
  b1 = b1
  b2 = b2
  b3 = b3
  x = x
  y = y
  Order <- MCOrder
  Reg <- MCReg
  Bodies <- MCBodies
  Cfgs <- MCCfgs
SPECIFICATION FairSpec
INVARIANTS
  LivenessExact
  RemovalKeepsWhatIsRead
  IInv
  LeastSolutionAtEnd
PROPERTIES
  Terminates
  ImplementsSolver
CHECK_DEADLOCK FALSE
