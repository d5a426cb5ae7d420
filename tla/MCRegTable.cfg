CONSTANTS
  max_instances = 6
  f1 = f1
  f2 = f2
  Fun <- MCFun
  Names <- MCNames
  Scratch <- MCScratch
  Prio <- MCPrio
  MaxDead = 2
SPECIFICATION Spec
INVARIANTS
  TypeOK
  FreeListExact
  IterExact
  FindExact
PROPERTIES
  DuplicatesRefused
  ImplementsPool
  ImplementsStripe
CHECK_DEADLOCK FALSE
