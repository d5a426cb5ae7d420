CONSTANTS
  Mode = {"binary", "normal"}
  EarlyReturn = {"binary"}
  None = None
  MaxSpurious = 2
SPECIFICATION Spec
INVARIANTS
  TypeOK
  LinkMeansStopped
PROPERTIES
  HandlerReturns
  ImplementsBreakPoint
CHECK_DEADLOCK FALSE
