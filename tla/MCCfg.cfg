CONSTANTS
  Name <- MCName
  Functions <- MCFunctions
  Orders <- MCOrders
  MaxEdits = 2
SPECIFICATION Spec
INVARIANTS
  BehaviourPreserved
  EdgesMatchCode
  FailuresExplained
CHECK_DEADLOCK FALSE
