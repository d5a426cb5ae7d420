CONSTANTS
  Name <- MCName
  Functions <- MCSpinning
  Orders <- MCOrders
  MaxEdits = 0
SPECIFICATION Spec
INVARIANT
  RemovalKeepsEdgesInside
CHECK_DEADLOCK FALSE
