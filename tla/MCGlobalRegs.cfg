SPECIFICATION Spec
CONSTANTS
    Functions <- DoubleArguments
    Worlds <- MCWorlds
    MaxSteps = 100
INVARIANTS LiveRegistersDisjoint
CHECK_DEADLOCK FALSE
