SPECIFICATION Spec
CONSTANTS
    Functions <- AllFunctions
    Worlds <- MCWorlds
    MaxSteps = 100
INVARIANTS CodeMeansSame CodeGenSucceeds LiveRegistersDisjoint
CHECK_DEADLOCK FALSE
