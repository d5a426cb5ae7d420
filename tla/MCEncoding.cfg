SPECIFICATION Spec
CHECK_DEADLOCK FALSE
CONSTANTS
    ISAs <- BothISAs
    Words <- MCWords
    OperandLists <- MCOperandLists
INVARIANTS
    WordSurvives
    OperandsSurvive
    MostSpecificFound
