SPECIFICATION Spec
CONSTANTS
    Nil = Nil
    HalfSpace = 16
    WordBits = 5
    AmountValues = 16
    WideInt = TRUE
    ARMInstructions <- MCARM
    THUMBInstructions <- MCTHUMB
INVARIANTS TypeOK
PROPERTIES ShiftsByPlaces THUMBMatchesARM
