SPECIFICATION Spec
CONSTANTS
    Nil = Nil
    HalfSpace = 4
    WordBits = 3
    AmountValues = 4
    WideInt = TRUE
    BetweenOpcodes <- MCBetweenOpcodes
    BetweenWords <- MCBetweenWords
    BetweenAmounts = {0, 1}
INVARIANTS SumsOfTwoWords SignedBranches BorrowBranches DifferencesAreOffByOne
CHECK_DEADLOCK FALSE
