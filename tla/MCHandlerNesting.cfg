SPECIFICATION Spec
CONSTANTS
    WordSpace = 32
    Targets = {16}
    GuestFlags <- MCFlags
    GuestMasks <- MCMasks
    ProgramStates = {TRUE, FALSE}
    MaxExceptions = 2
INVARIANTS TypeOK ReturnStateKept
PROPERTIES SavingHandlersReturn
