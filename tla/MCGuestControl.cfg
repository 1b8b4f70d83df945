SPECIFICATION Spec
CONSTANTS
    WordSpace = 32
    BootModes = {16}
    GuestRegisters = {13, 15}
    GuestWords = {4, 13}
    GuestFlags <- MCFlags
    GuestStatus <- MCGuestStatus
    GuestLists <- MCLists
    MaxSteps = 4
INVARIANTS TypeOK ModeAlwaysValid
PROPERTIES UserIsolation BankIsolation SavedStatusStability FailuresKeepControl
CHECK_DEADLOCK FALSE
