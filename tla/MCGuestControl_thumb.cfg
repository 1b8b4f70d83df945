SPECIFICATION Spec
CONSTANTS
    WordSpace = 32
    BootModes = {16}
    GuestRegisters = {15}
    GuestWords = {12}
    GuestFlags <- MCFlags
    GuestStatus <- MCGuestStatus
    GuestLists = {}
    MaxSteps = 2
PROPERTIES InterruptsEnterARM
CHECK_DEADLOCK FALSE
