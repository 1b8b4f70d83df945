SPECIFICATION Spec
CONSTANTS
    WordSpace = 256
    WordBits = 8
    ByteSpace = 4
    PageSize = 8
    BranchBits = 3
    Boots <- MCBoots
    Memories <- MCMemories
    Pages <- MCPages
    Mappings <- MCMappings
    Devices <- MCDevices
    ARMInstructions <- MCARM
    THUMBInstructions <- MCTHUMB
    MaxSteps = 1
    MaxCoprocessors = 3
    Nil = Nil
INVARIANTS TypeOK
PROPERTIES RetriesAreInvisible FaultsAreResolved BlocksAscend StoresComeBack
    THUMBTransfersMatchARM CallsArrive LongMultipliesAreExact
CHECK_DEADLOCK FALSE
