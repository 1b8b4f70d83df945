SPECIFICATION Spec
CONSTANTS
    WordSpace = 32
    HostModes = {17, 32}
    HostStatus <- MCHostStatus
    HostFlags = {"c"}
    HostRegisters = {8, 16}
    HostValues = {1}
    MarkedPlusWritten = 2
INVARIANTS TypeOK ModeAlwaysValid RestoringStatusIsIdentity
PROPERTIES FailedCallsChangeNothing SavedStatusStability RegistersAreBanked
CONSTRAINTS MCBound
