SPECIFICATION Spec
CONSTANTS
    Nil = Nil
    PageSize = 4
    PagesPerTable = 2
    Tables = 2
    Byte <- MCByte
    HostAddresses = {6, 13}
    HostSizes = {4, 8}
    HostData <- MCData
    HostWords <- MCWords
INVARIANTS TypeOK WidthsAgree RoundTrips
PROPERTIES PagesAreFlat
