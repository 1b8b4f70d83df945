SPECIFICATION Spec
CONSTANTS
    Nil = Nil
    PageSize = 4
    PagesPerTable = 2
    Tables = 2
    Byte <- MCByte
    HostAddresses = {0, 4, 8, 12}
    HostSizes = {4, 8, 12}
    HostData <- MCData
    HostWords = {}
PROPERTIES ClearsGivenRange
