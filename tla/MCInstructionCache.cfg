SPECIFICATION Spec
CONSTANTS
    Raw <- MCRaw
    SetIndices <- MCSetIndices
    Hash <- MCHash
    Parse <- MCParse
    Nil = Nil
INVARIANTS WaysSound
PROPERTIES CachesTheRecentPair
