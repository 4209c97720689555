SPECIFICATION Spec
CONSTANTS
    MAX_ENTRIES = 10
    MAX_FILE_SIZE = 3
    NumBuffers = 4
    Chunks = {"p", "q", "?"}
    NUL = "0"
    Garbage = "?"
    Paths <- MCPaths
    Contents <- MCContents
    Cut <- MCCut
INVARIANTS
    TypeOK
    TreeConsistent
    BuffersOwned
    SizeIsLength
PROPERTIES
    OthersKeepTheirText
    SecondNameOnlyUnseen
