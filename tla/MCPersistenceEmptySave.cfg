SPECIFICATION PSpec
CONSTANTS
    MAX_ENTRIES = 9
    MAX_FILE_SIZE = 2
    NumBuffers = 5
    Chunks = {"p"}
    NUL = "0"
    Garbage = "p"
    Paths <- MCPaths
    Contents <- MCContents
    Cut <- MCCut
    TotalSectors = 3
    OFFSET = 2
    ENTRIES_ON_DISK = 8
    MaxSaves = 2
    MaxCycles = 1
INVARIANTS
    SaveIsLoadable
