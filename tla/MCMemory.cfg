SPECIFICATION Spec
CONSTANTS
    MEMORY_START = 4
    MEMORY_END = 132
    WORD = 256
    Requests = {0, 1, 6, 17, 40}
    TestSizes <- MCTestSizes
INVARIANTS
    TypeOK
    BlocksTileHeap
    Coalesced
    UsedIsSumOfUsedBlocks
    HeldAreUsedBlocks
    MemoryTestRestoresHeap
    FreeUndoesAlloc
PROPERTIES
    HeldBlocksUntouched
    ImplementsAllocator
