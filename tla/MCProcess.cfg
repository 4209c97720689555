SPECIFICATION Spec
CONSTANTS
    MEMORY_START = 4
    MEMORY_END = 212
    WORD = 512
    PROCESS_SIZE = 24
    StackSizes = {20, 44}
    MaxPid = 4
INVARIANTS
    ProcessesOwnHeap
    NoDanglingProcess
PROPERTIES
    OnlyAHolderStarves
    OnlyStartStrands
