SPECIFICATION Spec
CONSTANTS
    MEMORY_START = 4
    MEMORY_END = 380
    WORD = 1024
    MAX_USER_PROGRAMS = 2
    MAX_PROGRAM_SIZE = 40
    USER_STACK_SIZE = 36
    USER_HEAP_SIZE = 72
    MAX_FILE_SIZE = 36
    MAX_ENTRIES = 8
    EntriesAtBoot = 3
    BuffersAtBoot = 1
    Demos <- MCDemos
    CompiledSizes = {5, 18}
    RunSize = 12
    SyscallSizes = {16}
    MaxGrants = 1
    Names = {"a"}
    Lines <- MCLines
    BeginsWith <- MCBeginsWith
    ProgramOf <- MCProgramOf
    TEST_SIZE1 = 28
    TEST_SIZE2 = 32
INVARIANTS
    ProgramsAgree
    OwnersKeepBlocks
PROPERTIES
    OnlyTestAndLoadLose
