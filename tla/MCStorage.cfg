SPECIFICATION Spec
CONSTANTS
    TotalSectors = 3
    OFFSET = 2
    Values = {"blank", "u"}
    Blank = "blank"
INVARIANTS
    HddReadsBack
    BufferHoldsLastWrite
