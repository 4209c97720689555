SPECIFICATION ConsoleSpec
CONSTANTS
    VGA_WIDTH = 3
    VGA_HEIGHT = 4
    INPUT_SIZE = 6
    Printable = {"a", "b"}
    Outputs <- MCOutputs
INVARIANTS
    ScreenShowsLine
