SPECIFICATION TerminalSpec
CONSTANTS
    VGA_WIDTH = 4
    VGA_HEIGHT = 3
    Lines = {1, 4, 6}
    Pointer <- MCPointer
    Words = 2
    Half = 128
    BufLen = 10
    Ints <- MCInts
    Widths <- MCWidths
    Texts <- MCTexts
    MaxItems = 4
INVARIANTS
    ColumnOnScreen
    NearTheScreen
    CursorFollows
    PlainCall
PROPERTY
    NumberFirst
CHECK_DEADLOCK FALSE
