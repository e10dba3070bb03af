SPECIFICATION PrintfSpec
CONSTANTS
    Half = 128
    BufLen = 10
    Ints <- MCInts
    Widths <- MCWidths
    Texts <- MCTexts
    MaxItems = 4
PROPERTY
    LenIsWidth
CHECK_DEADLOCK FALSE
