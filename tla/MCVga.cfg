SPECIFICATION Spec
CONSTANTS
    MaxKeys = 2
    Positions = {0, 160}
INVARIANTS
    ScreenFitsTerminal
PROPERTIES
    PlanesApart
    OneTextOneRegister
CHECK_DEADLOCK FALSE
