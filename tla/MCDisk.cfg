SPECIFICATION DiskSpec
CONSTANTS
    Base = 4
    Nibble = 2
    Lbas <- MCLbas
    NumSects = 2
    Drives = {"good", "bad", "absent"}
    Cols = 3
    SavedRows = 2
    LowestRow = 3
    WordsLen = 2
    Moves <- MCMoves
    Prints = 2
    IdentLen = 4
    Model = {1, 2}
INVARIANTS
    TransferOnlyReady
    SectorRequested
    
    NameIsTheDrives
PROPERTIES
    GoodDriveIsScanned
CHECK_DEADLOCK FALSE
