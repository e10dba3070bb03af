SPECIFICATION BootSpec
CONSTANTS
    Base = 143
    Top = 284
    LowByte = 5
    DescSize = 1
    Buses = 2
    Slots = 2
    Functions = 4
    Room = 3
    DrvRoom = 4
    Answering <- MCAnswering
    Images <- MCImages
    Runs = {1, 4}
    FileLimit = 36
    X = 1
    Y = 1
    Pitch = 3
    W = 2
    H = 2
    MaxTicks = 2
INVARIANTS
    TableOutlastsImage
    PictureIsTheFile
    ShiftedByTicks
PROPERTIES
    DevicesKept
    OnlyTheLastOverruns
CHECK_DEADLOCK FALSE
