SPECIFICATION KeyboardSpec
CONSTANTS
    MaxKeys = 12
    Boots = {"quiet", "noisy"}
    MaxTyped = 3
    MaxPackets = 2
INVARIANTS
    IInv
    WholePacket
    KeysAreTyped
PROPERTIES
    ReturnsLastKey
    BytesAreRead
    BootEnds
    TypedKeyEndsTheWait
CHECK_DEADLOCK FALSE
