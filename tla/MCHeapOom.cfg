SPECIFICATION Spec
CONSTANTS
    HeapBegin = 1
    HeapEnd = 21
    AddrMax = 30
    HDR = 2
    PAD = 1
    DescSize = 2
    Sizes <- MCSizes
    Modulus = 1
PROPERTY
    CannotAllocate
