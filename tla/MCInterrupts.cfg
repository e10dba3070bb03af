SPECIFICATION Spec
CONSTANTS
    Irqs = {1, 7, 12}
    Faults = {3, 13, 6}
    MaxFaults = 1
    StackDepth = 4
    BootB = {2}
INVARIANTS
    EveryVectorHasItsGate
    Acknowledged
    ClockNotWedged
PROPERTIES
    EoiRetiresOwn
    GetsPastHlt
