SPECIFICATION PolledSpec
CONSTANTS
    Calendar <- MCCalendar
    Modes <- MCModes
    ReadsPerSecond = 21
    Mods <- MCMods
    Bufs = {1056768, 1118240, 1179616}
    Cards = {"good", "old", "absent"}
    MaxIrqs = 3
    Eeproms <- ZeroBased
    BarTypes = {0, 1}
INVARIANTS
    ChannelIsProgrammed
    MacIsTheCards
PROPERTIES
    SnapshotIsATime
    DateIsRight
    PollingEnds
CHECK_DEADLOCK FALSE
