CONSTANTS
    BaudPeriod <- MCBaudPeriod
    OsPeriod <- MCOsPeriod
    OsRate <- MCOsRate
    DWidth = 8
    Frames = 2
    Bytes <- MCBytes
    HostPeriods <- MCPeriods
    Gaps <- MCGaps
SPECIFICATION FairSpec
INVARIANT UnderstoodFramesAreHeard
PROPERTIES ImplementsByteUart EveryFrameEnds
CHECK_DEADLOCK FALSE
