SPECIFICATION StorageSpec
CONSTANTS
    b1 = b1
    b2 = b2
    r1 = r1
    Segments <- MCSegments
    Bars <- MCBars
    Raw = Raw
    Fact = Fact
    MaxFaults = 0
    MaxRecords = 2
    MaxLogFaults = 1
    FaultModels = {{"power"}}
INVARIANT NeverRefused
CHECK_DEADLOCK FALSE
