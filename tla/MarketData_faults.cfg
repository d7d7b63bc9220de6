SPECIFICATION StorageSpec
CONSTANTS
    b1 = b1
    b2 = b2
    r1 = r1
    Segments <- MCSegments
    Bars <- MCBars
    Raw = Raw
    Fact = Fact
    MaxFaults = 4
    MaxRecords = 3
    MaxLogFaults = 4
    FaultModels = {{"power"}, {"call", "kill"}, {"call", "kill", "power"}}
INVARIANTS
    RowsOnce
    CollectedIsOwned
    RestartRecovers
PROPERTY ImplementsSegment
CHECK_DEADLOCK FALSE
