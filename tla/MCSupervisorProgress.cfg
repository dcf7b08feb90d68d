CONSTANTS
    Ops = {o1}
    Workers = {w1, w2}
    Commands = {"act", "recover"}
    MaxRecords = 1
    MaxFaults = 1
    HostCloses = TRUE
    Close = Close
    None = None
SPECIFICATION FairSpec
INVARIANT ClosedIsFinal
PROPERTIES
    EveryOperationReturns
    CloseEnds
