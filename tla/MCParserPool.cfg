SPECIFICATION FairSpec
CONSTANTS
    o1 = o1
    o2 = o2
    Objects = {o1, o2}
    NoEntry = NoEntry
    NoResult = NoResult
    GOMAXPROCS = 2
    Offered <- Inputs
    MaxInputs = 3
    MaxConcurrency = 2
    MaxOutputs = 1
INVARIANTS
    ResultsMatchInputs
    ResultsAreBacked
PROPERTIES
    KeepsProvenance
    ParseManyReturns
CHECK_DEADLOCK FALSE
