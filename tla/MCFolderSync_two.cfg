SPECIFICATION Spec
CONSTANTS
    m1 = m1
    m2 = m2
    ticker = ticker
    manual = manual
    Msg <- TwoMessages
    Workers <- TwoWorkers
    FetchBatch = 1
    EarlyRenumber = FALSE
    MaxChange = 3
    MaxRenumber = 0
    MaxFail = 0
    MaxSweep = 0
INVARIANT NoLostFlagChange
