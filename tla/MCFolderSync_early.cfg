SPECIFICATION Spec
CONSTANTS
    m1 = m1
    m2 = m2
    ticker = ticker
    manual = manual
    Msg <- TwoMessages
    Workers <- OneWorker
    FetchBatch = 1
    EarlyRenumber = TRUE
    MaxChange = 3
    MaxRenumber = 1
    MaxFail = 0
    MaxSweep = 0
INVARIANT MailIdentity
