SPECIFICATION FairSpec
CONSTANTS
    m1 = m1
    m2 = m2
    ticker = ticker
    manual = manual
    Msg <- TwoMessages
    Workers <- OneWorker
    FetchBatch = 1
    EarlyRenumber = FALSE
    MaxChange = 3
    MaxRenumber = 1
    MaxFail = 1
    MaxSweep = 1
INVARIANT TypeOK
INVARIANT MailIdentity
INVARIANT NoLostFlagChange
 
PROPERTY Converges
