SPECIFICATION FairSpec
CONSTANTS
    s1 = s1
    s2 = s2
    m1 = m1
    noid = noid
    NoId = noid
    Slot <- TwoSlots
    Mail <- OneMail
    BatchSize = 2
    MaxAttempts = 2
    Limits = {2}
    MaxInsert = 2
    MaxDelete = 1
    MaxTrigger = 1
    MaxCrash = 1
    MaxFault = 1
    MaxUpset = 1
INVARIANT TypeOK
INVARIANT QueueIsFair
INVARIANT Outcomes
PROPERTY Settles
