SPECIFICATION FairSpec
CONSTANTS
    h1 = h1
    e1 = e1
    e2 = e2
    Ping = ping
    Proc = {"serve"}
    Hook <- OneHook
    Event <- TwoEvents
    MaxAttempts = 2
    DisableAfter = 2
    BatchSize = 2
    MaxUpset = 1
INVARIANT TypeOK
INVARIANT EventReachesSubscribers
INVARIANT PostsOnlyToActive
INVARIANT DisabledByStreak
PROPERTY KeepsContract
PROPERTY Settles
CHECK_DEADLOCK FALSE
