SPECIFICATION Spec
CONSTANTS
    m1 = m1
    m2 = m2
    s1 = s1
    s2 = s2
    shop = shop
    cli = cli
    serve = serve
    Runner = {cli}
    Decider = {serve}
    Msg <- TwoMails
    Sender <- TwoSenders
    FromOf <- OneEach
    DomainOf <- OneDomain
    Freemail = {}
    Bulk = {m1, m2}
    Unsure = {}
    MaxEvent = 2
    MaxDay = 1
INVARIANT AppliedIsRecorded
CHECK_DEADLOCK FALSE
