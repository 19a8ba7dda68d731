SPECIFICATION FairSpec
CONSTANTS
    serve = serve
    stdio = stdio
    n1 = n1
    Proc <- TwoProcs
    Nonce <- OneNonce
    Mail <- ThreeMails
    NonceOf <- Copies
    Trusted = {2, 3}
    MaxUpset = 2
    MaxEvent = 2
INVARIANT TypeOK
INVARIANT HonouredOnce
PROPERTY PublishedBeforeMarked
PROPERTY EveryCommandHandled
PROPERTY TrustedIsHonoured
CHECK_DEADLOCK FALSE
