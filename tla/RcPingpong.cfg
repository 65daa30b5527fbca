CONSTANTS
    RECEIVE_DEPTH = 3
    SendDepth = 1
    Iters = 4
SPECIFICATION FairSpec
INVARIANTS TypeOK CreditsExact
PROPERTY EndTogether
CHECK_DEADLOCK FALSE
