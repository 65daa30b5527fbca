CONSTANTS
    RECEIVE_DEPTH = 2
    SendDepth = 1
    Iters = 3
SPECIFICATION Spec
INVARIANT SendBufferSafe
CHECK_DEADLOCK FALSE
