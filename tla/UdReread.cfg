CONSTANTS
    QUEUE_SIZE = 2
    Iters = 3
SPECIFICATION Spec
INVARIANT LastPongPersisted
CHECK_DEADLOCK FALSE
