CONSTANTS
    NUM_FRAMES = 4
    RING_SIZE = 2
    RX_BATCH_SIZE = 2
    HwDepth = 1
    Iters = 5
    Builds = {TRUE}
SPECIFICATION Spec
INVARIANT NoFrameLost
CHECK_DEADLOCK FALSE
