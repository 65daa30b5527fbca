CONSTANTS
    NUM_FRAMES = 4
    RING_SIZE = 2
    RX_BATCH_SIZE = 2
    HwDepth = 1
    Iters = 4
    Builds = {TRUE, FALSE}
SPECIFICATION FairSpec
INVARIANTS TypeOK FramesConserved OutstandingExact HandledInOrder SentInOrder
PROPERTY EveryPacketHandled
CHECK_DEADLOCK FALSE
