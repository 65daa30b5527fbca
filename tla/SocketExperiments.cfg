CONSTANTS
    Iters = 4
    IdxWord = 5
    Client = "c"
    Server = "s"
    Packets = 2
    MaxFaults = 2
SPECIFICATION FairSpec
INVARIANTS TypeOK SocketOpen RowsAligned SendTimesComplete
PROPERTIES ExperimentEnds
CHECK_DEADLOCK FALSE
