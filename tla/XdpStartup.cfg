CONSTANTS
    Client = "c"
    Server = "s"
    ClientPrograms = {"sock"}
    ServerPrograms = {"poll", "pure", "sock"}
    ClientRuns = 2
    ServerRuns = 5
    MaxFaults = 1
SPECIFICATION FairSpec
INVARIANTS TypeOK FreshMap RetryAttaches Paired
PROPERTIES ExchangeEnds
CHECK_DEADLOCK FALSE
