CONSTANTS
    PACKETS_MAP_SIZE = 2
    Cpus = {c1}
    Iters = 4
    Phases = {0, 2}
    Builds = {TRUE, FALSE}
SPECIFICATION FairSpec
INVARIANTS TypeOK NoTornPayload DropOnlyWhenFull
PROPERTIES NoOverwrite ImplementsQueue Drained
CHECK_DEADLOCK FALSE
