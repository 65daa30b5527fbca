CONSTANTS
    PACKETS_MAP_SIZE = 2
    Cpus = {c1, c2}
    Iters = 3
    Phases = {2}
    Builds = {FALSE}
SPECIFICATION Spec
INVARIANT NoTornPayload
CHECK_DEADLOCK FALSE
