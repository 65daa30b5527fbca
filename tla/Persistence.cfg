CONSTANTS
    Word = 16
    NUM_BUCKETS = 2
    OFFSET = 2
    Intervals = {1, 4}
    Stamps <- MCStamps
    MaxWrites = 3
SPECIFICATION Spec
INVARIANTS TypeOK Histogram Extremes CountedInOrder
CHECK_DEADLOCK FALSE
