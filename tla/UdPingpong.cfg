CONSTANTS
    QUEUE_SIZE = 2
    Iters = 3
SPECIFICATION FairUdSpec
INVARIANTS UdTypeOK OneOwner NoSelfWait EchoInOrder PingsInOrder PersistInOrder
PROPERTIES EachAlone SenderEnds EveryPingEchoed LastPingEnds EveryPongPersisted
CHECK_DEADLOCK FALSE
