SPECIFICATION PartSpec
CONSTANTS
    w1 = w1
    w2 = w2
    k1 = k1
    k2 = k2
    PingInterval = 6
    PongTimeout = 2
    MaxDelay = 1
    Pauses = {10, 19}
    MaxTraffic = 2
    MaxPings = 4
    Preempted = FALSE
INVARIANTS
    DeadConnectionsAreFound
PROPERTIES
    LiveConnectionsStay
    
    LossesAreNoticed
    WaitersAreServed
    DeadLinksAreSettled
CHECK_DEADLOCK FALSE
