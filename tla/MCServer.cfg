SPECIFICATION PartSpec
CONSTANTS
    x = x
    z = z
    key = key
    m1 = m1
    m2 = m2
    None = None
    Clients = {x}
    CLIENT_CHANNEL_CAPACITY = 2
    CLIENT_WEBSOCKET_TASK_CHANNEL_CAPACITY = 4
    PongTicks = 1
    Requests = {z, "login", "logout", "pong", "malformed"}
    MaxRequests = 3
    Stalling = {x}
    Closing = {x}
    Kicked = {x}
    MayShutDown = TRUE
INVARIANTS
    EndedSessionsLeaveNoCalls
    RateLimitsAreExact
    ControllersAreIndexed

    
CHECK_DEADLOCK FALSE
