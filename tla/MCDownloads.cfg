SPECIFICATION PartSpec
CONSTANTS
    None = None
    u = u
    s1 = s1
    r1 = r1
    r2 = r2
    t1 = t1
    t2 = t2
    a = a
    b = b
    broken = broken
    Users = {u}
    Sessions = {s1}
    Requests = {r1, r2}
    Positions = {"TWR", "APP"}
    WsLifetime = 1
    ApiLifetime = 1
    MaxTokens = 3
    MaxTime = 2

    
    
    
PROPERTIES
    Recovers
CHECK_DEADLOCK FALSE
