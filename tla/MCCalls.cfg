SPECIFICATION PartSpec
CONSTANTS
    a = a
    b = b
    e = e
    ta = ta
    tb = tb
    te = te
    tpos = tpos
    c1 = c1
    c2 = c2
    me = me
    p = p
    q = q
    None = None
    CallIds = {c1}
    Clients <- Three
    Targets <- AllTargets
    max_conf_size = 5
    Resolves <- MCResolves
    SourceTargets <- MCSources
    FlakyLinks = {}
    MaxJoins = 9
    RateLimiting = FALSE
    INCOMING_CALLS_LIMIT = 1
    InviteSets <- Singles
    Callers = {a}
    Commands <- Everything
    Patient = TRUE
    Careful = TRUE
    Reconnects = {b}
    MaxMoves = 4

    
PROPERTIES
    WindowShowsTheCalls
CHECK_DEADLOCK FALSE
