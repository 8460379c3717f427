SPECIFICATION LocksSpec
CONSTANTS
    None = None
    sync = sync
    a = a
    b = b
    d = d
    e = e
    ta = ta
    tb = tb
    td = td
    pos = pos
    c1 = c1
    c2 = c2
    Clients = {a, b, d}
    CallIds = {c1}
    Targets = {ta, tb, td}
    max_conf_size = 3
    MaxJoins = 3
    MaxInFlight = 2
    Creator <- MCCreator
    Resolves <- MCResolves
    SourceTargets <- MCSourceTargets
    FlakyLinks = {{a, b}, {b, d}}
INVARIANTS
    NobodyStaysBusy
    ConfirmedLinkIsBeingEvicted
PROPERTIES
    ImplementsConference
