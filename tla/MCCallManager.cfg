SPECIFICATION AtomicSpec
CONSTANTS
    None = None
    sync = sync
    a = a
    b = b
    d = d
    e = e
    ta = ta
    tb = tb
    td = td
    pos = pos
    c1 = c1
    c2 = c2
    Clients = {a, b, d, e}
    CallIds = {c1, c2}
    Targets = {ta, tb, pos}
    max_conf_size = 3
    MaxJoins = 3
    MaxInFlight = 2
    Creator <- MCCreator
    Resolves <- MCResolves
    SourceTargets <- MCSourceTargets
    FlakyLinks = {{a, b}, {b, e}}
INVARIANTS
    BusyMarkerIsExact
    IncomingIndexIsExact
    PendingInvitationsAreSound
    ConferenceSizeIsBounded
    JoinOrderAndReportsMatchParticipants
PROPERTIES
    JoinsOnlyByInvitation
    LeadershipNeverTransfers
    ImplementsConference
