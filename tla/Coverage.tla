------------------------------ MODULE Coverage ------------------------------
(***************************************************************************)
(* Which position controls which station: the functions of               *)
(* vacs-vatsim/src/coverage/network.rs and the station bookkeeping that   *)
(* vacs-server/src/state/clients/manager.rs builds on them. A network is a *)
(* record of maps: stations to their ordered list of controlling positions, *)
(* positions to what the server needs of them, profiles to the stations    *)
(* they show, and what a controller's callsign and frequency match.        *)
(***************************************************************************)
EXTENDS Naturals, Sequences

CONSTANT None

-----------------------------------------------------------------------------
(* Network: the data, and what a loaded network guarantees. *)

\* controlled_stations is filled by the loader as the inverse of controlled_by,
\* and every position a station names exists.
WellFormed(net) ==
    /\ None \notin DOMAIN net.positions
    /\ \A s \in DOMAIN net.stations :
           /\ net.stations[s] \in Seq(DOMAIN net.positions)
    /\ \A p \in DOMAIN net.positions :
           net.positions[p].controlled_stations =
               {s \in DOMAIN net.stations : \E i \in 1 .. Len(net.stations[s]) : net.stations[s][i] = p}

\* the first online position in the order of controlled_by
ControllingPosition(net, s, online) ==
    LET order == net.stations[s]
        live  == {i \in 1 .. Len(order) : order[i] \in online /\ order[i] \in DOMAIN net.positions}
    IN  IF s \notin DOMAIN net.stations \/ live = {}
        THEN None
        ELSE order[CHOOSE i \in live : \A j \in live : i <= j]

CoveredStations(net, online) == {s \in DOMAIN net.stations : ControllingPosition(net, s, online) # None}

\* the map of online stations that a set of online positions calls for
CoverageOf(net, online) ==
    [s \in CoveredStations(net, online) |-> ControllingPosition(net, s, online)]

-----------------------------------------------------------------------------
(* Changes of coverage. A change has at most one entry per station, so a    *)
(* sorted list of changes is a set.                                        *)

Online(s, p)     == [station |-> s, from |-> None, to |-> p]
Offline(s)       == [station |-> s, from |-> None, to |-> None]
Handoff(s, p, q) == [station |-> s, from |-> p, to |-> q]

StationChange(s, before, after) ==
    CASE before = None -> Online(s, after)
      [] after = None  -> Offline(s)
      [] OTHER         -> Handoff(s, before, after)


\* only stations that a changed position can control are looked at
CandidateStations(net, from, to) ==
    {s \in DOMAIN net.stations :
        \E p \in ((from \ to) \union (to \ from)) \cap DOMAIN net.positions :
            s \in net.positions[p].controlled_stations}

CoverageDiff(net, from, to) ==
    {StationChange(s, ControllingPosition(net, s, from), ControllingPosition(net, s, to)) :
        s \in {t \in CandidateStations(net, from, to) :
                  ControllingPosition(net, t, from) # ControllingPosition(net, t, to)}}

\* coverage_changes for positions that leave and join a set of online positions
CoverageChanges(net, leaving, joining, online) ==
    CoverageDiff(net, online, (online \ leaving) \union joining)

\* compute_station_diff of two station maps
StationDiff(old, new) ==
    {StationChange(s, IF s \in DOMAIN old THEN old[s] ELSE None,
                      IF s \in DOMAIN new THEN new[s] ELSE None) :
        s \in {t \in DOMAIN old \union DOMAIN new :
                  ~(t \in DOMAIN old /\ t \in DOMAIN new /\ old[t] = new[t])}}

\* update_online_stations
Applied(stations, changes) ==
    LET gone == {c.station : c \in {d \in changes : d.to = None}}
        set  == {c.station : c \in {d \in changes : d.to # None}}
    IN  [s \in (DOMAIN stations \ gone) \union set |->
            IF s \in set THEN (CHOOSE c \in changes : c.station = s /\ c.to # None).to
                         ELSE stations[s]]

\* client_visible_changes: stations covered only through VATSIM cannot be called
VisibleChange(c, fromOnline, toOnline) ==
    IF c.from # None /\ c.to # None
    THEN CASE c.from \in fromOnline /\ c.to \in toOnline       -> {c}
           [] c.from \in fromOnline /\ c.to \notin toOnline    -> {Offline(c.station)}
           [] c.from \notin fromOnline /\ c.to \in toOnline    -> {Online(c.station, c.to)}
           [] OTHER                                            -> {}
    ELSE IF c.to = None \/ c.to \in toOnline THEN {c} ELSE {}

ClientVisibleChanges(changes, fromOnline, toOnline) ==
    UNION {VisibleChange(c, fromOnline, toOnline) : c \in changes}

\* stations that change hands between vacs and VATSIM without changing their position
CallabilityChanges(stations, changed, before, after) ==
    {Offline(s) : s \in {t \in DOMAIN stations \ changed :
                            stations[t] \in before /\ stations[t] \notin after}}
    \union {Online(s, stations[s]) : s \in {t \in DOMAIN stations \ changed :
                            stations[t] \notin before /\ stations[t] \in after}}

\* the stations vacs clients can call: those whose position a vacs client works
Callable(stations, online) ==
    [s \in {t \in DOMAIN stations : stations[t] \in online} |-> stations[s]]

-----------------------------------------------------------------------------
(* Profiles, and the match of a controller to positions. *)

\* whether a client with this profile is told about a station
IsRelevant(net, profile, s) ==
    \/ profile = "custom"
    \/ profile \in DOMAIN net.profiles /\ s \in net.profiles[profile]

\* find_positions. A controller has a normalised callsign, the prefixes the
\* callsign starts with, a frequency and a facility type; a position's id is the
\* callsign that names it exactly.
FindPositions(net, info) ==
    LET tuned    == {p \in DOMAIN net.positions : /\ net.positions[p].frequency = info.frequency
                                                 /\ net.positions[p].facility = info.facility}
        prefixed == {p \in tuned : net.positions[p].prefixes \cap info.prefixes # {}}
    IN  IF info.callsign \in tuned THEN {info.callsign} ELSE prefixed

=============================================================================
