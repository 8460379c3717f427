----------------------------- MODULE MCRegistry -----------------------------
(***************************************************************************)
(* The registry of clients, positions and stations, for TLC: what it keeps  *)
(* (ClientRegistry), the order of its locks (ClientLocks) and the dataset   *)
(* it works on (NetworkLoad).  The three share no variable: a behaviour is  *)
(* one of the component that part names, the others stay as they start.    *)
(***************************************************************************)
EXTENDS ClientRegistry, TLC

CONSTANTS c1, c2, t1, t2, t3

VARIABLES
    part,
    program, holders, queue,                       \* ClientLocks
    dataset, unread, raws, next, built, outcome    \* NetworkLoad

lockVars == <<program, holders, queue>>
loadVars == <<dataset, unread, raws, next, built, outcome>>

-----------------------------------------------------------------------------
(* ClientRegistry: a tower and an approach, and a dataset in which the      *)
(* approach takes over what the tower covered first.                        *)

Twr == [callsign |-> "TWR", prefixes |-> {"LOWW"}, frequency |-> "119", facility |-> "twr"]
App == [callsign |-> "APP", prefixes |-> {"LOWW"}, frequency |-> "124", facility |-> "app"]

Position(f, k, stations, profile) ==
    [frequency |-> f, facility |-> k, prefixes |-> {"LOWW"},
     controlled_stations |-> stations, profile |-> profile]

Big == [stations  |-> [ground |-> <<"TWR", "APP">>, radar |-> <<"APP">>],
        positions |-> [TWR |-> Position("119", "twr", {"ground"}, "tower"),
                       APP |-> Position("124", "app", {"ground", "radar"}, "none")],
        profiles  |-> [tower |-> {"ground"}]]

TwoControllers == {Twr, App}
SamePositions  == {Big, [Big EXCEPT !.stations.ground = <<"APP", "TWR">>]}

-----------------------------------------------------------------------------
(* ClientLocks: the sync task, a session that comes and goes, and a reader; *)
(* and a sync task beside the reload of the dataset.                        *)

Locks == INSTANCE ClientLocks WITH
    Tasks <- {t1, t2, t3},
    Kinds <- t1 :> {"sync"} @@ t2 :> {"add", "remove", "remove_last"} @@ t3 :> {"list", "snapshot", "station"}

Reload == INSTANCE ClientLocks WITH
    Tasks <- {t1, t2}, Kinds <- t1 :> {"sync"} @@ t2 :> {"reload"}

-----------------------------------------------------------------------------
(* NetworkLoad: datasets of two FIRs with everything that can be wrong.     *)

Station(id, parent, positions) == [id |-> id, parent |-> parent, controlled_by |-> positions]
Pos(id, profile, sources, fault) == [id |-> id, profile |-> profile, sources |-> sources, fault |-> fault]
Profile(id, fault, nodes) == [id |-> id, parses |-> TRUE, fault |-> fault, nodes |-> nodes]
Node(kind, inside, station, fault) ==
    [kind |-> kind, inside |-> inside, station |-> station, fault |-> fault]
Dir(name, id, readable, stations, positions, profile, profiles) ==
    [dir |-> name, id |-> id, readable |-> readable, stations |-> stations,
     positions |-> positions, profile |-> profile, profiles |-> profiles]

Plain(id, s) == Profile(id, "-", {Node("tab", <<>>, None, "-"), Node("page", <<"tab">>, None, "-"),
                                  Node("key", <<"tab", "page">>, s, "-")})

\* two stations, in one FIR each, connected in all ways
Lists   == {<<>>, <<"P">>, <<"Q", "P">>, <<"P", "P">>, <<"X">>}
Parents == {None, "A", "B", "X"}
West(s) == Dir("west", "WEST", TRUE, <<s>>, <<Pos("P", "p", <<"A">>, "-")>>, <<Plain("p", "A")>>, {})
East(s) == Dir("east", "EAST", TRUE, <<s>>, <<Pos("Q", None, <<>>, "-")>>, <<>>, {Plain("q", "A")})

ConnectedStations ==
    {{West(Station("A", pa, la)), East(Station(b, pb, lb))} :
        pa \in Parents, la \in Lists, b \in {"A", "B"}, pb \in Parents, lb \in Lists}

\* one good FIR next to one with something else
Good == West(Station("A", None, <<"P">>))
Other(id, readable, stations, positions, profile, profiles) ==
    Dir("other", id, readable, stations, positions, profile, profiles)

B == <<Station("B", "A", <<"Q">>)>>
Q == <<Pos("Q", "q", <<"B">>, "-")>>

WithProfiles(profile, profiles) == Other("EAST", TRUE, B, Q, profile, profiles)

Trees ==
    {{Node(k, <<>>, None, f)} : k \in {"container", "button", "divider", "page", "key", "tab"},
                                f \in {"-", "no label", "long label", "rows", "size", "color", "gap"}}
    \union {{Node("button", <<"container">>, s, "-")} : s \in {"A", "X"}}
    \union {{Node("key", <<"container", "button", "page">>, s, "-")} : s \in {"B", "X"}}
    \union {{Node("key", <<"tab", "page">>, "A", "-"), Node("key", <<"tab", "page", "key", "page">>, "B", "-")}}

Broken == [Plain("q", "A") EXCEPT !.parses = FALSE]

SecondFirs ==
    {WithProfiles(<<Profile("q", f, t)>>, {}) : f \in {"-", "no tabs"}, t \in Trees}
    \union {WithProfiles(<<Broken>>, {}), WithProfiles(<<Broken>>, {Plain("q", "A")}),
            WithProfiles(<<>>, {Broken}), WithProfiles(<<Plain("p", "A")>>, {Plain("q", "B")}),
            WithProfiles(<<>>, {Plain("q", "A"), Plain("q", "B")})}
    \union {Other(id, r, B, Q, <<Plain("q", "B")>>, {}) : id \in {"", "WEST", "EAST"}, r \in BOOLEAN}
    \union {Other("EAST", TRUE, s, Q, <<Plain("q", "A")>>, {}) : s \in {<<>>, B \o B}}
    \union {Other("EAST", TRUE, B, p, <<Plain("q", "B")>>, {}) :
               p \in {<<>>, Q \o Q, <<Pos("P", None, <<>>, "-")>>, <<Pos("Q", "x", <<>>, "-")>>,
                      <<Pos("Q", None, <<"X">>, "-")>>, <<Pos("Q", None, <<"A", "A">>, "-")>>,
                      <<Pos("Q", None, <<>>, "frequency")>>}}

Load == INSTANCE NetworkLoad WITH Datasets <- ConnectedStations \union {{Good, o} : o \in SecondFirs}

-----------------------------------------------------------------------------

allVars == <<part, vars, lockVars, loadVars>>

PartInit(p) ==
    /\ part = p
    /\ Init /\ (p # "registry" => net = Big)
    /\ IF p = "reload" THEN Reload!Init ELSE Locks!Init
    /\ Load!Init /\ (p # "load" => dataset = {Good, WithProfiles(<<Broken>>, {})})

\* Loading ends; the registry and its locks go on for ever.
PartNext ==
    \/ part = "registry" /\ Next /\ UNCHANGED <<part, lockVars, loadVars>>
    \/ part = "locks" /\ Locks!Next /\ UNCHANGED <<part, vars, loadVars>>
    \/ part = "load" /\ Load!Next /\ UNCHANGED <<part, vars, lockVars>>
    \/ part = "load" /\ outcome # "loading" /\ UNCHANGED <<part, vars, lockVars, loadVars>>

PartSpec ==
    /\ \E p \in {"registry", "locks", "load"} : PartInit(p)
    /\ [][PartNext]_allVars
    /\ \A t \in {t1, t2, t3} :
          /\ WF_lockVars(part = "locks" /\ Locks!Skip(t))
          /\ WF_lockVars(part = "locks" /\ Locks!Acquire(t))
          /\ WF_lockVars(part = "locks" /\ Locks!Granted(t))
          /\ WF_lockVars(part = "locks" /\ Locks!Release(t))

ReloadNext == Reload!Next /\ UNCHANGED <<part, vars, loadVars>>

ReloadSpec == PartInit("reload") /\ [][ReloadNext]_allVars

-----------------------------------------------------------------------------
(* Properties of the components, in the part they belong to.                *)


\* Every operation on the registry comes to its end, although others keep starting: no group
\* of tasks waits only for one another, and no waiter is overtaken for ever (the locks of
\* ClientManager).
OperationsEnd ==
    /\ [](part = "locks" => Locks!TypeOK /\ Locks!NoCircularWait)
    /\ part = "locks" => Locks!OperationsEnd

\* A dataset reload and the sync task do not wait for one another.
NoCircularWaitOnReload == part = "reload" => Reload!NoCircularWait

\* load_from_dir accepts exactly the datasets without a contradiction, whatever order the
\* directories come in, and orders the positions of a station as its chain of parents does.
LoadedNetworksAreSound ==
    Load!TypeOK /\ Load!AcceptsExactlySoundDatasets /\ Load!CoverageFollowsParents

=============================================================================
