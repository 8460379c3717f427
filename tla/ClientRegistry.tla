--------------------------- MODULE ClientRegistry ---------------------------
(***************************************************************************)
(* The client registry of the server (vacs-server/src/state/clients/       *)
(* manager.rs): who is connected, which positions are worked by vacs        *)
(* clients or only on VATSIM, which position covers which station, and what *)
(* the clients have been told. An operation is split where the code gives  *)
(* up all of its locks or awaits the VATSIM data feed.                     *)
(***************************************************************************)
EXTENDS Coverage, FiniteSets, SequencesExt

CONSTANTS
    Cids,               \* VATSIM ids, of vacs clients and of other controllers
    Users,              \* the ids that log in to vacs
    Controllers,        \* the connections a data feed entry or a login may show
    Networks,           \* the datasets an administrator may load
    RequireActive,      \* config: require_active_connection
    LoginDuringRemoval, \* whether a login may start while a client is being removed
    MaxOps              \* operations in flight at a time

VARIABLES
    net,                \* network
    clients,            \* map of client ids to sessions
    online_positions,   \* map of positions to the vacs clients that work them
    vatsim_only,        \* map of positions to the controllers that work them without vacs
    online_stations,    \* map of stations to the position that covers them
    view,               \* what each client was told: map of stations to "own"
    missed,             \* consecutive syncs in which a client had no usable connection
    ops,                \* operations in flight: map of tasks to what is left of them
    reconciled          \* a sync ran since the last change, alone

maps == <<net, clients, online_positions, vatsim_only, online_stations>>
vars == <<maps, view, missed, ops, reconciled>>

\* ops of these names run as: a login, an unregistering session, the sync task, a reload
Tasks == {<<"login", c>> : c \in Users} \union {<<"logout", c>> : c \in Users}
             \union {<<"sync", None>>, <<"reload", None>>}

Feeds == [Cids -> Controllers \union {None}]

Put(f, k, v) == [x \in DOMAIN f \union {k} |-> IF x = k THEN v ELSE f[x]]
Drop(f, k)   == [x \in DOMAIN f \ {k} |-> f[x]]
Empty        == [x \in {} |-> None]

AllPositions == DOMAIN online_positions \union DOMAIN vatsim_only

-----------------------------------------------------------------------------
(* Sessions *)

Session(position, profile, info) ==
    [position |-> position, profile |-> profile, info |-> info, grace |-> TRUE, pending |-> FALSE]

\* update_client_info compares callsign and frequency only
InfoChanged(session, info) ==
    \/ session.info = None
    \/ session.info.callsign # info.callsign
    \/ session.info.frequency # info.frequency

\* update_active_profile
NextProfile(profile, new, network) ==
    CASE profile = "custom"             -> "custom"
      [] profile # "custom" /\ new = profile -> profile
      [] OTHER -> IF new \in DOMAIN network.profiles THEN new ELSE "none"

ProfileOf(network, p) ==
    IF p \in DOMAIN network.positions THEN network.positions[p].profile ELSE "none"

\* the frontend's station store, updated by station changes
Told(known, changes, own) ==
    LET new == Applied(known, changes)
    IN  [s \in DOMAIN new |-> IF \E c \in changes : c.station = s THEN new[s] = own ELSE new[s]]

\* list_stations
ListStations(profile, position) ==
    [s \in {t \in DOMAIN Callable(online_stations, DOMAIN online_positions) : IsRelevant(net, profile, t)} |->
        online_stations[s] = position]

\* broadcast_station_changes: every connected client, filtered by its profile
Broadcast(views, changes) ==
    [c \in DOMAIN views |->
        IF c \notin DOMAIN clients THEN views[c]
        ELSE Told(views[c], {d \in changes : IsRelevant(net, clients[c].profile, d.station)},
                  clients[c].position)]

-----------------------------------------------------------------------------
(* Operations in flight *)

Op(pc, c) == [pc |-> pc, cid |-> c, session |-> None, login |-> None, feed |-> None, ids |-> {},
              changes |-> {}, lists |-> Empty, handoffs |-> {}, old |-> Empty, kicks |-> {}]

At(t, pc)    == t \in DOMAIN ops /\ ops[t].pc = pc
Goto(t, op)  == ops' = Put(ops, t, op) /\ reconciled' = FALSE
Start(t, op) == t \notin DOMAIN ops /\ Cardinality(DOMAIN ops) < MaxOps /\ Goto(t, op)

\* after a sync or a removal: disconnect the next client, then go on with the login or stop
Continue(t) ==
    LET op == ops[t] IN
    IF op.kicks # {}
    THEN \E c \in op.kicks :
            Goto(t, [Op("remove", c) EXCEPT !.kicks = op.kicks \ {c}, !.login = op.login])
    ELSE IF op.login # None THEN Goto(t, [Op("insert", t[2]) EXCEPT !.login = op.login])
    ELSE ops' = Drop(ops, t) /\ UNCHANGED reconciled

-----------------------------------------------------------------------------
(* Login: process_login_request, register_client, add_client *)

\* the position a login may get: the only match, or the one the user selected
LoginSessions ==
    LET Profiles(p) == {"custom", ProfileOf(net, p)}
        At1(info) == LET ps == FindPositions(net, info) IN IF ps = {} THEN {None} ELSE ps
    IN  IF RequireActive
        THEN UNION {{Session(p, f, info) : f \in Profiles(p)} :
                        <<info, p>> \in {x \in Controllers \X (DOMAIN net.positions \union {None}) :
                            x[1].facility # "unknown" /\ x[2] \in At1(x[1])}}
        ELSE UNION {{Session(p, f, None) : f \in Profiles(p)} : p \in DOMAIN net.positions \union {None}}

Removing == \E t \in DOMAIN ops : ops[t].pc \in {"remove", "peek", "fetch", "leave", "close",
                                                 "clear_vatsim", "clear_stations"}

\* the first client triggers a sync that disconnects nobody for a missing connection
Login(c) ==
    /\ LoginDuringRemoval \/ ~Removing
    /\ \E session \in LoginSessions :
           Start(<<"login", c>>, [Op(IF DOMAIN clients = {} THEN "sync" ELSE "insert", c)
                                      EXCEPT !.login = session])
    /\ UNCHANGED <<maps, view, missed>>

\* add_client registers the session, unless the id is connected already
AddClient(t) ==
    /\ At(t, "insert")
    /\ LET op == ops[t] IN
       IF op.cid \in DOMAIN clients
       THEN ops' = Drop(ops, t) /\ UNCHANGED <<clients, missed, reconciled>>
       ELSE /\ clients' = Put(clients, op.cid, op.login)
            /\ missed' = [missed EXCEPT ![op.cid] = 0]
            /\ Goto(t, [op EXCEPT !.pc = IF op.login.position = None THEN "welcome" ELSE "claim"])
    /\ UNCHANGED <<net, online_positions, vatsim_only, online_stations, view>>

\* add_client under online_positions: the position comes online, or gains a client
ClaimPosition(t) ==
    /\ At(t, "claim")
    /\ LET op == ops[t]
           p  == op.login.position
           changes == CoverageChanges(net, {}, {p}, AllPositions)
           mine == {s \in DOMAIN online_stations : online_stations[s] = p}
       IN
       /\ IF p \in DOMAIN online_positions /\ online_positions[p] # {}
          THEN /\ online_positions' = [online_positions EXCEPT ![p] = @ \union {op.cid}]
               /\ Goto(t, [op EXCEPT !.pc = "welcome"])
               /\ UNCHANGED <<vatsim_only, online_stations>>
          ELSE /\ online_positions' = Put(online_positions, p, {op.cid})
               /\ vatsim_only' = Drop(vatsim_only, p)
               /\ IF p \in DOMAIN vatsim_only
                  THEN /\ UNCHANGED online_stations
                       /\ Goto(t, [op EXCEPT !.pc = "welcome", !.changes = {Online(s, p) : s \in mine}])
                  ELSE /\ online_stations' = Applied(online_stations, changes)
                       /\ Goto(t, [op EXCEPT !.pc = "welcome", !.changes =
                              ClientVisibleChanges(changes, DOMAIN online_positions', DOMAIN online_positions')])
    /\ UNCHANGED <<net, clients, view, missed>>

\* the announcement of add_client, and the lists the new session starts with
Welcome(t) ==
    /\ At(t, "welcome")
    /\ LET op == ops[t]
           list == ListStations(op.login.profile, op.login.position)
       IN  view' = Put(Broadcast(view, op.changes), op.cid, list)
    /\ ops' = Drop(ops, t)
    /\ UNCHANGED <<maps, missed, reconciled>>

-----------------------------------------------------------------------------
(* Removal: unregister_client, remove_client *)

\* a session ends, which runs once its login is complete; the sync task removes
\* clients through the same steps
Logout(c) ==
    /\ c \in DOMAIN clients
    /\ <<"login", c>> \notin DOMAIN ops
    /\ Start(<<"logout", c>>, Op("remove", c))
    /\ UNCHANGED <<maps, view, missed>>

RemoveClient(t) ==
    /\ At(t, "remove")
    /\ LET op == ops[t] IN
       IF op.cid \notin DOMAIN clients
       THEN Continue(t) /\ UNCHANGED clients
       ELSE /\ clients' = Drop(clients, op.cid)
            /\ Goto(t, [op EXCEPT !.session = clients[op.cid],
                                  !.pc = IF clients[op.cid].position = None THEN "close" ELSE "peek"])
    /\ UNCHANGED <<net, online_positions, vatsim_only, online_stations, view, missed>>

\* the data feed is fetched only when the position seems about to go offline
PeekPosition(t) ==
    /\ At(t, "peek")
    /\ LET p == ops[t].session.position
           last == p \in DOMAIN online_positions /\ Cardinality(online_positions[p]) = 1
       IN  Goto(t, [ops[t] EXCEPT !.pc = IF last THEN "fetch" ELSE "leave"])
    /\ UNCHANGED <<maps, view, missed>>

\* the entries that a client snapshot leaves of a feed
Others(feed, ids) == [c \in Cids |-> IF c \in ids THEN None ELSE feed[c]]

\* fetch_controller_info, which may fail, and the snapshot of the connected ids
FetchFeed(t) ==
    /\ At(t, "fetch")
    /\ \E feed \in Feeds \union {None} :
           Goto(t, [ops[t] EXCEPT !.pc = "leave", !.ids = DOMAIN clients,
                    !.feed = IF feed = None THEN None ELSE Others(feed, DOMAIN clients)])
    /\ UNCHANGED <<maps, view, missed>>

\* rebuild_vatsim_only
VatsimOnly(feed, ids, positions) ==
    LET works(c, p) == /\ c \notin ids
                       /\ feed[c] # None
                       /\ feed[c].facility # "unknown"
                       /\ FindPositions(net, feed[c]) = {p}
        found == {p \in DOMAIN net.positions \ positions : \E c \in Cids : works(c, p)}
    IN  [p \in found |-> {c \in Cids : works(c, p)}]

\* remove_client under online_positions: the position goes offline, stays on VATSIM
\* only, or loses one of its clients
LeavePosition(t) ==
    /\ At(t, "leave")
    /\ LET op == ops[t]
           p  == op.session.position
           left == [Op("close", op.cid) EXCEPT !.kicks = op.kicks, !.login = op.login]
           others  == DOMAIN online_positions \ {p}
           covered == IF op.feed = None THEN Empty ELSE VatsimOnly(op.feed, op.ids, others)
           changes == CoverageDiff(net, AllPositions, AllPositions \ {p})
           mine    == {s \in DOMAIN online_stations : online_stations[s] = p}
       IN
       /\ CASE p \notin DOMAIN online_positions ->
                 Goto(t, left) /\ UNCHANGED <<online_positions, vatsim_only, online_stations>>
            [] p \in DOMAIN online_positions /\ Cardinality(online_positions[p]) # 1 ->
                 /\ online_positions' = [online_positions EXCEPT ![p] = @ \ {op.cid}]
                 /\ Goto(t, left)
                 /\ UNCHANGED <<vatsim_only, online_stations>>
            [] p \in DOMAIN online_positions /\ Cardinality(online_positions[p]) = 1 ->
                 /\ online_positions' = Drop(online_positions, p)
                 /\ IF p \in DOMAIN covered
                    THEN /\ vatsim_only' = Put(vatsim_only, p, covered[p])
                         /\ Goto(t, [left EXCEPT !.changes = {Offline(s) : s \in mine}])
                         /\ UNCHANGED online_stations
                    ELSE /\ online_stations' = Applied(online_stations, changes)
                         /\ Goto(t, [left EXCEPT !.changes =
                                ClientVisibleChanges(changes, DOMAIN online_positions, DOMAIN online_positions)])
                         /\ UNCHANGED vatsim_only
    /\ UNCHANGED <<net, clients, view, missed>>

\* the session is told to close; the last one clears what only VATSIM keeps online
CloseSession(t) ==
    /\ At(t, "close")
    /\ LET op == ops[t]
           rest == [c \in DOMAIN view \ {op.cid} |-> view[c]]
       IN  IF DOMAIN clients = {}
           THEN /\ view' = rest
                /\ Goto(t, [op EXCEPT !.pc = "clear_vatsim"])
           ELSE view' = Broadcast(rest, op.changes) /\ Continue(t)
    /\ UNCHANGED <<maps, missed>>

ClearVatsimOnly(t) ==
    /\ At(t, "clear_vatsim")
    /\ vatsim_only' = Empty
    /\ Goto(t, [ops[t] EXCEPT !.pc = "clear_stations"])
    /\ UNCHANGED <<net, clients, online_positions, online_stations, view, missed>>

ClearStations(t) ==
    /\ At(t, "clear_stations")
    /\ online_stations' = Empty
    /\ Continue(t)
    /\ UNCHANGED <<net, clients, online_positions, vatsim_only, view, missed>>

-----------------------------------------------------------------------------
(* VATSIM sync: update_vatsim_controllers, sync_vatsim_state *)

Usable(feed, c) == feed[c] # None /\ feed[c].facility # "unknown"


\* a client without a usable connection is marked first and disconnected the next time
DisconnectOrMark(acc, c) ==
    CASE acc.clients[c].grace   -> acc
      [] ~acc.clients[c].grace /\ acc.clients[c].pending ->
             [acc EXCEPT !.clients[c].pending = FALSE, !.kicks = @ \union {c}]
      [] OTHER -> [acc EXCEPT !.clients[c].pending = TRUE]

\* a client leaves its position for another one, or for none
MoveClient(acc, c, new) ==
    LET old     == acc.clients[c].position
        leaves  == old \in DOMAIN acc.positions
        alone   == leaves /\ Cardinality(acc.positions[old]) <= 1
        without == CASE alone   -> Drop(acc.positions, old)
                     [] leaves /\ ~alone -> [acc.positions EXCEPT ![old] = @ \ {c}]
                     [] OTHER   -> acc.positions
        crew    == {c} \union (IF new \in DOMAIN without THEN without[new] ELSE {})
    IN  [acc EXCEPT !.clients[c].position = new,
                    !.clients[c].profile = NextProfile(@, ProfileOf(net, new), net),
                    !.positions = IF new = None THEN without ELSE Put(without, new, crew),
                    !.changed = @ \/ alone \/ (new # None /\ crew = {c}),
                    !.moved = @ \union {c},
                    !.handoffs = @ \union (IF leaves /\ ~alone THEN {<<c, old>>} ELSE {})
                                   \union (IF new # None /\ crew # {c} THEN {<<c, new>>} ELSE {})]

\* sync_client_positions for one client
SyncClient(feed, require, acc, c) ==
    LET session == acc.clients[c]
        found   == [acc EXCEPT !.clients[c].pending = FALSE]
        known   == [found EXCEPT !.clients[c].info = feed[c]]
        ps      == FindPositions(net, feed[c])
        new     == IF ps = {} THEN None ELSE CHOOSE p \in ps : TRUE
    IN  IF ~Usable(feed, c) THEN IF require THEN DisconnectOrMark(acc, c) ELSE acc
        ELSE IF session.grace \/ ~InfoChanged(session, feed[c]) THEN found
        ELSE IF Cardinality(ps) > 1 THEN [known EXCEPT !.kicks = @ \union {c}]
        ELSE IF new = session.position THEN known
        ELSE MoveClient(known, c, new)

\* compute_self_handoffs: stations of a shared position, for a client that joined or left it
SelfHandoffs(p, changed, online) ==
    {Handoff(s, p, p) : s \in {t \in DOMAIN net.stations \ changed :
        /\ p \in DOMAIN net.positions
        /\ t \in net.positions[p].controlled_stations
        /\ ControllingPosition(net, t, online) = p}}

\* sync_vatsim_state while it holds its three locks; clients come in any order
SyncState(t) ==
    /\ At(t, "sync")
    /\ \E feed \in Feeds, order \in {q \in [1 .. Cardinality(DOMAIN clients) -> DOMAIN clients] :
                                        \A i, j \in DOMAIN q : q[i] = q[j] => i = j} :
       LET require == RequireActive /\ t[1] = "sync"
           start == [clients |-> clients, positions |-> online_positions, kicks |-> {},
                     changed |-> FALSE, moved |-> {}, handoffs |-> {}]
           end   == FoldLeft(LAMBDA acc, c : SyncClient(feed, require, acc, c), start, order)
           only  == VatsimOnly(feed, DOMAIN clients, DOMAIN end.positions)
           changed == end.changed \/ only # vatsim_only
           all   == DOMAIN end.positions \union DOMAIN only
           diff  == IF changed THEN CoverageDiff(net, AllPositions, all) ELSE {}
           new   == Applied(online_stations, diff)
           before == DOMAIN online_positions
           after  == DOMAIN end.positions
           visible == IF changed
                      THEN ClientVisibleChanges(diff, before, after) \union
                           CallabilityChanges(new, {d.station : d \in diff}, before, after)
                      ELSE {}
       IN  /\ clients' = end.clients
           /\ online_positions' = end.positions
           /\ vatsim_only' = only
           /\ online_stations' = new
           /\ missed' = [c \in Users |-> IF c \notin DOMAIN clients THEN missed[c]
                                         ELSE IF Usable(feed, c) THEN 0
                                         ELSE IF missed[c] = 2 THEN 2 ELSE missed[c] + 1]
           /\ ops' = Put(ops, t, [ops[t] EXCEPT !.pc = "told", !.kicks = end.kicks, !.changes = visible,
                         !.lists = [c \in end.moved |->
                                       <<end.clients[c].profile, end.clients[c].position>>],
                         !.handoffs = {<<h[1], SelfHandoffs(h[2], {d.station : d \in visible}, all)>> :
                                          h \in end.handoffs}])
           /\ reconciled' = (DOMAIN ops = {t})
           /\ UNCHANGED <<net, view>>

\* the data feed could not be fetched: the login or the sync task goes on
SyncFails(t) ==
    /\ At(t, "sync")
    /\ Continue(t)
    /\ UNCHANGED <<maps, view, missed>>

\* the messages of a sync or a reload: session infos and station lists, handoffs, changes
Tell(t) ==
    /\ At(t, "told")
    /\ LET op == ops[t]
           listed == [c \in DOMAIN view |->
                         IF c \in DOMAIN op.lists \cap DOMAIN clients
                         THEN ListStations(op.lists[c][1], op.lists[c][2]) ELSE view[c]]
           handed == [c \in DOMAIN view |->
                         IF c \in DOMAIN clients
                         THEN Told(listed[c], UNION {h[2] : h \in {x \in op.handoffs : x[1] = c}},
                                   clients[c].position)
                         ELSE listed[c]]
       IN  view' = Broadcast(handed, op.changes)
    /\ Continue(t)
    /\ UNCHANGED <<maps, missed>>

SyncTick ==
    /\ DOMAIN clients # {}
    /\ Start(<<"sync", None>>, Op("sync", None))
    /\ UNCHANGED <<maps, view, missed>>

\* the grace period (90 s by default) outlasts the login it starts with
GracePeriodEnds(c) ==
    /\ c \in DOMAIN clients
    /\ <<"login", c>> \notin DOMAIN ops
    /\ clients[c].grace
    /\ clients' = [clients EXCEPT ![c].grace = FALSE]
    /\ UNCHANGED <<net, online_positions, vatsim_only, online_stations, view, missed, ops, reconciled>>

-----------------------------------------------------------------------------
(* Dataset reload: replace_network *)

SwapNetwork ==
    /\ \E new \in Networks \ {net} : net' = new
    /\ Start(<<"reload", None>>, Op("copy", None))
    /\ UNCHANGED <<clients, online_positions, vatsim_only, online_stations, view, missed>>

CopyStations(t) ==
    /\ At(t, "copy")
    /\ Goto(t, [ops[t] EXCEPT !.pc = "replace", !.old = online_stations])
    /\ UNCHANGED <<maps, view, missed>>

\* positions that no longer exist are dropped, profiles follow their positions and
\* the station map is recomputed from scratch
ReplaceNetwork(t) ==
    /\ At(t, "replace")
    /\ LET kept(f)  == [p \in DOMAIN f \cap DOMAIN net.positions |-> f[p]]
           stale(c) == \E p \in DOMAIN online_positions \ DOMAIN net.positions : c \in online_positions[p]
           crew(c)  == \E p \in DOMAIN online_positions \cap DOMAIN net.positions : c \in online_positions[p]
           diff     == StationDiff(ops[t].old, CoverageOf(net, (AllPositions \cap DOMAIN net.positions)))
       IN  /\ online_positions' = kept(online_positions)
           /\ vatsim_only' = kept(vatsim_only)
           /\ clients' = [c \in DOMAIN clients |->
                  LET s == clients[c] IN
                  IF stale(c) THEN [s EXCEPT !.position = None, !.profile = NextProfile(@, "none", net)]
                  ELSE IF crew(c) THEN [s EXCEPT !.profile = NextProfile(@, ProfileOf(net, s.position), net)]
                  ELSE s]
           /\ online_stations' = Applied(online_stations, diff)
           /\ Goto(t, [ops[t] EXCEPT !.pc = "told", !.old = Empty, !.changes =
                  ClientVisibleChanges(diff, DOMAIN online_positions', DOMAIN online_positions')])
    /\ UNCHANGED <<net, view, missed>>

-----------------------------------------------------------------------------

Init ==
    /\ net \in Networks
    /\ clients = Empty
    /\ online_positions = Empty
    /\ vatsim_only = Empty
    /\ online_stations = Empty
    /\ view = Empty
    /\ missed = [c \in Users |-> 0]
    /\ ops = Empty
    /\ reconciled = FALSE

Next ==
    \/ \E c \in Users : Login(c)
    \/ \E c \in Users : Logout(c)
    \/ \E c \in Users : GracePeriodEnds(c)
    \/ SyncTick
    \/ SwapNetwork
    \/ \E t \in Tasks : AddClient(t)
    \/ \E t \in Tasks : ClaimPosition(t)
    \/ \E t \in Tasks : Welcome(t)
    \/ \E t \in Tasks : RemoveClient(t)
    \/ \E t \in Tasks : PeekPosition(t)
    \/ \E t \in Tasks : FetchFeed(t)
    \/ \E t \in Tasks : LeavePosition(t)
    \/ \E t \in Tasks : CloseSession(t)
    \/ \E t \in Tasks : ClearVatsimOnly(t)
    \/ \E t \in Tasks : ClearStations(t)
    \/ \E t \in Tasks : SyncState(t)
    \/ \E t \in Tasks : SyncFails(t)
    \/ \E t \in Tasks : Tell(t)
    \/ \E t \in Tasks : CopyStations(t)
    \/ \E t \in Tasks : ReplaceNetwork(t)

Spec == Init /\ [][Next]_vars

-----------------------------------------------------------------------------
(* Properties *)

AtRest == DOMAIN ops = {}

\* The maps have their types: a listed position has at least one client or
\* controller, and no position is both worked by vacs and VATSIM-only
\* (clients/manager.rs: ClientManager).
TypeOK ==
    /\ net \in Networks
    /\ DOMAIN clients \subseteq Users
    /\ \A c \in DOMAIN clients : /\ clients[c].grace \in BOOLEAN
                                 /\ clients[c].pending \in BOOLEAN
    /\ \A p \in DOMAIN online_positions : online_positions[p] \in SUBSET Users \ {{}}
    /\ \A p \in DOMAIN vatsim_only : vatsim_only[p] \in SUBSET Cids \ {{}}
    /\ DOMAIN online_positions \cap DOMAIN vatsim_only = {}
    /\ DOMAIN ops \subseteq Tasks

\* Between operations the incrementally maintained station map is what the
\* coverage rules give for the positions online now (update_online_stations is
\* only ever fed with differences).
StationsAreCovered ==
    AtRest /\ DOMAIN clients # {} => online_stations = CoverageOf(net, AllPositions)

\* Between operations online_positions lists exactly the connected clients, each
\* under the position of its session.
Manned == [p \in {clients[c].position : c \in DOMAIN clients} \ {None} |->
              {c \in DOMAIN clients : clients[c].position = p}]
PositionsMatchClients == AtRest => online_positions = Manned

\* Between operations every client knows, for the stations of its profile, exactly
\* which can be called and which of them are its own, although it only ever got a
\* list and a stream of filtered changes (broadcast_station_changes).
ViewsAreRight ==
    AtRest => \A c \in DOMAIN clients :
        LET shown == {s \in DOMAIN view[c] : IsRelevant(net, clients[c].profile, s)}
        IN  [s \in shown |-> view[c][s]] = ListStations(clients[c].profile, clients[c].position)

\* A handoff "to a VATSIM-only position becomes `Offline` (station leaves vacs
\* coverage)" (client_visible_changes): between operations no client shows a station
\* that cannot be called.
ShownStationsAreCallable ==
    AtRest => \A c \in DOMAIN clients :
        \A s \in DOMAIN view[c] : IsRelevant(net, clients[c].profile, s) =>
            s \in DOMAIN Callable(online_stations, DOMAIN online_positions)


\* A removal may race with other operations, "but the worst case is a slightly stale
\* view that the next periodic sync will reconcile" (remove_client): once a sync has
\* run alone, past every grace period, positions and stations are exact.
SyncReconciles ==
    reconciled /\ AtRest /\ DOMAIN clients # {} /\ (\A c \in DOMAIN clients : ~clients[c].grace) =>
        online_positions = Manned /\ online_stations = CoverageOf(net, AllPositions)

=============================================================================
