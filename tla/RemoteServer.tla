---------------------------- MODULE RemoteServer ----------------------------
(***************************************************************************)
(* The embedded remote control server of the desktop client                *)
(* (vacs-client/src/remote/server.rs, remote/commands.rs): the handle that *)
(* starts, stops and restarts it, the task each start spawns, the          *)
(* connections of the browsers with the counter they share, and the        *)
(* remote:status events the windows are told about.  remote_set_config     *)
(* releases the application state before it takes the handle, so two calls *)
(* may overtake each other.  What is said over a connection is the subject *)
(* of RemoteLink.                                                          *)
(***************************************************************************)
EXTENDS Naturals, Sequences, FiniteSets

CONSTANTS
    Addrs,      \* listen addresses; they share a port, so that no two can be bound at once
    Pages,      \* browser pages that show the remote frontend
    Calls,      \* remote_set_config calls that may be under way at once
    MaxSets,    \* bound: remote_set_config calls
    MaxFails,   \* bound: binds and writes that fail for a reason outside the program
    MaxDrops,   \* bound: connections lost to the network
    CountMod,   \* what the counter wraps at, in place of 2^64
    Grain       \* "settled": a call comes when the last one has taken effect; "any"

VARIABLES
    config,     \* config.client.remote
    disk,       \* the remote section of the settings file
    calls,      \* remote_set_config calls
    handle,     \* RemoteServer: the current token and counter, both named by their server
    servers,    \* what each start left behind, in the order of the starts
    forwarders, \* the servers whose event forwarders are registered
    pages,      \* connections
    shown,      \* the last remote:status event
    left        \* what remains of the bounds

vars == <<config, disk, calls, handle, servers, forwarders, pages, shown, left>>

Configs == [enabled : BOOLEAN, addr : Addrs]
NoCall == [pc |-> "idle"]
NoPage == [pc |-> "none", srv |-> 0, fwd |-> FALSE]
MaxStarts == MaxSets + 1

TypeOK ==
    /\ config \in Configs /\ disk \in Configs
    /\ \A t \in Calls : calls[t] = NoCall \/
         calls[t] \in [pc : {"decided", "applied"}, cfg : Configs, changed : BOOLEAN]
    /\ handle \in [token : 0 .. Len(servers), counter : 0 .. Len(servers)]
    /\ handle.token # 0 => handle.token = handle.counter
    /\ Len(servers) <= MaxStarts
    /\ \A g \in DOMAIN servers : servers[g] \in
         [pc : {"spawned", "binding", "serving", "ended"}, cancelled : BOOLEAN, count : 0 .. CountMod - 1]
    /\ forwarders \subseteq DOMAIN servers
    /\ pages \in [Pages -> [pc : {"none", "accepted", "open"}, srv : 0 .. Len(servers), fwd : BOOLEAN]]
    /\ shown \in [listening : BOOLEAN, clients : 0 .. CountMod - 1]

(* ---------------------------- the handle ------------------------------- *)
\* s holds the handle, the servers and the last status.
IsListening(s) == s.handle.token # 0 /\ ~s.servers[s.handle.token].cancelled

StatusOf(s) ==
    [listening |-> IsListening(s),
     clients |-> IF s.handle.counter = 0 THEN 0 ELSE s.servers[s.handle.counter].count]

EmitStatus(s) == [s EXCEPT !.shown = StatusOf(s)]

Fresh == [pc |-> "spawned", cancelled |-> FALSE, count |-> 0]


Start(s) ==
    IF IsListening(s) THEN s
    ELSE EmitStatus([s EXCEPT !.servers = Append(@, Fresh),
           !.handle = [token |-> Len(s.servers) + 1, counter |-> Len(s.servers) + 1]])

Stop(s) ==
    LET g == s.handle.token IN
    IF g = 0 THEN s
    ELSE EmitStatus([s EXCEPT !.handle.token = 0, !.servers[g].cancelled = TRUE, !.servers[g].count = 0])

Restart(s) == Start(Stop(s))

Now == [handle |-> handle, servers |-> servers, shown |-> shown]
Become(s) == handle' = s.handle /\ servers' = s.servers /\ shown' = s.shown

Init ==
    /\ config \in Configs /\ disk = config
    /\ calls = [t \in Calls |-> NoCall]
    /\ LET new == [handle |-> [token |-> 0, counter |-> 0], servers |-> << >>,
                   shown |-> [listening |-> FALSE, clients |-> 0]]
           s == IF config.enabled THEN Start(new) ELSE new
       IN handle = s.handle /\ servers = s.servers /\ shown = s.shown
    /\ forwarders = {}
    /\ pages = [p \in Pages |-> NoPage]
    /\ left = [sets |-> MaxSets, fails |-> MaxFails, drops |-> MaxDrops]

Settled ==
    /\ \A t \in Calls : calls[t] = NoCall
    /\ \A g \in DOMAIN servers : servers[g].pc = "ended" \/ (servers[g].pc = "serving" /\ ~servers[g].cancelled)
    /\ \A p \in Pages : pages[p].pc # "accepted"

(* ------------------------- remote_set_config --------------------------- *)
SetConfig(t, cfg) ==
    /\ left.sets > 0 /\ calls[t] = NoCall
    /\ Grain = "any" \/ Settled
    /\ calls' = [calls EXCEPT ![t] = [pc |-> "decided", cfg |-> cfg, changed |-> config # cfg]]
    /\ config' = cfg
    /\ left' = [left EXCEPT !.sets = @ - 1]
    /\ UNCHANGED <<disk, handle, servers, forwarders, pages, shown>>

Apply(t) ==
    /\ calls[t].pc = "decided"
    /\ calls' = [calls EXCEPT ![t].pc = "applied"]
    /\ Become(IF ~calls[t].cfg.enabled THEN Stop(Now)
              ELSE IF calls[t].changed THEN Restart(Now) ELSE Now)
    /\ UNCHANGED <<config, disk, forwarders, pages, left>>

Persist(t) ==
    /\ calls[t].pc = "applied"
    /\ \/ disk' = calls[t].cfg /\ UNCHANGED left
       \/ left.fails > 0 /\ left' = [left EXCEPT !.fails = @ - 1] /\ UNCHANGED disk
    /\ calls' = [calls EXCEPT ![t] = NoCall]
    /\ UNCHANGED <<config, handle, servers, forwarders, pages, shown>>

(* ------------------- the task of a start (start_server) ---------------- *)
Spawned(g) ==
    /\ servers[g].pc = "spawned"
    /\ servers' = [servers EXCEPT ![g].pc = "binding"]
    /\ forwarders' = forwarders \cup {g}
    /\ UNCHANGED <<config, disk, calls, handle, pages, shown, left>>

PortTaken == \E h \in DOMAIN servers : servers[h].pc = "serving"

Bind(g) ==
    /\ servers[g].pc = "binding" /\ ~PortTaken
    /\ servers' = [servers EXCEPT ![g].pc = "serving"]
    /\ UNCHANGED <<config, disk, calls, handle, forwarders, pages, shown, left>>

\* The port is in use, by a server of ours that has not let go of it or by
\* another program.
BindFails(g) ==
    /\ servers[g].pc = "binding"
    /\ \/ PortTaken /\ Grain = "any" /\ UNCHANGED left
       \/ left.fails > 0 /\ left' = [left EXCEPT !.fails = @ - 1]
    /\ servers' = [servers EXCEPT ![g].pc = "ended", ![g].cancelled = TRUE]
    /\ forwarders' = forwarders \ {g}
    /\ shown' = [listening |-> FALSE, clients |-> 0]
    /\ UNCHANGED <<config, disk, calls, handle, pages>>

\* The graceful shutdown does not wait for connections that were upgraded.
Shutdown(g) ==
    /\ servers[g].pc = "serving" /\ servers[g].cancelled
    /\ servers' = [servers EXCEPT ![g].pc = "ended"]
    /\ forwarders' = forwarders \ {g}
    /\ UNCHANGED <<config, disk, calls, handle, pages, shown, left>>

(* ----------------------------- connections ----------------------------- *)
Accept(p, g) ==
    /\ pages[p].pc = "none" /\ servers[g].pc = "serving" /\ ~servers[g].cancelled
    /\ Grain = "any" \/ \A t \in Calls : calls[t] = NoCall
    /\ pages' = [pages EXCEPT ![p] = [pc |-> "accepted", srv |-> g, fwd |-> FALSE]]
    /\ UNCHANGED <<config, disk, calls, handle, servers, forwarders, shown, left>>

\* RemoteServerState::emit_status
TellClients(g, n) == shown' = [listening |-> TRUE, clients |-> n]

Upgrade(p) ==
    /\ pages[p].pc = "accepted"
    /\ LET g == pages[p].srv
           n == (servers[g].count + 1) % CountMod
       IN /\ servers' = [servers EXCEPT ![g].count = n]
          /\ TellClients(g, n)
    /\ pages' = [pages EXCEPT ![p].pc = "open", ![p].fwd = TRUE]
    /\ UNCHANGED <<config, disk, calls, handle, forwarders, left>>

\* The forwarding task owns the sending half of the socket; the loop that
\* reads stays.
ForwardStops(p) ==
    /\ pages[p].fwd /\ servers[pages[p].srv].cancelled
    /\ pages' = [pages EXCEPT ![p].fwd = FALSE]
    /\ UNCHANGED <<config, disk, calls, handle, servers, forwarders, shown, left>>

Disconnected(p) ==
    LET g == pages[p].srv
        n == (servers[g].count + CountMod - 1) % CountMod
    IN /\ servers' = [servers EXCEPT ![g].count = n]
       /\ IF servers[g].cancelled THEN UNCHANGED shown ELSE TellClients(g, n)
       /\ pages' = [pages EXCEPT ![p] = NoPage]

\* The page hears no pong any more and closes the socket.
PongTimeout(p) ==
    /\ pages[p].pc = "open" /\ ~pages[p].fwd
    /\ Disconnected(p)
    /\ UNCHANGED <<config, disk, calls, handle, forwarders, left>>

Drop(p) ==
    /\ left.drops > 0 /\ pages[p].pc = "open"
    /\ left' = [left EXCEPT !.drops = @ - 1]
    /\ Disconnected(p)
    /\ UNCHANGED <<config, disk, calls, handle, forwarders>>

Next ==
    \/ \E t \in Calls : (\E cfg \in Configs : SetConfig(t, cfg)) \/ Apply(t) \/ Persist(t)
    \/ \E g \in DOMAIN servers : Spawned(g) \/ Bind(g) \/ BindFails(g) \/ Shutdown(g)
    \/ \E p \in Pages :
         \/ \E g \in DOMAIN servers : Accept(p, g)
         \/ Upgrade(p) \/ ForwardStops(p) \/ PongTimeout(p) \/ Drop(p)

Spec == Init /\ [][Next]_vars

\* Calls and tasks go on, and a page reconnects every two seconds.
Fairness ==
    /\ \A t \in Calls : WF_vars(Apply(t)) /\ WF_vars(Persist(t))
    /\ \A g \in 1 .. MaxStarts :
         /\ WF_vars(g \in DOMAIN servers /\ Spawned(g))
         /\ WF_vars(g \in DOMAIN servers /\ (Bind(g) \/ BindFails(g)))
         /\ WF_vars(g \in DOMAIN servers /\ Shutdown(g))
    /\ \A p \in Pages :
         /\ WF_vars(\E g \in DOMAIN servers : Accept(p, g))
         /\ WF_vars(Upgrade(p)) /\ WF_vars(ForwardStops(p)) /\ WF_vars(PongTimeout(p))

FairSpec == Spec /\ Fairness

(* ----------------------------- properties ------------------------------ *)
\* While a server listens, its counter is the number of its connections:
\* those a stopped server left open count for nobody
\* (RemoteServer::start makes a new counter).
CountsItsClients ==
    IsListening(Now) =>
      StatusOf(Now).clients = Cardinality({p \in Pages : pages[p].pc = "open" /\ pages[p].srv = handle.token})

\* Forwarders do not outlive their server, however starts, stops and failed
\* binds follow each other ("would pile up another full set of listeners on
\* every server restart").
ForwardersDoNotPileUp ==
    Settled => forwarders = IF IsListening(Now) THEN {handle.token} ELSE {}

\* The windows know whether the server listens ("The handle is responsible
\* for emitting the correct status on shutdown").
ShownIsCurrent == Settled => shown.listening = IsListening(Now)

\* An enabled server listens unless another program has its port.
EnabledListens == Settled /\ config.enabled /\ left.fails = MaxFails => IsListening(Now)

\* A disabled server does not listen, and the settings file says what the
\* settings say.
SettingsDecide ==
    Settled => (IsListening(Now) => config.enabled) /\ (left.fails = MaxFails => disk = config)

\* remote_get_config never reports more clients than there are pages.
ClientsExist == StatusOf(Now).clients <= Cardinality(Pages)

\* Once a server listens for good, every page ends up connected to it: no
\* page stays with a server that was stopped.
PagesFollow ==
    <>[](IsListening(Now) /\ servers[handle.token].pc = "serving") =>
      <>[](\A p \in DOMAIN pages : pages[p].pc = "open" /\ pages[p].srv = handle.token)
=============================================================================
