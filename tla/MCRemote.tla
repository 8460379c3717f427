------------------------------ MODULE MCRemote ------------------------------
(***************************************************************************)
(* Remote control of the client, for TLC: the embedded server                *)
(* (RemoteServer), a page's connection to it (RemoteLink), and the stores     *)
(* that desktop and pages keep alike (StoreSync).  They share no variable: a  *)
(* behaviour is one of the component that part names, the others stay as     *)
(* they start.                                                               *)
(***************************************************************************)
EXTENDS Naturals, Sequences

CONSTANTS desk, p1, p2

VARIABLES
    part,
    config, disk, calls, handle, servers, forwarders, pages, shown, srvLeft,    \* RemoteServer
    ws, links, down, asks,                                                      \* RemoteLink
    store, backend, up, events, resp, link, syncLeft                            \* StoreSync

srvVars  == <<config, disk, calls, handle, servers, forwarders, pages, shown, srvLeft>>
linkVars == <<ws, links, down, asks>>
syncVars == <<store, backend, up, events, resp, link, syncLeft>>

-----------------------------------------------------------------------------
(* RemoteServer: settings that take effect one after the other; calls that   *)
(* overtake each other; and, with fairness, pages that follow a restart.     *)

Settling == INSTANCE RemoteServer WITH
    Addrs <- {"any", "local"}, Pages <- {"p1", "p2"}, Calls <- {"t1"}, MaxSets <- 2, MaxFails <- 1, MaxDrops <- 1,
    CountMod <- 16, Grain <- "settled", left <- srvLeft

Hasty == INSTANCE RemoteServer WITH
    Addrs <- {"any"}, Pages <- {"p1"}, Calls <- {"t1", "t2"}, MaxSets <- 3, MaxFails <- 1, MaxDrops <- 1,
    CountMod <- 16, Grain <- "any", left <- srvLeft

Following == INSTANCE RemoteServer WITH
    Addrs <- {"any"}, Pages <- {"p1", "p2"}, Calls <- {"t1"}, MaxSets <- 3, MaxFails <- 1, MaxDrops <- 1,
    CountMod <- 16, Grain <- "settled", left <- srvLeft

-----------------------------------------------------------------------------
(* RemoteLink.  A tick stands for 2.5 s: pings are sent and awaited for 2    *)
(* ticks (5 s), commands are given 4 (10 s), a page reconnects after 1 (2 s).*)

SomeCmds == {"audio_get_volumes", "app_quit", "remote_set_config"}

\* Commands that are quick, on one connection.
Quick == INSTANCE RemoteLink WITH
    Cmds <- SomeCmds, Works <- {0, 1}, PingInterval <- 2, PongTimeout <- 2, ReconnectDelay <- 1, DispatchTimeout <- 4,
    MaxAsks <- 4, MaxOpen <- 1, MaxLinks <- 1, MaxFails <- 1

\* Every command there is.
Commands == INSTANCE RemoteLink WITH
    Cmds <- Quick!RemoteCommand \union Quick!FrontendOnly, Works <- {0}, PingInterval <- 2, PongTimeout <- 2,
    ReconnectDelay <- 1, DispatchTimeout <- 4, MaxAsks <- 2, MaxOpen <- 2, MaxLinks <- 1, MaxFails <- 0

\* Commands that outlast pings and their own timeout, with fairness.
Slow == INSTANCE RemoteLink WITH
    Cmds <- SomeCmds, Works <- {0, 3, 6}, PingInterval <- 2, PongTimeout <- 2, ReconnectDelay <- 1,
    DispatchTimeout <- 4, MaxAsks <- 2, MaxOpen <- 2, MaxLinks <- 4, MaxFails <- 1

-----------------------------------------------------------------------------
(* StoreSync: one input at a time, with two pages; any input at any time,    *)
(* with fairness.                                                            *)

Mirrored == INSTANCE StoreSync WITH
    Desk <- desk, Pages <- {p1, p2}, MaxEdits <- 1, MaxPrio <- 1, MaxCalls <- 1, MaxSession <- 1, MaxDrops <- 1,
    Grain <- "one", left <- syncLeft

Bootstrap == INSTANCE StoreSync WITH
    Desk <- desk, Pages <- {p1}, MaxEdits <- 1, MaxPrio <- 0, MaxCalls <- 0, MaxSession <- 1, MaxDrops <- 1,
    Grain <- "any", left <- syncLeft

-----------------------------------------------------------------------------

PartInit ==
    /\ part \in {"settling", "hasty", "following", "quick", "commands", "slow", "mirrored", "bootstrap"}
    /\ CASE part = "settling" -> Settling!Init
         [] part = "hasty"    -> Hasty!Init
         [] OTHER             -> Following!Init /\ (part = "following" \/ ~config.enabled)
    /\ CASE part = "quick"    -> Quick!Init
         [] part = "commands" -> Commands!Init
         [] OTHER             -> Slow!Init
    /\ IF part = "bootstrap" THEN Bootstrap!Init ELSE Mirrored!Init

PartNext ==
    \/ part = "settling" /\ Settling!Next /\ UNCHANGED <<part, linkVars, syncVars>>
    \/ part = "hasty" /\ Hasty!Next /\ UNCHANGED <<part, linkVars, syncVars>>
    \/ part = "following" /\ Following!Next /\ UNCHANGED <<part, linkVars, syncVars>>
    \/ part = "quick" /\ Quick!Next /\ UNCHANGED <<part, srvVars, syncVars>>
    \/ part = "commands" /\ Commands!Next /\ UNCHANGED <<part, srvVars, syncVars>>
    \/ part = "slow" /\ Slow!Next /\ UNCHANGED <<part, srvVars, syncVars>>
    \/ part = "mirrored" /\ Mirrored!Next /\ UNCHANGED <<part, srvVars, linkVars>>
    \/ part = "bootstrap" /\ Bootstrap!Next /\ UNCHANGED <<part, srvVars, linkVars>>

\* the fairness of the components' FairSpec
FollowingFairness ==
    /\ WF_srvVars(part = "following" /\ Following!Apply("t1"))
    /\ WF_srvVars(part = "following" /\ Following!Persist("t1"))
    /\ \A g \in 1 .. Following!MaxStarts :
         /\ WF_srvVars(part = "following" /\ g \in DOMAIN servers /\ Following!Spawned(g))
         /\ WF_srvVars(part = "following" /\ g \in DOMAIN servers /\ (Following!Bind(g) \/ Following!BindFails(g)))
         /\ WF_srvVars(part = "following" /\ g \in DOMAIN servers /\ Following!Shutdown(g))
    /\ \A p \in {"p1", "p2"} :
         /\ WF_srvVars(part = "following" /\ \E g \in DOMAIN servers : Following!Accept(p, g))
         /\ WF_srvVars(part = "following" /\ Following!Upgrade(p))
         /\ WF_srvVars(part = "following" /\ Following!ForwardStops(p))
         /\ WF_srvVars(part = "following" /\ Following!PongTimeout(p))

SlowFairness ==
    /\ WF_linkVars(part = "slow" /\ Slow!Opened) /\ WF_linkVars(part = "slow" /\ Slow!SendPing)
    /\ WF_linkVars(part = "slow" /\ Slow!PongMissing) /\ WF_linkVars(part = "slow" /\ Slow!Closed)
    /\ WF_linkVars(part = "slow" /\ Slow!Reconnect) /\ WF_linkVars(part = "slow" /\ Slow!HandleMessage)
    /\ WF_linkVars(part = "slow" /\ Slow!Tick)
    /\ \A i \in 1 .. 4 :
         WF_linkVars(/\ part = "slow" /\ i \in DOMAIN links
                     /\ \/ Slow!ReceivePing(i) \/ Slow!CommandReturns(i) \/ Slow!CommandTimesOut(i)
                        \/ \E cmd \in SomeCmds : Slow!ReceiveInvoke(i, cmd) \/ Slow!ReceiveUnknown(i, cmd))

BootstrapFairness ==
    /\ WF_syncVars(part = "bootstrap" /\ Bootstrap!ReceiveRequest)
    /\ \A i \in {desk, p1} : WF_syncVars(part = "bootstrap" /\ Bootstrap!Steps(i))
    /\ WF_syncVars(part = "bootstrap" /\ Bootstrap!Open(p1))
    /\ WF_syncVars(part = "bootstrap" /\ Bootstrap!Hydrate(p1))

PartSpec ==
    /\ PartInit /\ [][PartNext]_<<part, srvVars, linkVars, syncVars>>
    /\ FollowingFairness /\ SlowFairness /\ BootstrapFairness

-----------------------------------------------------------------------------
(* Properties of the components, in the part they belong to.                *)


\* Whatever a page invokes settles, and neither side gives up a connection that works: pings are
\* answered in time and no command ends the loop of a connection (remote's websocket handler and
\* RemoteTransport).
InvocationsSettle ==
    /\ [](part = "quick" => Quick!PingIsAnswered)
    /\ [](part = "commands" => Commands!LoopSurvives)
    /\ [](part = "slow" => Slow!TypeOK)
    /\ part = "slow" => Slow!AsksSettle


=============================================================================
