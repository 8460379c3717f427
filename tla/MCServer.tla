------------------------------ MODULE MCServer ------------------------------
(***************************************************************************)
(* What the server does for one connection, for TLC: the session's tasks    *)
(* (Session), the limits on its requests (RateLimit) and the VATSIM         *)
(* connection it is taken to have (Controllers).  The three share no        *)
(* variable: a behaviour is one of the component that part names, the       *)
(* others stay as they start.                                               *)
(***************************************************************************)
EXTENDS Session, Integers

CONSTANTS x, z, key, m1, m2

VARIABLES
    part,
    now, spent, passed, verdict,   \* RateLimit
    feed, read, byCid              \* Controllers

limitVars == <<now, spent, passed, verdict>>
feedVars  == <<feed, read, byCid>>

\* Session: the configuration has one client x, whose connection may fail in every
\* way, and who calls z, who is not there. Peers has both, calling each other while x
\* is removed.
Peers == INSTANCE Session WITH
    Clients <- {x, z}, Requests <- {x, z}, MaxRequests <- 2,
    CLIENT_WEBSOCKET_TASK_CHANNEL_CAPACITY <- 2, CLIENT_CHANNEL_CAPACITY <- 2, PongTicks <- 1,
    Stalling <- {}, Closing <- {}, Kicked <- {x}, MayShutDown <- FALSE

\* RateLimit: a policy with both limiters and one with a burst limiter only.
Limits == INSTANCE RateLimit WITH
    Keys <- {key}, MinutePeriod <- 3, MaxTargets <- 4, MaxTime <- 5, MaxPasses <- 3,
    Policy <- [call_invite    |-> [burst |-> 3, period |-> 2, minute |-> 4],
               version_update |-> [burst |-> 2, period |-> 1, minute |-> 0]]

\* Controllers: a member with up to three connections, and another one.
Entry(cid, stem, suffix, range) == [cid |-> cid, stem |-> stem, suffix |-> suffix, range |-> range]

Feed == INSTANCE Controllers WITH
    MaxEntries <- 3, MaxRange <- 3,
    Entries <-
        {Entry(m1, stem, suffix, range) : stem \in {1, 2}, suffix \in {"TOWER", "OBS"}, range \in {None, 0, -1, 2}}
        \union {Entry(m1, 1, suffix, range) : suffix \in {"TWR", "FMP", "SUP"}, range \in {0, 2}}
        \union {Entry(m2, 1, "CTR", 3), Entry(m2, 1, "GND", 4)}

PartInit ==
    /\ part \in {"ends", "peers", "limits", "feed"}
    /\ IF part = "peers" THEN Peers!Init ELSE Init
    /\ Limits!Init
    /\ Feed!Init /\ (part # "feed" => feed = <<>>)

PartNext ==
    \/ part = "ends" /\ Next /\ UNCHANGED <<part, limitVars, feedVars>>
    \/ part = "peers" /\ Peers!Next /\ UNCHANGED <<part, limitVars, feedVars>>
    \/ part = "limits" /\ Limits!Next /\ UNCHANGED <<part, vars, feedVars>>
    \/ part = "feed" /\ Feed!Next /\ UNCHANGED <<part, vars, limitVars>>

\* the fairness of Session's Spec
PartSpec ==
    /\ PartInit /\ [][PartNext]_<<part, vars, limitVars, feedVars>>
    /\ WF_vars(part = "ends" /\ ReaderStep(x))
    /\ WF_vars(part = "ends" /\ WriterStep(x))
    /\ SF_vars(part = "ends" /\ PingStep(x))
    /\ WF_vars(part = "ends" /\ MainStep(x))

-----------------------------------------------------------------------------
(* Properties of the components, in the part they belong to.                *)


\* No stretch of time lets more invitation targets through than the burst capacity and what
\* the limiters make up for in that time, and a limiter that refused lets the same request
\* pass after the announced wait and not before (RateLimiters).
RateLimitsAreExact == Limits!TypeOK /\ Limits!PassedInAnyWindow /\ Limits!WaitIsExact

\* The index has, for everyone in the feed, the connection above all their others, whatever the
\* order of the entries (index_by_cid), and agrees with the slurper: who was let in is not
\* dropped by the next update from the feed.
ControllersAreIndexed == Feed!TypeOK /\ Feed!IndexIsTheHighest /\ Feed!LoginsAreConfirmedByTheFeed

=============================================================================
