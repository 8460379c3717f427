---------------------------- MODULE MCConnection ----------------------------
(***************************************************************************)
(* The client's connections, for TLC: the heartbeat of the websocket        *)
(* (Heartbeat), its supervision and reconnection (SignalingClient), those   *)
(* who wait for its messages (ResponseMatcher), and the WebRTC link to      *)
(* another client (PeerLinks).  They share no variable: a behaviour is one  *)
(* of the component that part names, the others stay as they start.         *)
(***************************************************************************)
EXTENDS Heartbeat, Sequences

CONSTANTS w1, w2, k1, k2

VARIABLES
    part,
    state, link, workers, sendTx, token, bus, pc, gate, shown, wish, suppressed, sigLeft,   \* SignalingClient
    inner, wait, missed, waitLeft,                                                          \* ResponseMatcher
    cl, srv, path, usable, linkLeft                                                         \* PeerLinks

sigVars  == <<state, link, workers, sendTx, token, bus, pc, gate, shown, wish, suppressed, sigLeft>>
waitVars == <<inner, wait, missed, waitLeft>>
linkVars == <<cl, srv, path, usable, linkLeft>>

\* SignalingClient: connections break and are set up again; in Rough the writer fails as
\* well, and the bus of events is shorter.
Calm == INSTANCE SignalingClient WITH
    Capacity <- 3, MaxTries <- 2, MaxInWindow <- 1, MaxConnections <- 3, MaxMessages <- 1, MaxCommands <- 2,
    WriterFails <- FALSE, LossDuringLogin <- FALSE, UserInterferes <- FALSE, left <- sigLeft

Rough == INSTANCE SignalingClient WITH
    Capacity <- 2, MaxTries <- 2, MaxInWindow <- 1, MaxConnections <- 3, MaxMessages <- 1, MaxCommands <- 2,
    WriterFails <- TRUE, LossDuringLogin <- FALSE, UserInterferes <- FALSE, left <- sigLeft

\* ResponseMatcher: waits that time out, and waits without a timeout.
Timely == INSTANCE ResponseMatcher WITH
    Waiters <- {w1, w2}, Kinds <- {k1, k2}, MaxMessages <- 3, MaxWaits <- 4, TimeoutsHappen <- TRUE,
    left <- waitLeft

Patient == INSTANCE ResponseMatcher WITH
    Waiters <- {w1, w2}, Kinds <- {k1, k2}, MaxMessages <- 3, MaxWaits <- 4, TimeoutsHappen <- FALSE,
    left <- waitLeft

\* PeerLinks: a link of a conference, of one that the third participant leaves, of a call
\* of two, and of a conference whose network changes once.
AllPaths == {"direct", "relay", "none"}

Meeting == INSTANCE PeerLinks WITH
    Conference <- TRUE, ThirdMayLeave <- FALSE, Leader <- 1, MaxFlips <- 2, MaxStalls <- 1, MaxFaults <- 0,
    Paths <- AllPaths, left <- linkLeft

Leaving == INSTANCE PeerLinks WITH
    Conference <- TRUE, ThirdMayLeave <- TRUE, Leader <- 1, MaxFlips <- 1, MaxStalls <- 1, MaxFaults <- 1,
    Paths <- AllPaths, left <- linkLeft

Two == INSTANCE PeerLinks WITH
    Conference <- FALSE, ThirdMayLeave <- FALSE, Leader <- 1, MaxFlips <- 2, MaxStalls <- 1, MaxFaults <- 1,
    Paths <- AllPaths, left <- linkLeft

Relay == INSTANCE PeerLinks WITH
    Conference <- TRUE, ThirdMayLeave <- FALSE, Leader <- 1, MaxFlips <- 1, MaxStalls <- 1, MaxFaults <- 0,
    Paths <- AllPaths, left <- linkLeft

-----------------------------------------------------------------------------

PartInit ==
    /\ part \in {"heartbeat", "calm", "rough", "timely", "patient", "meeting", "leaving", "two", "relay"}
    /\ Init
    /\ IF part = "rough" THEN Rough!Init ELSE Calm!Init
    /\ Timely!Init
    /\ CASE part = "leaving" -> Leaving!Init
         [] part = "two"     -> Two!Init
         [] part = "relay"   -> Relay!Init
         [] OTHER            -> Meeting!Init

PartNext ==
    \/ part = "heartbeat" /\ Next /\ UNCHANGED <<part, sigVars, waitVars, linkVars>>
    \/ part = "calm" /\ Calm!Next /\ UNCHANGED <<part, vars, waitVars, linkVars>>
    \/ part = "rough" /\ Rough!Next /\ UNCHANGED <<part, vars, waitVars, linkVars>>
    \/ part = "timely" /\ Timely!Next /\ UNCHANGED <<part, vars, sigVars, linkVars>>
    \/ part = "patient" /\ Patient!Next /\ UNCHANGED <<part, vars, sigVars, linkVars>>
    \/ part = "meeting" /\ Meeting!Next /\ UNCHANGED <<part, vars, sigVars, waitVars>>
    \/ part = "leaving" /\ Leaving!Next /\ UNCHANGED <<part, vars, sigVars, waitVars>>
    \/ part = "two" /\ Two!Next /\ UNCHANGED <<part, vars, sigVars, waitVars>>
    \/ part = "relay" /\ Relay!Next /\ UNCHANGED <<part, vars, sigVars, waitVars>>

\* the fairness of SignalingClient's and PeerLinks' Spec
CalmFairness ==
    /\ WF_sigVars(part = "calm" /\ Calm!Supervise)
    /\ \A a \in Calm!Actors : /\ WF_sigVars(part = "calm" /\ Calm!Connect(a))
                              /\ WF_sigVars(part = "calm" /\ Calm!Disconnect(a))
    /\ \A c \in 1 .. 3 : WF_sigVars(part = "calm" /\ c <= Calm!Newest /\ Calm!ReaderFails(c))

RoughFairness ==
    /\ WF_sigVars(part = "rough" /\ Rough!Supervise)
    /\ \A a \in Rough!Actors : /\ WF_sigVars(part = "rough" /\ Rough!Connect(a))
                               /\ WF_sigVars(part = "rough" /\ Rough!Disconnect(a))
    /\ \A c \in 1 .. 3 : WF_sigVars(part = "rough" /\ c <= Rough!Newest /\ Rough!ReaderFails(c))

LinkFairness ==
    /\ WF_linkVars(part = "meeting" /\ ((\E e \in Meeting!Ends : Meeting!Prompt(e)) \/ Meeting!Tick))
    /\ WF_linkVars(part = "leaving" /\ ((\E e \in Leaving!Ends : Leaving!Prompt(e)) \/ Leaving!Tick))
    /\ WF_linkVars(part = "two" /\ ((\E e \in Two!Ends : Two!Prompt(e)) \/ Two!Tick))

PartSpec ==
    /\ PartInit /\ [][PartNext]_<<part, vars, sigVars, waitVars, linkVars>>
    /\ CalmFairness /\ RoughFairness /\ LinkFairness

-----------------------------------------------------------------------------
(* Properties of the components, in the part they belong to.                *)


\* A connection that was lost is noticed.
LossesAreNoticed ==
    /\ part = "calm" => Calm!LossesAreNoticed
    /\ part = "rough" => Rough!LossesAreNoticed

\* A message answers the wait that began first among those it matches, whoever waits has one
\* entry in the queue, and no wait goes on after a message that matches it answered nobody
\* (ResponseMatcher).
WaitersAreServed ==
    /\ [](Timely!TypeOK /\ Timely!WaitersAreQueued)
    /\ [](part = "patient" => Patient!NoMatchIsLost)
    /\ Timely!FirstComeFirstServed

\* A link between two participants does not stay dead: it heals, or one of the two leaves, and
\* client and server end up agreeing on who is in the call. A retry serves a link that is down,
\* the keybind engine takes the call for active as long as there is a link, and a pair that is
\* evicted could not talk (webrtc's retries, the server's link reports).
DeadLinksAreSettled ==
    /\ [](part = "meeting" => Meeting!TypeOK /\ Meeting!RetriesServeALink /\ Meeting!ActiveWhileTalking)
    /\ [](part = "leaving" => Leaving!TypeOK /\ Leaving!RetriesServeALink /\ Leaving!ActiveWhileTalking)
    /\ [](part = "two" => Two!TypeOK /\ Two!RetriesServeALink /\ Two!ActiveWhileTalking)
    /\ [][part = "relay" => Relay!EvictsADeadLink]_linkVars
    /\ part = "meeting" => Meeting!LinksAreSettled
    /\ part = "leaving" => Leaving!LinksAreSettled /\ Leaving!RostersConverge
    /\ part = "two" => Two!RostersConverge

=============================================================================
