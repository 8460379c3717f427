----------------------------- MODULE CallSystem -----------------------------
(***************************************************************************)
(* Calls end to end: the server (CallServer), the client applications, the *)
(* messages between them, and users, timers and connections that act at    *)
(* any time.                                                               *)
(***************************************************************************)
EXTENDS CallServer

CONSTANTS
    INCOMING_CALLS_LIMIT,   \* calls that may ring at a client
    InviteSets,   \* the sets of targets a user may invite at once
    Callers,      \* the clients whose users place calls
    Commands,     \* what users and connections do in this instance
    Patient,      \* users wait until the server has answered them
    Careful,      \* invites and accepts cross nothing else
    Reconnects,   \* clients whose connection may break
    MaxMoves      \* bound on the moves of users, timers and connections

VARIABLES
    client,     \* client -> the call state of its application
    linked,     \* clients whose application is connected
    moves       \* moves made so far

systemVars == <<serverVars, client, linked, moves>>

-----------------------------------------------------------------------------
(* The call state of one client application and what the server's messages *)
(* do to it (vacs-client/src/app/state/signaling.rs and calls.rs).  Every   *)
(* handler runs under the application's state lock, so each is a function   *)
(* from the state k before it to the state after it.  Sounds, events to the *)
(* frontend and peer connections are left out.                              *)

\* AppStateInner: the current call, the calls that ring here, and the targets
\* with an unanswered-call timer.
NewClient == [current |-> None, incoming |-> Empty, timers |-> {}]

IsCurrent(k, c) == k.current # None /\ k.current.call = c

\* Call::is_empty
IsEmptyCall(call) == DOMAIN call.joined = {} /\ call.invited = {}

\* Call::from_invite, for a call with new targets
FromInvite(c, targets) == [call |-> c, invited |-> targets, joined |-> Empty, leader |-> None]

\* Call::from_invitation, and what Call::update leaves
FromMessage(m) == [call |-> m.call, invited |-> m.targets, joined |-> m.joined, leader |-> m.leader]

\* cleanup_current_call
CleanupCurrentCall(k, c) ==
    IF IsCurrent(k, c) THEN [k EXCEPT !.current = None, !.timers = {}] ELSE k

\* remove_incoming_call
RemoveIncomingCall(k, c) == [k EXCEPT !.incoming = Remove(@, {c})]

\* Targets that will not be reached leave the current call, which goes with the
\* last of them unless somebody joined.
RemoveInvitedTargets(k, c, targets) ==
    LET call == [k.current EXCEPT !.invited = @ \ targets]
    IN  IF ~IsCurrent(k, c) THEN k
        ELSE IF IsEmptyCall(call) THEN CleanupCurrentCall(k, c)
        ELSE [k EXCEPT !.current = call, !.timers = @ \ targets]

-----------------------------------------------------------------------------
(* handle_signaling_message, by message.                                    *)

IsFull(k) == Cardinality(DOMAIN k.incoming) >= INCOMING_CALLS_LIMIT

\* A client that rings for as many calls as it may rejects the next.
OnCallInvitation(k, m) ==
    IF IsFull(k) THEN k ELSE [k EXCEPT !.incoming = Put(@, m.call, FromMessage(m))]

\* The participants Call::update reports as newly joined.
NewlyJoined(call, me, m) ==
    IF me \notin DOMAIN m.joined THEN {}
    ELSE IF me \in DOMAIN call.joined THEN DOMAIN m.joined \ DOMAIN call.joined
    ELSE DOMAIN m.joined \ {me}

\* An update of a ringing call never ends it; the current call ends when nobody
\* is left in it or this client is no longer in it.
OnCallUpdate(k, me, m) ==
    IF m.call \in DOMAIN k.incoming
    THEN [k EXCEPT !.incoming[m.call] = FromMessage(m)]
    ELSE IF ~IsCurrent(k, m.call) THEN k
    ELSE IF \/ m.targets = {} /\ DOMAIN m.joined = {}
            \/ me \in DOMAIN k.current.joined /\ me \notin DOMAIN m.joined
    THEN CleanupCurrentCall(k, m.call)
    ELSE [k EXCEPT !.current = FromMessage(m),
                   !.timers = IF m.targets = {} THEN {}
                              ELSE @ \ {m.joined[p] : p \in NewlyJoined(k.current, me, m)}]

OnCallEnd(k, m) == RemoveIncomingCall(CleanupCurrentCall(k, m.call), m.call)

\* Errors about single targets take those out; errors about the call end it.
OnCallError(k, m) ==
    CASE m.why \in {"TargetsNotFound", "MaxConferenceSizeReached",
                    "NotConferenceLeader", "AlreadyParticipant"} ->
           RemoveInvitedTargets(k, m.call, m.targets)
      [] m.why \in {"CallActive", "NotParticipant", "CallNotFound", "CallFailure"} ->
           RemoveIncomingCall(CleanupCurrentCall(k, m.call), m.call)
      [] m.why = "PeerConnectionFailed" -> CleanupCurrentCall(k, m.call)
      [] m.why = "RateLimited" ->
           RemoveInvitedTargets(RemoveIncomingCall(k, m.call), m.call, m.targets)

OnCallCancelled(k, m) ==
    CASE m.why \in {"AnsweredElsewhere", "CallerCancelled", "AutoHangup"} ->
           RemoveIncomingCall(CleanupCurrentCall(k, m.call), m.call)
      [] m.why = "Disconnected" ->
           IF m.call \in DOMAIN k.incoming THEN RemoveIncomingCall(k, m.call)
           ELSE RemoveInvitedTargets(k, m.call, m.targets)
      [] m.why \in {"Rejected", "Errored"} -> RemoveInvitedTargets(k, m.call, m.targets)

OnMessage(k, me, m) ==
    CASE m.type = "CallInvitation" -> OnCallInvitation(k, m)
      [] m.type = "CallUpdate"     -> OnCallUpdate(k, me, m)
      [] m.type = "CallEnd"        -> OnCallEnd(k, m)
      [] m.type = "CallError"      -> OnCallError(k, m)
      [] m.type = "CallCancelled"  -> OnCallCancelled(k, m)

-----------------------------------------------------------------------------
(* What the user and the timers do.                                         *)

\* accept_call, once no other call is current
AcceptIncoming(k, c) ==
    [RemoveIncomingCall(k, c) EXCEPT !.current = k.incoming[c]]

\* invite_to_call, with a timer for every target
InviteTargets(k, c, targets) ==
    [k EXCEPT !.current = IF @ = None THEN FromInvite(c, targets)
                          ELSE [@ EXCEPT !.invited = @ \cup targets],
              !.timers = @ \cup targets]

\* drop_target: only a target that is not in the call yet is taken out at once;
\* the call stays even when nobody is left in it.
DropInvitedTarget(k, t) ==
    IF t \in k.current.invited
    THEN [k EXCEPT !.current.invited = @ \ {t}, !.timers = @ \ {t}]
    ELSE k

\* The unanswered-call timer of target t expires.
TimerExpired(k, t) ==
    [k EXCEPT !.timers = @ \ {t},
              !.current = IF @ = None THEN None ELSE [@ EXCEPT !.invited = @ \ {t}]]

-----------------------------------------------------------------------------
SystemInit ==
    /\ ServerInit
    /\ client = [x \in Clients |-> NewClient]
    /\ linked = Clients
    /\ moves = 0

-----------------------------------------------------------------------------
(* Clients.                                                                 *)

\* handle_signaling_event for the next message; an invitation beyond the limit
\* is rejected.
Receive(x) ==
    /\ x \in linked
    /\ wire[x] # <<>>
    /\ LET m == Head(wire[x])
       IN  /\ client' = [client EXCEPT ![x] = OnMessage(@, x, m)]
           /\ up' = IF m.type = "CallInvitation" /\ IsFull(client[x])
                    THEN [up EXCEPT ![x] = Append(@, [type |-> "CallReject", call |-> m.call, arg |-> {}])]
                    ELSE up
    /\ wire' = [wire EXCEPT ![x] = Tail(@)]
    /\ UNCHANGED <<vars, connected, leaving, inviting, sending, down, linked, moves>>

\* An invite or an accept that the server is yet to carry out.
Entering(x) ==
    \/ inviting[x] # None
    \/ \E i \in 1 .. Len(up[x]) : up[x][i].type \in {"CallInvite", "CallAccept"}

\* What ends a call waits, in a careful instance, for the invites and accepts.
NothingCrosses == Careful => \A y \in Clients : ~Entering(y)

\* A patient user acts once the server has handled everything sent before and
\* the answers have arrived.
MayAct(x) ==
    /\ x \in linked
    /\ moves < MaxMoves
    /\ NothingCrosses
    /\ Patient => up[x] = <<>> /\ Idle(x) /\ down[x] = <<>> /\ wire[x] = <<>>

\* A command: messages to the server and a change of the client's own state. A
\* server that dropped the connection no longer hears them.
Act(x, k, messages) ==
    /\ client' = [client EXCEPT ![x] = k]
    /\ up' = IF x \in connected THEN [up EXCEPT ![x] = @ \o messages] ELSE up
    /\ moves' = moves + 1
    /\ UNCHANGED <<vars, connected, leaving, inviting, sending, down, wire, linked>>

Request(type, c, arg) == [type |-> type, call |-> c, arg |-> arg]

\* CallId::new: an id nobody has seen.
Fresh(c) ==
    /\ \A x \in Clients : ~IsCurrent(client[x], c) /\ c \notin DOMAIN client[x].incoming
    /\ ~IsRinging(c) /\ ~IsActive(c)
    /\ \A x \in Clients : /\ inviting[x] # None => inviting[x].call # c
                          /\ \A i \in 1 .. Len(up[x]) : up[x][i].call # c
                          /\ \A i \in 1 .. Len(down[x]) : down[x][i].call # c
                          /\ \A i \in 1 .. Len(wire[x]) : wire[x][i].call # c
                          /\ \A i \in 1 .. Len(sending[x]) :
                                \A s \in sending[x][i] : s.msg.call # c

\* startCall of the frontend: into a call of its own or one it may lead, and
\* only targets that are not in it.
InviteToCall(x) ==
    /\ "invite" \in Commands
    /\ x \in Callers
    /\ MayAct(x)
    /\ Careful => Quiet
    /\ \E targets \in InviteSets, c \in CallIds :
         /\ IF client[x].current = None THEN Fresh(c)
            ELSE /\ c = client[x].current.call
                 /\ client[x].current.leader \in {None, x}
                 /\ targets \cap (client[x].current.invited \cup Range(client[x].current.joined)) = {}
         /\ Act(x, InviteTargets(client[x], c, targets), <<Request("CallInvite", c, targets)>>)

\* Accepting while in another call ends that one first; an outgoing call that
\* nobody has joined stands in the way.
AcceptIncomingCall(x) ==
    /\ "accept" \in Commands
    /\ MayAct(x)
    /\ Careful => Quiet
    /\ \E c \in DOMAIN client[x].incoming :
         LET k == client[x]
         IN  \/ /\ k.current = None
                /\ Act(x, AcceptIncoming(k, c), <<Request("CallAccept", c, {})>>)
             \/ /\ k.current # None
                /\ x \in DOMAIN k.current.joined
                /\ Act(x, AcceptIncoming(CleanupCurrentCall(k, k.current.call), c),
                       <<Request("CallEnd", k.current.call, {}), Request("CallAccept", c, {})>>)

\* A target this client invited, unless it is all there is to the call, or a
\* participant of a conference this client leads.
DropCallTarget(x) ==
    /\ "drop" \in Commands
    /\ MayAct(x)
    /\ client[x].current # None
    /\ \E t \in Targets :
         /\ LET call == client[x].current
                size == Cardinality(DOMAIN call.joined)
            IN  \/ t \in call.invited \cap client[x].timers /\ Cardinality(call.invited) + size > 1
                \/ t \in Range(call.joined) /\ call.leader = x /\ size > 2
         /\ Act(x, DropInvitedTarget(client[x], t),
             <<Request("Requested", client[x].current.call, {t})>>)

\* end_call, by the user or because no peer connected in time
EndCurrentCall(x) ==
    /\ "end" \in Commands
    /\ MayAct(x)
    /\ client[x].current # None
    /\ LET c == client[x].current.call
       IN  Act(x, CleanupCurrentCall(client[x], c), <<Request("CallEnd", c, {})>>)

\* The only peer connection of a call could not be set up: the client reports
\* the failure and ends the call, since no peer remains (end_call_if_no_peers).
ReportFailure(x) ==
    /\ "fail" \in Commands
    /\ MayAct(x)
    /\ client[x].current # None
    /\ x \in DOMAIN client[x].current.joined
    /\ client[x].current.invited = {}
    /\ LET c == client[x].current.call
       IN  Act(x, CleanupCurrentCall(client[x], c), <<Request("CallError", c, {})>>)

\* report_link_failure: the link to another participant stays dead
ReportDeadLink(x) ==
    /\ "link" \in Commands
    /\ MayAct(x)
    /\ client[x].current # None
    /\ \E y \in DOMAIN client[x].current.joined \ {x} :
         Act(x, client[x], <<Request("PeerConnectionFailed", client[x].current.call, {y})>>)

\* The unanswered-call timer: the target is dropped, if it has not answered.
UnansweredCallTimeout(x) ==
    /\ x \in linked
    /\ moves < MaxMoves
    /\ NothingCrosses
    /\ client[x].current # None
    /\ \E t \in client[x].timers :
         Act(x, TimerExpired(client[x], t), <<Request("AutoHangup", client[x].current.call, {t})>>)

-----------------------------------------------------------------------------
(* Connections.                                                             *)

\* The server loses the connection or kicks the session.
ServerDrops(x) ==
    /\ x \in Reconnects
    /\ moves < MaxMoves
    /\ NothingCrosses
    /\ moves' = moves + 1
    /\ RemoveClient(x)
    /\ UNCHANGED <<client, linked>>

\* cleanup_signaling: the application notices, before or after the server.
ClientDrops(x) ==
    /\ x \in Reconnects
    /\ x \in linked
    /\ x \in connected => moves < MaxMoves /\ NothingCrosses
    /\ moves' = IF x \in connected THEN moves + 1 ELSE moves
    /\ linked' = linked \ {x}
    /\ client' = [client EXCEPT ![x] = NewClient]
    /\ UNCHANGED serverVars

\* The server notices that the application has gone.
ServerNotices(x) ==
    /\ x \notin linked
    /\ NothingCrosses
    /\ RemoveClient(x)
    /\ UNCHANGED <<client, linked, moves>>

\* The application connects again. A login takes several round trips, so the old
\* session's cleanup and the handlers that were running are over.
Reconnect(x) ==
    /\ x \notin linked
    /\ x \notin leaving
    /\ \A y \in Clients : Idle(y)
    /\ RegisterClient(x)
    /\ linked' = linked \cup {x}
    /\ UNCHANGED <<client, moves>>

-----------------------------------------------------------------------------
UserStep(x) ==
    \/ InviteToCall(x)
    \/ AcceptIncomingCall(x)
    \/ DropCallTarget(x)
    \/ EndCurrentCall(x)
    \/ ReportFailure(x)
    \/ ReportDeadLink(x)

SystemStep(x) ==
    \/ SessionStep(x) /\ UNCHANGED <<client, linked, moves>>
    \/ Receive(x)
    \/ ServerNotices(x)
    \/ Reconnect(x)

SystemNext ==
    \E x \in Clients :
        \/ UserStep(x)
        \/ UnansweredCallTimeout(x)
        \/ ServerDrops(x)
        \/ ClientDrops(x)
        \/ SystemStep(x)

SystemSpec == SystemInit /\ [][SystemNext]_systemVars

-----------------------------------------------------------------------------
(* Properties.                                                              *)

\* Queues hold messages between known clients about known calls, and an
\* application that is not connected has no calls.
SystemTypeOK ==
    /\ connected \subseteq Clients /\ leaving \subseteq Clients \ connected
    /\ \A x \in Clients :
         /\ client[x].current # None => client[x].current.call \in CallIds
         /\ DOMAIN client[x].incoming \subseteq CallIds
         /\ client[x].timers \subseteq Targets
         /\ x \notin linked => client[x] = NewClient

Settled == Quiet /\ linked = connected

\* Once every message has been delivered, a client shows exactly the call the
\* server has it in, with the same participants, leader and ringing targets.
CurrentCallsAgree ==
    Settled => \A x \in linked :
        LET k == client[x].current
        IN  IF x \in DOMAIN client_active_calls
            THEN LET u == Snapshot(Calls, client_active_calls[x])
                 IN  k = [call |-> u.call, invited |-> Range(u.invited),
                          joined |-> u.joined, leader |-> u.leader]
            ELSE k = None

\* Once every message has been delivered, a client rings for exactly the calls
\* the server rings it for, and shows who else is in them or invited to them but
\* never its own target.
IncomingCallsAgree ==
    Settled => \A x \in linked :
        client[x].incoming = [c \in DOMAIN client_incoming_calls[x] |->
                                 LET u == Snapshot(Calls, c)
                                 IN  [call |-> c, joined |-> u.joined, leader |-> u.leader,
                                      invited |-> Range(u.invited) \ {u.invited[x]}]]

\* Nobody rings forever and no timer outlives what it was set for: once every
\* message has been delivered, a client has a timer running for exactly the
\* targets that still ring on its invitation.
RingingIsTimed ==
    Settled => \A x \in linked :
        client[x].timers = {t \in Targets : \E c \in DOMAIN ringing_calls :
            /\ t \in DOMAIN ringing_calls[c].targets
            /\ ringing_calls[c].targets[t].source.client_id = x}

-----------------------------------------------------------------------------
(* What comments of the code promise.                                       *)

\* attempt_call holds its lock so that no "stale invite" re-creates a call that
\* was torn down: once everything has been delivered, a call rings only while
\* its caller's application knows it.
NoStaleInviteRevivesACall ==
    Settled => \A c \in DOMAIN ringing_calls :
        ringing_calls[c].caller_id \in linked => IsCurrent(client[ringing_calls[c].caller_id], c)

\* The client has answered and the server is yet to hear it.
Answering(x, c) ==
    /\ IsCurrent(client[x], c)
    /\ \E i \in 1 .. Len(up[x]) : up[x][i].type = "CallAccept" /\ up[x][i].call = c

\* An invitation "only ends via an explicit CallCancelled": no CallUpdate ends
\* the call of a client that is about to be joined to it.
NoUpdateEndsAnInvitation ==
    [][\A x \in Clients, c \in CallIds :
          /\ Answering(x, c)
          /\ wire[x] # <<>>
          /\ Head(wire[x]).type = "CallUpdate"
          /\ wire'[x] = Tail(wire[x])
          => IsCurrent(client'[x], c)]_systemVars

\* Dropping a target is "optimistic; the server's echoed call update converges
\* it": once everything has been delivered, whoever is in a call shows it.
EchoedUpdateConverges ==
    Settled => \A c \in DOMAIN active_calls :
        \A x \in ParticipantsOf(active_calls[c]) : IsCurrent(client[x], c)

=============================================================================
