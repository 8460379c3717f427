----------------------------- MODULE CallServer -----------------------------
(***************************************************************************)
(* The server's side of the call protocol: one session per connected       *)
(* client (ws/session.rs) that runs the handlers of                        *)
(* ws/application_message.rs one message at a time.  A handler changes the *)
(* call manager in one step and then sends its messages one by one, while  *)
(* the other sessions go on; a fan-out over a HashMap has no order.        *)
(* Errors that only inform the user (SignalingFailure, WebrtcFailure,      *)
(* AudioFailure to the other participants) change no state and are left    *)
(* out.                                                                    *)
(***************************************************************************)
EXTENDS CallManager, Sequences

CONSTANT RateLimiting   \* whether the rate limiter may refuse an invite

VARIABLES
    connected,   \* the clients registered with the client manager
    leaving,     \* clients removed from it whose calls are still to be cleaned up
    up,          \* client -> messages on their way to its session
    inviting,    \* client -> the invite its session is working on, or None
    sending,     \* client -> what its session still has to send: sets of sends
    down,        \* client -> messages queued for its session
    wire         \* client -> messages on their way to the client

serverVars == <<vars, connected, leaving, up, inviting, sending, down, wire>>

ServerInit ==
    /\ Init
    /\ connected = Clients
    /\ leaving = {}
    /\ up = [x \in Clients |-> <<>>]
    /\ inviting = [x \in Clients |-> None]
    /\ sending = [x \in Clients |-> <<>>]
    /\ down = [x \in Clients |-> <<>>]
    /\ wire = [x \in Clients |-> <<>>]

Idle(x) == sending[x] = <<>> /\ inviting[x] = None

-----------------------------------------------------------------------------
(* Messages to clients.  `why` is the reason of an error or a cancellation. *)

Message(type, c, why, targets, joined, lead) ==
    [type |-> type, call |-> c, why |-> why, targets |-> targets,
     joined |-> joined, leader |-> lead]

ErrorMessage(c, why, targets)     == Message("CallError", c, why, targets, Empty, None)
CancelledMessage(c, why, targets) == Message("CallCancelled", c, why, targets, Empty, None)
EndMessage(c)                     == Message("CallEnd", c, "", {}, Empty, None)

\* A send; onfail is what the handler does when the recipient is gone.
Send(y, m)              == [to |-> y, msg |-> m, onfail |-> "log"]
SendOr(y, m, onfail)    == [to |-> y, msg |-> m, onfail |-> onfail]

NonEmpty(batches) == SelectSeq(batches, LAMBDA b : b # {})

\* RingingCallEntry::invited_participants
InvitedParticipants(s, c) ==
    IF c \notin DOMAIN s.ringing THEN Empty
    ELSE [y \in InvitedClients(s.ringing[c]) |->
            CHOOSE t \in DOMAIN s.ringing[c].targets :
                y \in s.ringing[c].targets[t].notified_clients]

\* UpdateParticipants: the state of a call as of s.
Snapshot(s, c) ==
    [call |-> c, invited |-> InvitedParticipants(s, c),
     joined |-> IF c \in DOMAIN s.active THEN s.active[c].participants ELSE Empty,
     leader |-> IF c \in DOMAIN s.active THEN s.active[c].conference_leader ELSE None]

AllParticipants(u) == DOMAIN u.invited \cup DOMAIN u.joined

\* UpdateParticipants::for_recipient
ForRecipient(u, y) ==
    LET own == IF y \in DOMAIN u.invited THEN {u.invited[y]} ELSE {}
    IN  Message("CallUpdate", u.call, "", Range(u.invited) \ own, u.joined, u.leader)

\* send_call_update to a set of clients
Updates(u, ys) == {Send(y, ForRecipient(u, y)) : y \in ys}

\* send_call_cancelled, to everyone a ringing call notified
Cancellations(s, c, why) ==
    LET call == s.ringing[c]
    IN  UNION {{Send(y, CancelledMessage(c, why, {t})) :
                   y \in call.targets[t].notified_clients} : t \in DOMAIN call.targets}

\* Cancelled by somebody else than the caller, the caller is told as well.
CancellationsWithCaller(s, c, why) ==
    Cancellations(s, c, why)
      \cup {Send(s.ringing[c].caller_id, CancelledMessage(c, why, {t})) :
                t \in DOMAIN s.ringing[c].targets}

\* The targets of c that were given up between s and after.
GivenUp(s, after, c) ==
    DOMAIN s.ringing[c].targets
      \ (IF c \in DOMAIN after.ringing THEN DOMAIN after.ringing[c].targets ELSE {})

-----------------------------------------------------------------------------
(* What a session sends for a change of the call manager from s to after.   *)

\* The actions end_call returns when x leaves c, in their order: participants
\* of a call that ended are dropped, those of one that goes on are updated, and
\* the invitations that went with it are cancelled.
LeaveSends(s, after, c, x, cancels) ==
    LET before == DOMAIN Snapshot(s, c).joined
        now    == Snapshot(after, c)
        ended  == x \in before /\ DOMAIN now.joined = {}
        left   == x \in before /\ ~ended
    IN  NonEmpty(<<IF ended THEN {Send(y, EndMessage(c)) : y \in before \ {x}} ELSE {},
                   IF left THEN Updates(now, AllParticipants(now)) ELSE {},
                   IF c \in DOMAIN s.ringing \ DOMAIN after.ringing THEN cancels ELSE {}>>)

\* cancel_failed_target, and the update of the others, for a target nobody is
\* left to answer.
FailedTargetSends(s, after, c, why, updated) ==
    LET lost == GivenUp(s, after, c)
    IN  IF lost = {} THEN <<>>
        ELSE NonEmpty(<<{Send(s.ringing[c].caller_id, CancelledMessage(c, why, lost))},
                        Updates(Snapshot(after, c), updated)>>)

\* The caller hears of its cancelled target, but the invitees go unnoticed.
CleanupSendsOwnCallOnly(s, left, after, x) ==
    LET c == s.busy[x]
    IN  IF x \in DOMAIN s.busy
        THEN LeaveSends(s, left, c, x,
                 IF IsCaller(c, x) THEN Cancellations(s, c, "CallerCancelled")
                                   ELSE CancellationsWithCaller(s, c, "Disconnected"))
        ELSE <<>>

\* send_cleanup_action for everything cleanup_client_calls did: x left its own
\* call, and the calls that rang it gave up on the targets only x could answer.
CleanupSends(s, left, after, x) ==
    LET own  == CleanupSendsOwnCallOnly(s, left, after, x)
        rung == {c \in DOMAIN s.incoming[x] \cap DOMAIN left.ringing : GivenUp(left, after, c) # {}}
    IN  own \o NonEmpty(
          <<{Send(left.ringing[c].caller_id, CancelledMessage(c, "Disconnected", GivenUp(left, after, c))) :
                c \in rung},
            UNION {Updates(Snapshot(after, c), AllParticipants(Snapshot(after, c))) : c \in rung}>>)

-----------------------------------------------------------------------------
(* The handlers.  Each is the whole change of state of one message; what it *)
(* sends is left in `sending`.                                              *)

Sends(x, batches) == sending' = [sending EXCEPT ![x] = batches]

Refuse(x, c, why, targets) ==
    /\ Sends(x, <<{Send(x, ErrorMessage(c, why, targets))}>>)
    /\ UNCHANGED vars

\* x opened the ringing batch of c or takes part in c: end_call finds it.
CanEnd(c, x) == IsCaller(c, x) \/ Participates(c, x)

\* handle_call_accept.  Refused as busy, x also stops ringing.
HandleCallAccept(x, c) ==
    IF ~AcceptorIsFree(x)
    THEN /\ RejectCall(c, x)
         /\ Sends(x, <<{Send(x, ErrorMessage(c, "CallActive", {}))}>>
                       \o IF RingsFor(c, x)
                          THEN FailedTargetSends(Calls, Calls', c, "Errored",
                                   AllParticipants(Snapshot(Calls', c)) \ {ringing_calls[c].caller_id})
                          ELSE <<>>)
    ELSE IF ~IsRinging(c) \/ AnsweredTargets(ringing_calls[c], x) = {}
    THEN Refuse(x, c, "CallFailure", {})
    ELSE LET others == UNION {ringing_calls[c].targets[t].notified_clients :
                                 t \in AnsweredTargets(ringing_calls[c], x)} \ {x}
         IN  /\ AcceptCall(c, x)
             /\ LET u == Snapshot(Calls', c)
                IN  Sends(x, NonEmpty(
                      <<Updates(u, DOMAIN u.invited),
                        {SendOr(y, ForRecipient(u, y), "end") : y \in DOMAIN u.joined},
                        {Send(y, CancelledMessage(c, "AnsweredElsewhere", {})) : y \in others}>>))

\* handle_call_reject
HandleCallReject(x, c) ==
    IF RingsFor(c, x)
    THEN /\ RejectCall(c, x)
         /\ Sends(x, FailedTargetSends(Calls, Calls', c, "Rejected",
                                       AllParticipants(Snapshot(Calls', c))))
    ELSE Refuse(x, c, "CallFailure", {})

\* handle_call_end
HandleCallEnd(x, c) ==
    IF CanEnd(c, x)
    THEN /\ EndCall(c, x)
         /\ Sends(x, LeaveSends(Calls, Calls', c, x,
                                IF IsRinging(c) THEN Cancellations(Calls, c, "CallerCancelled") ELSE {}))
    ELSE Refuse(x, c, "CallNotFound", {})

\* handle_call_error, for a failure the client reports about itself.
HandleCallError(x, c) ==
    IF RingsFor(c, x) \/ CanEnd(c, x)
    THEN /\ CallError(c, x)
         /\ Sends(x, IF RingsFor(c, x)
                     THEN FailedTargetSends(Calls, Calls', c, "Errored",
                              AllParticipants(Snapshot(Calls', c)) \ {ringing_calls[c].caller_id})
                     ELSE LeaveSends(Calls, Calls', c, x,
                              IF IsRinging(c) THEN Cancellations(Calls, c, "CallerCancelled") ELSE {}))
    ELSE Refuse(x, c, "CallFailure", {})

\* handle_link_failure_report: the evicted participant gets an error and a
\* CallEnd, the others what a leave sends.
HandleLinkFailureReport(x, c, peer) ==
    IF x # peer /\ Participates(c, x) /\ Participates(c, peer)
    THEN LET recorded == RecordLinkReport(active_calls[c], x, peer)
             evicted  == LaterJoiner(recorded, x, peer)
         IN  /\ ReportLinkFailure(c, x, peer)
             /\ Sends(x, IF LinkConfirmed(recorded, x, peer)
                         THEN <<{Send(evicted, ErrorMessage(c, "PeerConnectionFailed", {}))},
                                {Send(evicted, EndMessage(c))}>>
                              \o LeaveSends(Calls, Calls', c, evicted,
                                   IF IsRinging(c) THEN Cancellations(Calls, c, "CallerCancelled") ELSE {})
                         ELSE <<>>)
    ELSE UNCHANGED <<vars, sending>>

Ringing(c, t) == IsRinging(c) /\ t \in DOMAIN ringing_calls[c].targets

\* The joined participants that answered for target t.
JoinedAs(c, t) ==
    {y \in DOMAIN active_calls[c].participants : active_calls[c].participants[y] = t}

\* call_state_update: what a refused drop is answered with
StateUpdate(x, c) ==
    IF \/ Participates(c, x)
       \/ IsRinging(c) /\ \/ ringing_calls[c].caller_id = x
                          \/ \E t \in DOMAIN ringing_calls[c].targets :
                                ringing_calls[c].targets[t].source.client_id = x
    THEN <<Updates(Snapshot(Calls, c), {x})>> ELSE <<>>

\* handle_call_drop_target, with broadcast_call_update: the dropping client is
\* told even when it is in neither list.
HandleCallDropTarget(x, c, t, reason) ==
    IF Ringing(c, t) /\ ringing_calls[c].targets[t].source.client_id = x
    THEN /\ DropRingingTarget(c, x, t)
         /\ Sends(x, <<{Send(y, CancelledMessage(c,
                                IF reason = "Requested" THEN "CallerCancelled" ELSE reason, {t})) :
                           y \in ringing_calls[c].targets[t].notified_clients},
                       Updates(Snapshot(Calls', c), AllParticipants(Snapshot(Calls', c)) \cup {x})>>)
    ELSE IF Ringing(c, t) \/ (IsActive(c) /\ ~Participates(c, x))
    THEN /\ Sends(x, <<{Send(x, ErrorMessage(c, "NotConferenceLeader", {t}))}>> \o StateUpdate(x, c))
         /\ UNCHANGED vars
    ELSE IF ~IsActive(c) \/ JoinedAs(c, t) = {} \/ reason = "AutoHangup"
    THEN LET u == Snapshot(Calls, c)
         IN  IF AllParticipants(u) = {}
             THEN Refuse(x, c, "CallNotFound", {})
             ELSE Sends(x, <<Updates(u, {x})>>) /\ UNCHANGED vars
    ELSE IF JoinedAs(c, t) = {x} \/ Cardinality(ParticipantsOf(active_calls[c])) <= 2
              \/ active_calls[c].conference_leader # x
    THEN /\ Sends(x, <<{Send(x, ErrorMessage(c, "NotConferenceLeader", {t}))}>> \o StateUpdate(x, c))
         /\ UNCHANGED vars
    ELSE /\ DropJoinedParticipant(c, x, t, reason)
         /\ LET dropped == ParticipantsOf(active_calls[c]) \ ParticipantsOf(active_calls'[c])
                u       == Snapshot(Calls', c)
            IN  Sends(x, <<{Send(y, EndMessage(c)) : y \in dropped},
                           Updates(u, AllParticipants(u) \cup {x})>>)

-----------------------------------------------------------------------------
(* handle_call_invite takes several steps: the targets are resolved, then   *)
(* attempted one at a time, then invitations and updates go out.            *)

ResolvedClients(x, t) == (UNION Resolves[t] \cap connected) \ {x}

\* An unreachable target is left out of the invite; with none left, with too
\* many, or with the rate limiter refusing, the invite is over.
ResolveInvite(x, c, targets) ==
    LET found == {t \in targets : ResolvedClients(x, t) # {}}
    IN  /\ UNCHANGED vars
        /\ \/ /\ found = {}
              /\ Sends(x, <<{Send(x, ErrorMessage(c, "TargetsNotFound", targets))}>>)
              /\ UNCHANGED inviting
           \/ /\ found # {}
              /\ InviteExceedsMaxConfSize(c, x, found)
              /\ Sends(x, <<{Send(x, ErrorMessage(c, "MaxConferenceSizeReached", targets))}>>)
              /\ UNCHANGED inviting
           \/ /\ found # {}
              /\ ~InviteExceedsMaxConfSize(c, x, found)
              /\ RateLimiting
              /\ Sends(x, <<{Send(x, ErrorMessage(c, "RateLimited", targets))}>>)
              /\ UNCHANGED inviting
           \/ /\ found # {}
              /\ ~InviteExceedsMaxConfSize(c, x, found)
              /\ inviting' = [inviting EXCEPT ![x] =
                   [call |-> c, left |-> [t \in found |-> ResolvedClients(x, t)],
                    missing |-> targets \ found, notified |-> Empty, failed |-> {},
                    snap |-> [Snapshot(Calls, c) EXCEPT !.invited = Empty, !.joined = Empty],
                    fanned_out |-> FALSE]]
              /\ UNCHANGED sending

\* The error attempt_call's refusal is answered with (validate_call_attempt).
AttemptError(x, c, t, notified) ==
    IF x \in DOMAIN client_active_calls
    THEN IF client_active_calls[x] # c THEN "CallActive"
         ELSE IF IsActive(c) /\ active_calls[c].conference_leader \notin {None, x}
         THEN "NotConferenceLeader"
         ELSE IF IsActive(c) /\ \/ t \in Range(active_calls[c].participants)
                                \/ ParticipantsOf(active_calls[c]) \cap notified # {}
         THEN "AlreadyParticipant"
         ELSE IF IsRinging(c) /\ ringing_calls[c].caller_id # x
         THEN "NotConferenceLeader"
         ELSE "AlreadyParticipant"
    ELSE "NotParticipant"

\* One attempt_call of the loop over the resolved targets.  CallActive and
\* NotParticipant end the handler, whatever was attempted before.
AttemptTarget(x) ==
    /\ inviting[x] # None
    /\ sending[x] = <<>>
    /\ ~inviting[x].fanned_out
    /\ \E t \in DOMAIN inviting[x].left :
         LET c        == inviting[x].call
             notified == inviting[x].left[t]
             rest     == Remove(inviting[x].left, {t})
             source   == [client_id |-> x, target |-> CHOOSE st \in SourceTargets[x] : TRUE]
             error    == AttemptError(x, c, t, notified)
         IN  IF ValidCallAttempt(c, x, t, notified)
             THEN /\ AttemptCall(c, x, source, t, notified)
                  /\ inviting' = [inviting EXCEPT
                       ![x].left = rest, ![x].snap = Snapshot(Calls', c),
                       ![x].notified = [y \in DOMAIN @ \cup notified |->
                                          IF y \in notified THEN t ELSE @[y]]]
                  /\ UNCHANGED sending
             ELSE /\ inviting' = [inviting EXCEPT ![x] =
                       IF error \in {"CallActive", "NotParticipant"} THEN None
                       ELSE [@ EXCEPT !.left = rest]]
                  /\ Sends(x, <<{Send(x, ErrorMessage(c, error, {t}))}>>)
                  /\ UNCHANGED vars
    /\ UNCHANGED <<connected, leaving, up, down, wire>>

\* The invitations go to everybody newly invited, after the error for the
\* targets that were not found.
FanOutInvitations(x) ==
    /\ inviting[x] # None
    /\ sending[x] = <<>>
    /\ ~inviting[x].fanned_out
    /\ DOMAIN inviting[x].left = {}
    /\ LET i    == inviting[x]
           c    == i.call
           now  == [i.snap EXCEPT !.leader = Snapshot(Calls, c).leader]
           news == {SendOr(y, [ForRecipient(now, y) EXCEPT !.type = "CallInvitation"], "fail") :
                       y \in DOMAIN i.notified}
       IN  /\ Sends(x, NonEmpty(<<IF i.missing = {} THEN {}
                                  ELSE {Send(x, ErrorMessage(c, "TargetsNotFound", i.missing))},
                                  news>>))
           /\ inviting' = [inviting EXCEPT ![x] = [i EXCEPT !.snap = now, !.fanned_out = TRUE]]
    /\ UNCHANGED <<vars, connected, leaving, up, down, wire>>

\* The update to the others; once a target failed on the way, to everyone.
FanOutUpdates(x) ==
    /\ inviting[x] # None
    /\ sending[x] = <<>>
    /\ inviting[x].fanned_out
    /\ LET i    == inviting[x]
           u    == [i.snap EXCEPT !.invited =
                      Restrict(@, {y \in DOMAIN @ : @[y] \notin i.failed})]
           told == IF i.failed = {} THEN DOMAIN i.notified ELSE {}
       IN  Sends(x, NonEmpty(<<Updates(u, AllParticipants(i.snap) \ told)>>))
    /\ inviting' = [inviting EXCEPT ![x] = None]
    /\ UNCHANGED <<vars, connected, leaving, up, down, wire>>

-----------------------------------------------------------------------------
(* The session loop.                                                        *)

\* handle_application_message on the next message of the client.
HandleMessage(x) ==
    /\ x \in connected
    /\ Idle(x)
    /\ up[x] # <<>>
    /\ LET m == Head(up[x])
           c == m.call
       IN  \/ /\ m.type = "CallInvite"
              /\ ResolveInvite(x, c, m.arg)
           \/ /\ m.type # "CallInvite"
              /\ UNCHANGED inviting
              /\ \/ m.type = "CallAccept" /\ HandleCallAccept(x, c)
                 \/ m.type = "CallReject" /\ HandleCallReject(x, c)
                 \/ m.type = "CallEnd" /\ HandleCallEnd(x, c)
                 \/ m.type = "CallError" /\ HandleCallError(x, c)
                 \/ m.type = "PeerConnectionFailed"
                      /\ \E peer \in m.arg : HandleLinkFailureReport(x, c, peer)
                 \/ m.type \in {"Requested", "AutoHangup"}
                      /\ \E t \in m.arg : HandleCallDropTarget(x, c, t, m.type)
    /\ up' = [up EXCEPT ![x] = Tail(@)]
    /\ UNCHANGED <<connected, leaving, down, wire>>

\* A failed invitation counts as the callee's error (call_error); a failed
\* update after an accept ends the call for its recipient.
SendFails(x, s, rest) ==
    LET c == s.msg.call
        y == s.to
    IN  \/ /\ s.onfail = "log"
           /\ Sends(x, rest)
           /\ UNCHANGED <<vars, inviting>>
        \/ /\ s.onfail = "fail"
           /\ CallError(c, y)
           /\ LET lost    == IF RingsFor(c, y) THEN GivenUp(Calls, Calls', c) ELSE {}
                  failed  == IF RingsFor(c, y) THEN lost ELSE {inviting[x].notified[y]}
                  cancels == IF lost = {} THEN <<>>
                             ELSE <<{Send(ringing_calls[c].caller_id, CancelledMessage(c, "Errored", lost))}>>
              IN  /\ Sends(x, cancels \o rest)
                  /\ inviting' = [inviting EXCEPT ![x].failed = @ \cup failed]
        \/ /\ s.onfail = "end"
           /\ UNCHANGED inviting
           /\ IF CanEnd(c, y)
              THEN /\ EndCall(c, y)
                   /\ Sends(x, LeaveSends(Calls, Calls', c, y,
                                 IF IsRinging(c) THEN Cancellations(Calls, c, "CallerCancelled") ELSE {})
                               \o rest)
              ELSE Sends(x, rest) /\ UNCHANGED vars

\* One send of the session's handler: state.send_message queues the message
\* with the recipient's session.
SendNext(x) ==
    /\ sending[x] # <<>>
    /\ \E s \in Head(sending[x]) :
         LET left == Head(sending[x]) \ {s}
             rest == (IF left = {} THEN <<>> ELSE <<left>>) \o Tail(sending[x])
         IN  IF s.to \in connected
             THEN /\ down' = [down EXCEPT ![s.to] = Append(@, s.msg)]
                  /\ Sends(x, rest)
                  /\ UNCHANGED <<vars, inviting>>
             ELSE SendFails(x, s, rest) /\ UNCHANGED down
    /\ UNCHANGED <<connected, leaving, up, wire>>

\* refresh_call_update: a queued update is brought up to date when the session
\* gets to it, as long as its client is a party to the call.
RefreshCallUpdate(x, m) ==
    LET u == Snapshot(Calls, m.call)
    IN  IF m.type = "CallUpdate" /\ (IsCaller(m.call, x) \/ x \in AllParticipants(u))
        THEN ForRecipient(u, x)
        ELSE m

\* The session passes its next queued message on to the client.
ForwardMessage(x) ==
    /\ x \in connected
    /\ Idle(x)
    /\ down[x] # <<>>
    /\ wire' = [wire EXCEPT ![x] = Append(@, RefreshCallUpdate(x, Head(down[x])))]
    /\ down' = [down EXCEPT ![x] = Tail(@)]
    /\ UNCHANGED <<vars, connected, leaving, up, inviting, sending>>

\* unregister_client, when the connection is lost or the session is kicked: the
\* client is removed first, and what was queued for it is lost.
RemoveClient(x) ==
    /\ x \in connected
    /\ Idle(x)
    /\ connected' = connected \ {x}
    /\ leaving' = leaving \cup {x}
    /\ up' = [up EXCEPT ![x] = <<>>]
    /\ down' = [down EXCEPT ![x] = <<>>]
    /\ UNCHANGED <<vars, inviting, sending, wire>>

\* Then its calls are cleaned up.
CleanupCalls(x) ==
    /\ x \in leaving
    /\ Idle(x)
    /\ leaving' = leaving \ {x}
    /\ CleanupClientCalls(x)
    /\ Sends(x, CleanupSends(Calls, AfterLeavingOwnCall(Calls, x), Calls', x))
    /\ UNCHANGED <<connected, up, inviting, down, wire>>

\* register_client, for the next login of the client.
RegisterClient(x) ==
    /\ x \notin connected
    /\ connected' = connected \cup {x}
    /\ wire' = [wire EXCEPT ![x] = <<>>]
    /\ UNCHANGED <<vars, leaving, up, inviting, sending, down>>

SessionStep(x) ==
    \/ HandleMessage(x)
    \/ AttemptTarget(x)
    \/ FanOutInvitations(x)
    \/ FanOutUpdates(x)
    \/ SendNext(x)
    \/ ForwardMessage(x)
    \/ CleanupCalls(x)

\* No session has anything left to do and nothing is on its way to a client.
Quiet ==
    /\ leaving = {}
    /\ \A x \in Clients : Idle(x) /\ up[x] = <<>> /\ down[x] = <<>> /\ wire[x] = <<>>

=============================================================================
