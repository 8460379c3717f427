----------------------------- MODULE CallManager -----------------------------
(***************************************************************************)
(* The call manager of the signaling server                                *)
(* (vacs-server/src/state/calls/manager.rs), one action per public         *)
(* operation that changes state, each operation taken as one step.         *)
(* CallManagerLocks splits the operations at the points where the code     *)
(* releases its locks.  A refused operation changes nothing and is not an  *)
(* action.                                                                 *)
(***************************************************************************)
EXTENDS CallState

CONSTANTS
    Resolves,       \* Resolves[t]: the client sets a target can resolve to
    SourceTargets,  \* SourceTargets[x]: the targets x's call source maps to
    FlakyLinks,     \* pairs of clients whose peer link may die
    MaxJoins        \* bound on the joins one call records

ASSUME ResolutionTypes ==
    /\ Resolves \in [Targets -> SUBSET SUBSET Clients]
    /\ SourceTargets \in [Clients -> SUBSET Targets]
    /\ FlakyLinks \subseteq SUBSET Clients

VARIABLES
    ringing_calls,          \* call id -> RingingCallEntry
    active_calls,           \* call id -> ActiveCallEntry
    client_incoming_calls,  \* client -> (call id -> target it is rung through)
    client_active_calls     \* client -> the call it is in or is calling with

vars == <<ringing_calls, active_calls, client_incoming_calls,
          client_active_calls>>

DropReasons == {"Requested", "AutoHangup"}

Init ==
    /\ ringing_calls = Empty
    /\ active_calls = Empty
    /\ client_incoming_calls = [x \in Clients |-> Empty]
    /\ client_active_calls = Empty

-----------------------------------------------------------------------------
(* Queries.                                                                 *)

IsRinging(c) == c \in DOMAIN ringing_calls

IsActive(c) == c \in DOMAIN active_calls

\* ActiveCallEntry::involves
Participates(c, x) == IsActive(c) /\ x \in ParticipantsOf(active_calls[c])

\* x opened the invite batch that is ringing for c.
IsCaller(c, x) == IsRinging(c) /\ ringing_calls[c].caller_id = x

InAnyActiveCall(x) == \E c \in DOMAIN active_calls : Participates(c, x)

\* The condition of mark_client_within_ringing_calls for marking anything.
RingsFor(c, x) ==
    /\ IsRinging(c)
    /\ ringing_calls[c].caller_id # x
    /\ RingingTargetsOf(ringing_calls[c], x) # {}

\* The targets that ring already are not counted.
InviteExceedsMaxJoined(c, x, targets) ==
    LET joined == IF IsActive(c) THEN active_calls[c].participants ELSE Empty
    IN  Cardinality(DOMAIN joined) + Cardinality(targets)
          + (IF x \in DOMAIN joined THEN 0 ELSE 1) > max_conf_size

\* invite_exceeds_max_conf_size
InviteExceedsMaxConfSize(c, x, targets) ==
    LET ringing == IF IsRinging(c) THEN DOMAIN ringing_calls[c].targets ELSE {}
        joined  == IF IsActive(c) THEN active_calls[c].participants ELSE Empty
        added   == {t \in targets : t \notin ringing /\ t \notin Range(joined)}
    IN  Cardinality(DOMAIN joined) + Cardinality(ringing)
          + Cardinality(added) + (IF x \in DOMAIN joined THEN 0 ELSE 1)
        > max_conf_size

\* validate_call_attempt
ValidCallAttempt(c, x, t, notified) ==
    IF x \in DOMAIN client_active_calls
    THEN /\ client_active_calls[x] = c
         /\ IsActive(c) =>
              /\ active_calls[c].conference_leader \in {None, x}
              /\ t \notin Range(active_calls[c].participants)
              /\ ParticipantsOf(active_calls[c]) \cap notified = {}
         /\ IsRinging(c) =>
              /\ ringing_calls[c].caller_id = x
              /\ t \notin DOMAIN ringing_calls[c].targets
              /\ InvitedClients(ringing_calls[c]) \cap notified = {}
    ELSE ~IsActive(c) /\ ~IsRinging(c)

-----------------------------------------------------------------------------
(* Operations.                                                              *)

\* attempt_call, for one resolved target of an invite whose size was checked.
AttemptCall(c, x, source, t, notified) ==
    LET entry == NewRingingTarget(source, notified)
    IN  /\ ~InviteExceedsMaxConfSize(c, x, {t})
        /\ ValidCallAttempt(c, x, t, notified)
        /\ ringing_calls' =
             Put(ringing_calls, c,
                 IF IsRinging(c)
                 THEN [ringing_calls[c] EXCEPT !.targets = Put(@, t, entry)]
                 ELSE [caller_id |-> x, targets |-> Put(Empty, t, entry)])
        /\ client_active_calls' = Put(client_active_calls, x, c)
        /\ client_incoming_calls' =
             [y \in Clients |->
                IF y \in notified THEN Put(client_incoming_calls[y], c, t)
                                  ELSE client_incoming_calls[y]]
        /\ UNCHANGED active_calls

\* The caller's busy marker goes even while it is in a call.
MarkClientFreesCaller(c, x) ==
    LET left  == TargetsAfterFailure(ringing_calls[c], x)
        ended == DOMAIN left = {}
    IN  /\ ringing_calls' =
             IF ended THEN Remove(ringing_calls, {c})
             ELSE [ringing_calls EXCEPT ![c].targets = left]
        /\ client_incoming_calls' = Uninvite(client_incoming_calls, c, {x})
        /\ client_active_calls' =
             IF ended THEN Remove(client_active_calls, {ringing_calls[c].caller_id})
             ELSE client_active_calls
        /\ UNCHANGED active_calls

\* mark_client_within_ringing_calls, for a client that rings; with its last
\* target the batch goes, and with it the caller's busy marker.
MarkClientWithinRingingCalls(c, x) ==
    LET caller == ringing_calls[c].caller_id
        left   == TargetsAfterFailure(ringing_calls[c], x)
        ended  == DOMAIN left = {}
    IN  /\ ringing_calls' =
             IF ended THEN Remove(ringing_calls, {c})
             ELSE [ringing_calls EXCEPT ![c].targets = left]
        /\ client_incoming_calls' = Uninvite(client_incoming_calls, c, {x})
        /\ client_active_calls' =
             IF ended /\ ~InAnyActiveCall(caller)
             THEN Remove(client_active_calls, {caller})
             ELSE client_active_calls
        /\ UNCHANGED active_calls

\* reject_call and fail_ringing_recipient.
RejectCall(c, x) ==
    IF RingsFor(c, x)
    THEN MarkClientWithinRingingCalls(c, x)
    ELSE /\ client_incoming_calls' = Uninvite(client_incoming_calls, c, {x})
         /\ UNCHANGED <<ringing_calls, active_calls, client_active_calls>>

\* accept_call refuses a client that is in a call or calling (AcceptorBusy).
AcceptorIsFree(x) == x \notin DOMAIN client_active_calls

\* The third to join leads the conference.
AcceptorLeads(source, x) == x

\* accept_call: the inviter of the third participant leads the conference.
LeaderAfter(source, x) == source.client_id

\* accept_call.  Should the acceptor be rung through several targets, the
\* code merges them: one gives the source, one the target it joins under.
AcceptCall(c, x) ==
    LET call    == ringing_calls[c]
        answers == AnsweredTargets(call, x)
        rung    == UNION {call.targets[t].notified_clients : t \in answers}
    IN  /\ AcceptorIsFree(x)
        /\ IsRinging(c)
        /\ answers # {}
        /\ IsActive(c) => active_calls[c].next_join_seq < MaxJoins
        /\ ringing_calls' =
             IF answers = DOMAIN call.targets
             THEN Remove(ringing_calls, {c})
             ELSE [ringing_calls EXCEPT ![c].targets = Remove(@, answers)]
        /\ client_incoming_calls' = Uninvite(client_incoming_calls, c, rung)
        /\ \E t, s \in answers :
             LET source == call.targets[s].source
                 joined == Joined(active_calls[c], x, t)
                 begun  == Joined(NewActiveCall, call.caller_id, source.target)
             IN  active_calls' =
                   Put(active_calls, c,
                       IF ~IsActive(c) THEN Joined(begun, x, t)
                       ELSE IF joined.conference_leader = None
                       THEN [joined EXCEPT !.conference_leader = LeaderAfter(source, x)]
                       ELSE joined)
        /\ client_active_calls' = Put(client_active_calls, x, c)

\* The callees of the dropped target keep it in their index.
DropRingingTargetSilently(c, x, t) ==
    LET call  == ringing_calls[c]
        ended == DOMAIN call.targets = {t}
    IN  /\ IsRinging(c)
        /\ t \in DOMAIN call.targets
        /\ call.targets[t].source.client_id = x
        /\ ringing_calls' =
             IF ended THEN Remove(ringing_calls, {c})
             ELSE [ringing_calls EXCEPT ![c].targets = Remove(@, {t})]
        /\ client_active_calls' =
             IF ended /\ ~Participates(c, call.caller_id)
             THEN ReleaseBusy(client_active_calls, c, {call.caller_id})
             ELSE client_active_calls
        /\ UNCHANGED <<active_calls, client_incoming_calls>>

\* drop_ringing_target
DropRingingTarget(c, x, t) ==
    LET call  == ringing_calls[c]
        ended == DOMAIN call.targets = {t}
    IN  /\ IsRinging(c)
        /\ t \in DOMAIN call.targets
        /\ call.targets[t].source.client_id = x
        /\ ringing_calls' =
             IF ended THEN Remove(ringing_calls, {c})
             ELSE [ringing_calls EXCEPT ![c].targets = Remove(@, {t})]
        /\ client_incoming_calls' =
             Uninvite(client_incoming_calls, c, call.targets[t].notified_clients)
        /\ client_active_calls' =
             IF ended /\ ~Participates(c, call.caller_id)
             THEN ReleaseBusy(client_active_calls, c, {call.caller_id})
             ELSE client_active_calls
        /\ UNCHANGED active_calls

\* drop_joined_participant: an expired invitation timer (AutoHangup) never
\* removes a participant.
DropJoinedParticipant(c, x, t, reason) ==
    /\ reason # "AutoHangup"
    /\ Participates(c, x)
    /\ Cardinality(ParticipantsOf(active_calls[c])) > 2
    /\ active_calls[c].conference_leader = x
    /\ \E dropped \in ParticipantsWithoutSelf(active_calls[c], x) :
         /\ active_calls[c].participants[dropped] = t
         /\ active_calls' =
              [active_calls EXCEPT ![c] = WithoutParticipant(@, dropped)]
         /\ client_active_calls' = ReleaseBusy(client_active_calls, c, {dropped})
    /\ UNCHANGED <<ringing_calls, client_incoming_calls>>

\* drop_target: a target that does not ring is looked for among the joined.
DropTarget(c, x, t, reason) ==
    \/ DropRingingTarget(c, x, t)
    \/ /\ ~(IsRinging(c) /\ t \in DOMAIN ringing_calls[c].targets)
       /\ DropJoinedParticipant(c, x, t, reason)

\* The four maps as one value, and the step to another such value.
Calls == [ringing |-> ringing_calls, active |-> active_calls,
          incoming |-> client_incoming_calls, busy |-> client_active_calls]

Becomes(s) ==
    /\ ringing_calls' = s.ringing
    /\ active_calls' = s.active
    /\ client_incoming_calls' = s.incoming
    /\ client_active_calls' = s.busy

\* The effect of end_call on s: the batch x opened is cancelled, and x leaves
\* the call or tears it down together with whatever still rings in it.
AfterEndCall(s, c, x) ==
    LET rings   == c \in DOMAIN s.ringing
        owns    == rings /\ s.ringing[c].caller_id = x
        member  == c \in DOMAIN s.active /\ x \in ParticipantsOf(s.active[c])
        ends    == member /\ DepartureEndsCall(s.active[c], x)
        cancels == owns \/ (ends /\ rings)
        leaving == IF ends THEN ParticipantsOf(s.active[c])
                   ELSE IF member THEN {x} ELSE {}
    IN  [ringing  |-> IF cancels THEN Remove(s.ringing, {c}) ELSE s.ringing,
         active   |-> IF ends THEN Remove(s.active, {c})
                      ELSE IF member
                      THEN [s.active EXCEPT ![c] = WithoutParticipant(@, x)]
                      ELSE s.active,
         incoming |-> IF cancels
                      THEN Uninvite(s.incoming, c, InvitedClients(s.ringing[c]))
                      ELSE s.incoming,
         busy     |-> ReleaseBusy(Remove(s.busy, IF owns THEN {x} ELSE {}),
                                  c, leaving)]

EndCall(c, x) == Becomes(AfterEndCall(Calls, c, x))

\* call_error: a client that is not rung leaves the call like end_call.
CallError(c, x) ==
    IF RingsFor(c, x)
    THEN MarkClientWithinRingingCalls(c, x)
    ELSE Becomes(AfterEndCall([Calls EXCEPT !.incoming = Uninvite(@, c, {x})], c, x))

\* report_link_failure: once both endpoints reported the link, the one that
\* joined later leaves the call.
ReportLinkFailure(c, reporter, peer) ==
    LET recorded == RecordLinkReport(active_calls[c], reporter, peer)
        reported == [Calls EXCEPT !.active[c] = recorded]
    IN  /\ reporter # peer
        /\ Participates(c, reporter)
        /\ Participates(c, peer)
        /\ IF LinkConfirmed(recorded, reporter, peer)
           THEN Becomes(AfterEndCall(reported, c,
                                     LaterJoiner(recorded, reporter, peer)))
           ELSE Becomes(reported)

\* LINK_REPORT_TTL passes without the pair being reported again.
LinkReportExpires(c, pair) ==
    /\ IsActive(c)
    /\ pair \in DOMAIN active_calls[c].link_reports
    /\ active_calls[c].link_reports[pair].fresh
    /\ active_calls' =
         [active_calls EXCEPT ![c].link_reports[pair].fresh = FALSE]
    /\ UNCHANGED <<ringing_calls, client_incoming_calls, client_active_calls>>

\* The first part of cleanup_client_calls: the client's busy marker goes, and
\* with it the client leaves the call the marker named.
AfterLeavingOwnCall(s, x) ==
    IF x \in DOMAIN s.busy
    THEN LET after == AfterEndCall(s, s.busy[x], x)
         IN  [after EXCEPT !.busy = Remove(@, {x})]
    ELSE s

\* The second part: the client, rung for the given calls through the given
\* targets, stops ringing in them; a batch nobody is left to answer goes.
AfterInvitationsLapse(s, x, invitations) ==
    LET rung  == DOMAIN invitations \cap DOMAIN s.ringing
        after == [c \in DOMAIN s.ringing |->
                    IF c \in rung
                    THEN WithoutInvitee(s.ringing[c], x, invitations[c])
                    ELSE s.ringing[c]]
        ended == {c \in rung : AllTargetsFailed(after[c])}
        idle  == {y \in {s.ringing[c].caller_id : c \in ended} :
                    \A a \in DOMAIN s.active : y \notin ParticipantsOf(s.active[a])}
    IN  [s EXCEPT !.ringing = Remove(after, ended),
                  !.busy = Remove(@, idle)]

\* cleanup_client_calls, when a client's session is unregistered.
CleanupClientCalls(x) ==
    LET left == AfterLeavingOwnCall(Calls, x)
        gone == [left EXCEPT !.incoming[x] = Empty]
    IN  Becomes(AfterInvitationsLapse(gone, x, left.incoming[x]))

-----------------------------------------------------------------------------
Next ==
    \/ \E c \in CallIds, x \in Clients, t \in Targets :
         \/ \E st \in SourceTargets[x], resolved \in Resolves[t] :
              /\ resolved \ {x} # {}
              /\ AttemptCall(c, x, [client_id |-> x, target |-> st], t,
                             resolved \ {x})
         \/ \E reason \in DropReasons : DropTarget(c, x, t, reason)
    \/ \E c \in CallIds, x \in Clients :
         \/ AcceptCall(c, x)
         \/ RejectCall(c, x)
         \/ CallError(c, x)
         \/ EndCall(c, x)
    \/ \E c \in CallIds, pair \in FlakyLinks :
         \/ \E x, y \in pair : ReportLinkFailure(c, x, y)
         \/ LinkReportExpires(c, pair)
    \/ \E x \in Clients : CleanupClientCalls(x)

Spec == Init /\ [][Next]_vars

-----------------------------------------------------------------------------
(* Properties.                                                              *)

\* The four maps of CallManager hold values of their Rust types.
TypeOK ==
    /\ IsMap(ringing_calls, CallIds, Range(ringing_calls))
    /\ \A call \in Range(ringing_calls) : IsRingingCallEntry(call)
    /\ IsMap(active_calls, CallIds, Range(active_calls))
    /\ \A call \in Range(active_calls) : IsActiveCallEntry(call)
    /\ client_incoming_calls \in [Clients -> Range(client_incoming_calls)]
    /\ \A calls \in Range(client_incoming_calls) : IsMap(calls, CallIds, Targets)
    /\ IsMap(client_active_calls, Clients, CallIds)

\* A client's busy marker names exactly the call it takes part in or opened a
\* ringing batch for: nobody is in two calls, and nobody is left marked busy
\* by a call that is gone (attempt_call, accept_call and the teardowns keep
\* client_active_calls in step with the two call maps).
BusyMarkerIsExact ==
    \A x \in Clients, c \in CallIds :
        (x \in DOMAIN client_active_calls /\ client_active_calls[x] = c)
            <=> (Participates(c, x) \/ IsCaller(c, x))

\* client_incoming_calls is the inverse of the notified sets: a disconnecting
\* client is found in every call that rings it, and nowhere else.
IncomingIndexIsExact ==
    \A x \in Clients, c \in CallIds, t \in Targets :
        (c \in DOMAIN client_incoming_calls[x] /\ client_incoming_calls[x][c] = t)
            <=> (/\ IsRinging(c)
                 /\ t \in DOMAIN ringing_calls[c].targets
                 /\ x \in ringing_calls[c].targets[t].notified_clients)

\* ADR 0002: a call has at least two participants, a leader exactly while
\* three or more joined, and the leader is one of them.
LeaderOnlyInConference ==
    \A c \in DOMAIN active_calls :
        LET call == active_calls[c]
        IN  /\ Cardinality(ParticipantsOf(call)) >= 2
            /\ call.conference_leader # None
                 <=> Cardinality(ParticipantsOf(call)) >= 3
            /\ call.conference_leader \in ParticipantsOf(call) \cup {None}

\* Invitations into a running call were opened by a participant that is its
\* leader if it has one, so pending invitations never outlive their inviter;
\* nobody is rung by a call they are in or by two targets of one call, and
\* every target still has someone to answer it.
PendingInvitationsAreSound ==
    \A c \in DOMAIN ringing_calls :
        LET call == ringing_calls[c]
            T    == DOMAIN call.targets
        IN  /\ T # {}
            /\ IsActive(c) => /\ Participates(c, call.caller_id)
                              /\ active_calls[c].conference_leader
                                   \in {None, call.caller_id}
            /\ \A t \in T :
                 /\ call.targets[t].source.client_id = call.caller_id
                 /\ call.targets[t].notified_clients # {}
                 /\ call.targets[t].notified_clients
                      \cap call.targets[t].failed_clients = {}
                 /\ call.caller_id \notin call.targets[t].notified_clients
                 /\ \A x \in call.targets[t].notified_clients :
                      ~Participates(c, x)
            /\ \A t, u \in T : t # u =>
                 call.targets[t].notified_clients
                   \cap call.targets[u].notified_clients = {}

\* Who joined later is always decidable, and a dead-link report only ever
\* concerns two current participants, one of whom has not confirmed it.
JoinOrderAndReportsMatchParticipants ==
    \A c \in DOMAIN active_calls :
        LET call == active_calls[c]
        IN  /\ DOMAIN call.join_order = ParticipantsOf(call)
            /\ \A x \in ParticipantsOf(call) :
                 call.join_order[x] < call.next_join_seq
            /\ \A x, y \in ParticipantsOf(call) :
                 x # y => call.join_order[x] # call.join_order[y]
            /\ \A pair \in DOMAIN call.link_reports :
                 /\ pair \subseteq ParticipantsOf(call)
                 /\ \E x \in pair : call.link_reports[pair].reporters = {x}

\* The invite-time size check is enough: joined participants, ringing targets
\* and a caller that has not joined yet never exceed max_conf_size.
ConferenceSizeIsBounded ==
    \A c \in CallIds :
        LET joined  == IF IsActive(c) THEN ParticipantsOf(active_calls[c]) ELSE {}
            ringing == IF IsRinging(c) THEN DOMAIN ringing_calls[c].targets ELSE {}
            caller  == IF IsRinging(c) THEN {ringing_calls[c].caller_id} ELSE {}
        IN  Cardinality(joined \cup caller) + Cardinality(ringing) <= max_conf_size

\* ADR 0002 rule 4: leadership never transfers.  While a call goes on its
\* leader stays or the call shrinks back to two, and a leader that is gone has
\* taken the call with it.
LeadershipNeverTransfers ==
    [][\A c \in DOMAIN active_calls \cap DOMAIN active_calls' :
          LET old == active_calls[c].conference_leader
              new == active_calls'[c].conference_leader
          IN  old # None =>
                /\ old \in ParticipantsOf(active_calls'[c])
                /\ new \in {old, None}]_vars

\* Nobody is pulled into a call: a new participant was being rung by that
\* call, or is the caller whose first invitation was just answered.
JoinsOnlyByInvitation ==
    [][\A c \in DOMAIN active_calls' :
          \A x \in ParticipantsOf(active_calls'[c]) :
             Participates(c, x)
             \/ /\ IsRinging(c)
                /\ \/ x \in InvitedClients(ringing_calls[c])
                   \/ ~IsActive(c) /\ x = ringing_calls[c].caller_id]_vars

\* What clients see of the running calls: who takes part and who leads.
members == [c \in CallIds |->
    IF IsActive(c) THEN ParticipantsOf(active_calls[c]) ELSE {}]

leader == [c \in CallIds |->
    IF IsActive(c) THEN active_calls[c].conference_leader ELSE None]

Ideal == INSTANCE Conference WITH members <- members, leader <- leader

\* The manager implements the abstract conference: a call starts with two free
\* clients, grows one invited client at a time under one leader, shrinks by one
\* or ends as a whole, and every other step is invisible.
ImplementsConference == Ideal!Spec

=============================================================================
