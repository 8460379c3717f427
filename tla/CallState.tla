------------------------------ MODULE CallState ------------------------------
(***************************************************************************)
(* The data of the signaling server's call state (vacs-server,             *)
(* state/calls.rs) and the pure steps the call manager                     *)
(* (state/calls/manager.rs) is built from.  A HashMap is a function whose  *)
(* domain is the map's key set.  A CallSource is the inviting client with  *)
(* the CallTarget it converts to; metrics, spans and messages are left     *)
(* out.  `rejected_clients` and `errored_clients` are only ever read       *)
(* together, so one set stands for both.                                   *)
(***************************************************************************)
EXTENDS Naturals, FiniteSets, Functions

CONSTANTS
    CallIds,        \* call ids (client generated UUIDs)
    Clients,        \* client ids
    Targets,        \* CallTargets: a client, a position or a station
    None,           \* Option::None for a client id
    max_conf_size   \* configured limit on the size of a call

ASSUME NoneIsNoClient == None \notin Clients

ASSUME ClientsAreFinite == IsFiniteSet(Clients)

ASSUME MaxConfSizeIsNat == max_conf_size \in Nat

-----------------------------------------------------------------------------
(* Maps.                                                                    *)

\* m is a map from keys in K to values in V.
IsMap(m, K, V) == DOMAIN m \subseteq K /\ m \in [DOMAIN m -> V]

Empty == [k \in {} |-> None]

Put(m, k, v) == [j \in DOMAIN m \cup {k} |-> IF j = k THEN v ELSE m[j]]

Remove(m, ks) == Restrict(m, DOMAIN m \ ks)

-----------------------------------------------------------------------------
(* Ringing calls.                                                           *)

RingingTargetEntry ==
    [source : [client_id : Clients, target : Targets],
     notified_clients : SUBSET Clients,
     failed_clients : SUBSET Clients]

IsRingingCallEntry(call) ==
    /\ call \in [caller_id : Clients, targets : {call.targets}]
    /\ IsMap(call.targets, Targets, RingingTargetEntry)

NewRingingTarget(source, notified) ==
    [source |-> source, notified_clients |-> notified, failed_clients |-> {}]

\* mark_rejected and mark_errored: a no-op unless the client was notified.
MarkFailed(entry, client) ==
    IF client \in entry.notified_clients
    THEN [entry EXCEPT !.notified_clients = @ \ {client},
                       !.failed_clients = @ \cup {client}]
    ELSE entry

\* RingingTargetEntry::all_rejected_or_errored
AllRejectedOrErrored(entry) == entry.notified_clients = {}

\* RingingCallEntry::all_targets_failed
AllTargetsFailed(call) ==
    \A t \in DOMAIN call.targets : AllRejectedOrErrored(call.targets[t])

\* The keys of RingingCallEntry::invited_participants.
InvitedClients(call) ==
    UNION {call.targets[t].notified_clients : t \in DOMAIN call.targets}

\* The targets through which a client is being rung and has not failed yet.
RingingTargetsOf(call, client) ==
    {t \in DOMAIN call.targets :
        /\ client \in call.targets[t].notified_clients
        /\ client \notin call.targets[t].failed_clients}

\* A client that already failed a target answers it all the same.
AnsweredTargetsWithFailed(call, client) ==
    {t \in DOMAIN call.targets :
        client \in call.targets[t].notified_clients
                     \cup call.targets[t].failed_clients}

\* The targets an accepting client answers: accept_call takes them all.
AnsweredTargets(call, client) ==
    {t \in DOMAIN call.targets :
        client \in call.targets[t].notified_clients}

\* The retain loop of mark_client_within_ringing_calls: the client fails every
\* target it is rung through, and a target nobody is left to answer goes.
TargetsAfterFailure(call, client) ==
    LET marked == RingingTargetsOf(call, client)
        after  == [t \in DOMAIN call.targets |->
                     IF t \in marked THEN MarkFailed(call.targets[t], client)
                                     ELSE call.targets[t]]
    IN  Remove(after, {t \in marked : AllRejectedOrErrored(after[t])})

\* A target nobody is left to answer stays in the batch.
WithoutInviteeKeepsTarget(call, client, t) ==
    IF t \in DOMAIN call.targets
    THEN [call EXCEPT !.targets[t].notified_clients = @ \ {client}]
    ELSE call

\* A disconnected client no longer answers target t of a ringing call, in
\* cleanup_client_calls; a target nobody is left to answer goes.
WithoutInvitee(call, client, t) ==
    LET entry == [call.targets[t] EXCEPT !.notified_clients = @ \ {client},
                                         !.failed_clients = @ \ {client}]
    IN  IF t \notin DOMAIN call.targets THEN call
        ELSE IF AllRejectedOrErrored(entry)
        THEN [call EXCEPT !.targets = Remove(@, {t})]
        ELSE [call EXCEPT !.targets = Put(@, t, entry)]

-----------------------------------------------------------------------------
(* Active calls.  Link reports are keyed by the unordered pair of           *)
(* endpoints; `fresh` is whether the report is younger than                 *)
(* LINK_REPORT_TTL.                                                         *)

Links == {{x, y} : x, y \in Clients}

IsActiveCallEntry(call) ==
    /\ call \in [conference_leader : Clients \cup {None},
                participants : {call.participants},
                join_order : {call.join_order},
                next_join_seq : Nat,
                link_reports : {call.link_reports}]
    /\ IsMap(call.participants, Clients, Targets)
    /\ IsMap(call.join_order, Clients, Nat)
    /\ IsMap(call.link_reports, Links,
             [reporters : SUBSET Clients, fresh : BOOLEAN])

\* ActiveCallEntry::new, before the participants it starts with.
NewActiveCall ==
    [conference_leader |-> None, participants |-> Empty, join_order |-> Empty,
     next_join_seq |-> 0, link_reports |-> Empty]

\* ActiveCallEntry::record_join
RecordJoin(call, client) ==
    [call EXCEPT !.join_order = Put(@, client, call.next_join_seq),
                 !.next_join_seq = @ + 1]

\* accept_call adds a participant under the target it answered for.
Joined(call, client, t) ==
    RecordJoin([call EXCEPT !.participants = Put(@, client, t)], client)

\* The reports about a participant that left stay.
ForgetParticipantKeepsReports(call, client) ==
    [call EXCEPT !.join_order = Remove(@, {client})]

\* ActiveCallEntry::forget_participant
ForgetParticipant(call, client) ==
    [call EXCEPT !.join_order = Remove(@, {client}),
                 !.link_reports = Remove(@, {p \in DOMAIN @ : client \in p})]

\* ActiveCallEntry::link_key
LinkKey(a, b) == {a, b}

\* ActiveCallEntry::record_link_report_at: an expired report starts over.
RecordLinkReport(call, reporter, peer) ==
    LET key   == LinkKey(reporter, peer)
        valid == key \in DOMAIN call.link_reports
                 /\ call.link_reports[key].fresh
        known == IF valid THEN call.link_reports[key].reporters ELSE {}
    IN  [call EXCEPT !.link_reports =
            Put(@, key, [reporters |-> known \cup {reporter}, fresh |-> TRUE])]

\* The boolean record_link_report returns: the peer reported as well.
LinkConfirmed(call, reporter, peer) ==
    peer \in call.link_reports[LinkKey(reporter, peer)].reporters

\* ActiveCallEntry::later_joiner; a participant without a sequence number
\* counts as the latest.
LaterJoiner(call, a, b) ==
    LET seq == call.join_order
    IN  IF a \notin DOMAIN seq \/ (b \in DOMAIN seq /\ seq[a] >= seq[b])
        THEN a
        ELSE b

ParticipantsOf(call) == DOMAIN call.participants

ParticipantsWithoutSelf(call, client) == ParticipantsOf(call) \ {client}

\* A departing leader does not end the conference.
DepartureEndsCallOfTwo(call, client) ==
    Cardinality(ParticipantsWithoutSelf(call, client)) <= 1

\* The shared condition of end_call and cleanup_client_calls under which the
\* departure of a participant tears the whole call down.
DepartureEndsCall(call, client) ==
    \/ call.conference_leader = client
    \/ Cardinality(ParticipantsWithoutSelf(call, client)) <= 1

\* A participant is removed and the call goes on: end_call,
\* cleanup_client_calls and drop_joined_participant.
WithoutParticipant(call, client) ==
    LET rest == [ForgetParticipant(call, client) EXCEPT
                    !.participants = Remove(@, {client})]
    IN  IF Cardinality(ParticipantsOf(rest)) <= 2
        THEN [rest EXCEPT !.conference_leader = None]
        ELSE rest

-----------------------------------------------------------------------------
(* The two per-client indices.                                              *)

\* remove_client_incoming_call for every client of a set; an inner map that
\* became empty is dropped by the code, so it reads the same as Empty.
Uninvite(incoming, call_id, clients) ==
    [x \in Clients |-> IF x \in clients THEN Remove(incoming[x], {call_id})
                                        ELSE incoming[x]]

\* The busy markers of a set of clients are cleared, each only while it still
\* names this call.
ReleaseBusy(busy, call_id, clients) ==
    Remove(busy, {x \in DOMAIN busy : x \in clients /\ busy[x] = call_id})

=============================================================================
