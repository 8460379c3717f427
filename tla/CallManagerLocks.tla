-------------------------- MODULE CallManagerLocks --------------------------
(***************************************************************************)
(* The call manager at the granularity of its locks.  Sessions run on      *)
(* several threads; what an operation does under the ringing_calls guard   *)
(* is one step, and what it does before taking or after dropping that      *)
(* guard is a step of its own.  A session works off one message at a time, *)
(* and the VATSIM sync task unregisters clients beside their sessions.     *)
(***************************************************************************)
EXTENDS CallManager

CONSTANTS
    sync,        \* the VATSIM sync task
    Creator,     \* Creator[c]: the client that generated call id c
    MaxInFlight  \* bound on the operations caught between two of their locks

ASSUME SyncIsNoClient == sync \notin Clients

VARIABLE running  \* task -> what is left of the operation it is executing

Tasks == Clients \cup {sync}

Idle == [step |-> "idle"]

lockVars == <<vars, running>>

LocksInit == Init /\ running = [k \in Tasks |-> Idle]

\* The task's operation continues with (or, at Idle, ends after) this step.
Continue(k, rest) == running' = [running EXCEPT ![k] = rest]

At(k, step) == running[k].step = step

\* The task is free to start an operation that will drop its guard midway.
MayStart(k) ==
    /\ At(k, "idle")
    /\ Cardinality({j \in Tasks : ~At(j, "idle")}) < MaxInFlight

-----------------------------------------------------------------------------
(* Operations that hold the ringing_calls guard throughout.                 *)

Guarded(k) ==
    /\ At(k, "idle")
    /\ \E c \in CallIds :
         \/ \E t \in Targets, st \in SourceTargets[k] : \E resolved \in Resolves[t] :
              /\ Creator[c] = k \/ Participates(c, k)
              /\ resolved \ {k} # {}
              /\ AttemptCall(c, k, [client_id |-> k, target |-> st], t,
                             resolved \ {k})
         \/ \E t \in Targets : DropJoinedParticipant(c, k, t, "Requested")
         \/ AcceptCall(c, k)
         \/ EndCall(c, k)
    /\ UNCHANGED running

-----------------------------------------------------------------------------
(* mark_client_within_ringing_calls: the incoming entry goes before the     *)
(* guard is taken, the caller's busy marker after it was dropped.           *)

\* A session rejects a call it is rung for, or reports an error in it or in
\* the call it is in; an inviter whose invitation could not be delivered does
\* it for the callee.
MarkStart(k) ==
    /\ MayStart(k)
    /\ \E c \in CallIds, x \in Clients, error \in BOOLEAN :
         /\ \/ x = k /\ RingsFor(c, k)
            \/ x = k /\ Participates(c, k) /\ error
            \/ IsCaller(c, k) /\ RingsFor(c, x) /\ error
         /\ client_incoming_calls' = Uninvite(client_incoming_calls, c, {x})
         /\ Continue(k, [step |-> "mark", call |-> c, client |-> x,
                         error |-> error])
    /\ UNCHANGED <<ringing_calls, active_calls, client_active_calls>>

\* The operation ends with the guard, and the caller stays busy.
MarkKeepsCallerBusy(k) ==
    LET c == running[k].call
        x == running[k].client
        left == TargetsAfterFailure(ringing_calls[c], x)
    IN  /\ At(k, "mark")
        /\ ringing_calls' =
             IF ~RingsFor(c, x) THEN ringing_calls
             ELSE IF DOMAIN left = {} THEN Remove(ringing_calls, {c})
             ELSE [ringing_calls EXCEPT ![c].targets = left]
        /\ Continue(k, Idle)
        /\ UNCHANGED <<active_calls, client_incoming_calls, client_active_calls>>

\* Under the guard: mark the client, drop failed targets and an empty batch.
MarkUnderGuard(k) ==
    LET c == running[k].call
        x == running[k].client
        left == TargetsAfterFailure(ringing_calls[c], x)
    IN  /\ At(k, "mark")
        /\ IF RingsFor(c, x)
           THEN IF DOMAIN left = {}
                THEN /\ ringing_calls' = Remove(ringing_calls, {c})
                     /\ Continue(k, [step |-> "checkCaller",
                                     caller |-> ringing_calls[c].caller_id])
                ELSE /\ ringing_calls' = [ringing_calls EXCEPT
                                            ![c].targets = left]
                     /\ Continue(k, Idle)
           ELSE /\ UNCHANGED ringing_calls
                /\ Continue(k, IF running[k].error
                               THEN [step |-> "endCall", call |-> c, client |-> x]
                               ELSE Idle)
        /\ UNCHANGED <<active_calls, client_incoming_calls, client_active_calls>>

\* Without the guard: is the caller of the ended batch in an active call?
CheckCaller(k) ==
    /\ At(k, "checkCaller")
    /\ Continue(k, IF InAnyActiveCall(running[k].caller)
                   THEN Idle
                   ELSE [step |-> "releaseCaller", caller |-> running[k].caller])
    /\ UNCHANGED vars

\* Still without it: the caller's busy marker is removed, whatever it names.
ReleaseCaller(k) ==
    /\ At(k, "releaseCaller")
    /\ client_active_calls' = Remove(client_active_calls, {running[k].caller})
    /\ Continue(k, Idle)
    /\ UNCHANGED <<ringing_calls, active_calls, client_incoming_calls>>

\* end_call as the second half of call_error and report_link_failure.
EndCallLater(k) ==
    /\ At(k, "endCall")
    /\ EndCall(running[k].call, running[k].client)
    /\ Continue(k, Idle)

-----------------------------------------------------------------------------
(* drop_ringing_target: the target goes under the guard, then the incoming  *)
(* entries of its callees one by one, then the caller's busy marker.        *)

DropRinging(k) ==
    /\ MayStart(k)
    /\ \E c \in CallIds, t \in Targets :
         LET call  == ringing_calls[c]
             ended == DOMAIN call.targets = {t}
         IN  /\ IsRinging(c)
             /\ t \in DOMAIN call.targets
             /\ call.targets[t].source.client_id = k
             /\ ringing_calls' =
                  IF ended THEN Remove(ringing_calls, {c})
                  ELSE [ringing_calls EXCEPT ![c].targets = Remove(@, {t})]
             /\ Continue(k, [step |-> "uninvite", call |-> c,
                             callees |-> call.targets[t].notified_clients,
                             caller |-> IF ended THEN call.caller_id ELSE None])
    /\ UNCHANGED <<active_calls, client_incoming_calls, client_active_calls>>

UninviteNext(k) ==
    /\ At(k, "uninvite")
    /\ \E y \in running[k].callees :
         /\ client_incoming_calls' =
              Uninvite(client_incoming_calls, running[k].call, {y})
         /\ Continue(k, [running[k] EXCEPT !.callees = @ \ {y}])
    /\ UNCHANGED <<ringing_calls, active_calls, client_active_calls>>

\* The snapshot of the joined participants decides whether the caller is free.
UninviteDone(k) ==
    LET rest == running[k]
    IN  /\ At(k, "uninvite")
        /\ rest.callees = {}
        /\ Continue(k, IF rest.caller # None /\ ~Participates(rest.call, rest.caller)
                       THEN [step |-> "releaseDropped", call |-> rest.call,
                             caller |-> rest.caller]
                       ELSE Idle)
        /\ UNCHANGED vars

ReleaseDropped(k) ==
    /\ At(k, "releaseDropped")
    /\ client_active_calls' =
         ReleaseBusy(client_active_calls, running[k].call, {running[k].caller})
    /\ Continue(k, Idle)
    /\ UNCHANGED <<ringing_calls, active_calls, client_incoming_calls>>

-----------------------------------------------------------------------------
(* report_link_failure: the eviction is decided under active_calls only and *)
(* carried out by end_call afterwards.                                      *)

\* A reporter only ever evicts itself.
ReportLinkEvictsSelf(k) ==
    /\ MayStart(k)
    /\ \E c \in CallIds, peer \in Clients \ {k} :
         LET recorded == RecordLinkReport(active_calls[c], k, peer)
         IN  /\ {k, peer} \in FlakyLinks
             /\ Participates(c, k)
             /\ Participates(c, peer)
             /\ active_calls' = [active_calls EXCEPT ![c] = recorded]
             /\ Continue(k, IF /\ LinkConfirmed(recorded, k, peer)
                               /\ LaterJoiner(recorded, k, peer) = k
                            THEN [step |-> "endCall", call |-> c, client |-> k]
                            ELSE Idle)
    /\ UNCHANGED <<ringing_calls, client_incoming_calls, client_active_calls>>

ReportLink(k) ==
    /\ MayStart(k)
    /\ \E c \in CallIds, peer \in Clients \ {k} :
         LET recorded == RecordLinkReport(active_calls[c], k, peer)
         IN  /\ {k, peer} \in FlakyLinks
             /\ Participates(c, k)
             /\ Participates(c, peer)
             /\ active_calls' = [active_calls EXCEPT ![c] = recorded]
             /\ Continue(k, IF LinkConfirmed(recorded, k, peer)
                            THEN [step |-> "endCall", call |-> c,
                                  client |-> LaterJoiner(recorded, k, peer)]
                            ELSE Idle)
    /\ UNCHANGED <<ringing_calls, client_incoming_calls, client_active_calls>>

-----------------------------------------------------------------------------
(* cleanup_client_calls: between leaving its own call and lapsing as an     *)
(* invitee, the client's incoming entries are taken out without the guard.  *)

CleanupStart(k) ==
    /\ MayStart(k)
    /\ \E x \in Clients :
         /\ k \in {x, sync}
         /\ Becomes(AfterLeavingOwnCall(Calls, x))
         /\ Continue(k, [step |-> "takeIncoming", client |-> x])

TakeIncoming(k) ==
    LET x == running[k].client
    IN  /\ At(k, "takeIncoming")
        /\ client_incoming_calls' = [client_incoming_calls EXCEPT ![x] = Empty]
        /\ Continue(k, IF client_incoming_calls[x] = Empty
                       THEN Idle
                       ELSE [step |-> "lapse", client |-> x,
                             invitations |-> client_incoming_calls[x]])
        /\ UNCHANGED <<ringing_calls, active_calls, client_active_calls>>

LapseInvitations(k) ==
    /\ At(k, "lapse")
    /\ Becomes(AfterInvitationsLapse(Calls, running[k].client,
                                     running[k].invitations))
    /\ Continue(k, Idle)

-----------------------------------------------------------------------------
LocksNext ==
    \/ \E k \in Clients :
         \/ Guarded(k)
         \/ MarkStart(k)
         \/ MarkUnderGuard(k)
         \/ CheckCaller(k)
         \/ ReleaseCaller(k)
         \/ EndCallLater(k)
         \/ DropRinging(k)
         \/ UninviteNext(k)
         \/ UninviteDone(k)
         \/ ReleaseDropped(k)
         \/ ReportLink(k)
    \/ \E k \in Tasks :
         \/ CleanupStart(k)
         \/ TakeIncoming(k)
         \/ LapseInvitations(k)
    \/ \E c \in CallIds, pair \in FlakyLinks :
         LinkReportExpires(c, pair) /\ UNCHANGED running

LocksSpec == LocksInit /\ [][LocksNext]_lockVars

-----------------------------------------------------------------------------
Quiescent == \A k \in Tasks : At(k, "idle")

\* Whatever interleaves, nobody stays marked busy once the server is at rest:
\* a marker without a call would refuse the client every call it tries to
\* start or accept (StartCallError::CallerBusy, AcceptorBusy).
NobodyStaysBusy ==
    Quiescent =>
        \A x \in DOMAIN client_active_calls :
            LET c == client_active_calls[x]
            IN  Participates(c, x) \/ IsCaller(c, x)

\* A link both endpoints reported dead does not stay: as long as its report
\* is there, some task is about to evict one of the two (report_link_failure
\* decides under one lock and evicts under another).
ConfirmedLinkIsBeingEvicted ==
    \A c \in DOMAIN active_calls :
        \A pair \in DOMAIN active_calls[c].link_reports :
            /\ pair \subseteq ParticipantsOf(active_calls[c])
            /\ active_calls[c].link_reports[pair].reporters = pair =>
                 \E k \in Tasks : /\ At(k, "endCall")
                                   /\ running[k].call = c
                                   /\ running[k].client \in pair

\* ADR 0002 rule 7 and AcceptCallOutcome::AcceptorBusy: a call cannot be
\* accepted until the current one ends, so nobody is in two calls at once.
OneActiveCallPerClient ==
    \A x \in Clients : \A c, o \in DOMAIN active_calls :
        Participates(c, x) /\ Participates(o, x) => c = o

=============================================================================
