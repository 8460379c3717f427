---------------------------- MODULE LocksProofs ----------------------------
(***************************************************************************)
(* The call manager at the granularity of its locks, proved for all values *)
(* of the constants: any number of calls, clients and operations that are  *)
(* between two of their locks.  The busy markers are no longer exact while *)
(* operations are under way, so the proofs rest on what every locked step  *)
(* keeps on its own (Ruled of CallProofs) and on what a marker that is     *)
(* there still says.                                                       *)
(***************************************************************************)
EXTENDS MembershipProofs, CallManagerLocks

-----------------------------------------------------------------------------
(* The invariant of the maps.                                               *)

\* Call c of the state s rings client y.
InviteeIn(s, c, y) ==
    /\ c \in DOMAIN s.ringing
    /\ \E t \in DOMAIN s.ringing[c].targets : y \in s.ringing[c].targets[t].notified_clients

\* Whoever is rung by a call is neither in it nor calling with it.
InviteesOutside(s) ==
    \A c, y : InviteeIn(s, c, y) => ~MemberIn(s, c, y) /\ ~CallerIn(s, c, y)

\* A busy marker that names a call that runs is a participant's, any other one
\* is of the client that generated the call id: nobody else's call is opened.
MarkersOwned(s) ==
    \A c \in CallIds, y \in Clients :
        BusyIn(s, c, y) => IF c \in DOMAIN s.active THEN MemberIn(s, c, y)
                           ELSE y = Creator[c]

\* A call that has not started rings for the client that generated its id.
CreatorsCall(s) ==
    \A c, y : CallerIn(s, c, y) /\ c \notin DOMAIN s.active => y = Creator[c]

\* What every locked step keeps of the four maps.
LockInv(s) == Ruled(s) /\ InviteesOutside(s) /\ MarkersOwned(s) /\ CreatorsCall(s)

\* A step that only takes away keeps the invariant, if a call that goes takes
\* its batch along and a participant that goes its marker.
LEMMA FewerKeeps ==
    ASSUME NEW s, LockInv(s), NEW r, Ruled(r),
           DOMAIN r.active \subseteq DOMAIN s.active,
           \A c, y : /\ InviteeIn(r, c, y) => InviteeIn(s, c, y)
                     /\ MemberIn(r, c, y) => MemberIn(s, c, y)
                     /\ CallerIn(r, c, y) => CallerIn(s, c, y)
                     /\ BusyIn(r, c, y) => BusyIn(s, c, y)
                     /\ CallerIn(r, c, y) /\ c \in DOMAIN s.active => c \in DOMAIN r.active
                     /\ BusyIn(r, c, y) /\ MemberIn(s, c, y) => MemberIn(r, c, y)
    PROVE  LockInv(r)
<1>1. InviteesOutside(r)
  BY DEF InviteesOutside, LockInv
<1>2. MarkersOwned(r)
  <2> SUFFICES ASSUME NEW c \in CallIds, NEW y \in Clients, BusyIn(r, c, y)
               PROVE  IF c \in DOMAIN r.active THEN MemberIn(r, c, y) ELSE y = Creator[c]
    BY DEF MarkersOwned
  <2>1. IF c \in DOMAIN s.active THEN MemberIn(s, c, y) ELSE y = Creator[c]
    BY DEF MarkersOwned, LockInv
  <2>2. MemberIn(r, c, y) => c \in DOMAIN r.active
    BY DEF MemberIn
  <2> QED  BY <2>1, <2>2
<1>3. CreatorsCall(r)
  BY DEF CreatorsCall, LockInv
<1> QED  BY <1>1, <1>2, <1>3 DEF LockInv

\* A step that changes nothing of who takes part keeps the invariant.
LEMMA RelabelledLock ==
    ASSUME NEW s, LockInv(s), NEW r, Relabelled(s, r)
    PROVE  LockInv(r)
<1>1. /\ Ruled(r) /\ r.ringing = s.ringing
      /\ DOMAIN r.active = DOMAIN s.active
      /\ \A c, y : /\ MemberIn(r, c, y) <=> MemberIn(s, c, y)
                   /\ CallerIn(r, c, y) <=> CallerIn(s, c, y)
                   /\ BusyIn(r, c, y) <=> BusyIn(s, c, y)
  BY RelabelledRuled DEF LockInv
<1>2. \A c, y : InviteeIn(r, c, y) => InviteeIn(s, c, y)
  BY <1>1 DEF InviteeIn
<1> QED  BY <1>1, <1>2, FewerKeeps

\* From s to r batches, targets, callees and busy markers go.
Hushed(s, r) ==
    Typed(r) /\ Quieter(s, r) /\ \A c, y : BusyIn(r, c, y) => BusyIn(s, c, y)

\* Such a step keeps the invariant.
LEMMA HushedLock ==
    ASSUME NEW s, LockInv(s), NEW r, Hushed(s, r)
    PROVE  LockInv(r)
<1>1. Typed(r) /\ Quieter(s, r) /\ \A c, y : BusyIn(r, c, y) => BusyIn(s, c, y)
  BY DEF Hushed
<1>2. Ruled(r)
  BY <1>1, QuieterRuled DEF LockInv
<1>3. r.active = s.active /\ \A c, y : MemberIn(r, c, y) <=> MemberIn(s, c, y)
  BY <1>1 DEF Quieter, MemberIn
<1>4. \A c, y : CallerIn(r, c, y) => CallerIn(s, c, y)
  BY <1>1 DEF Quieter, CallerIn, SameBatch
<1>5. \A c, y : InviteeIn(r, c, y) => InviteeIn(s, c, y)
  <2> SUFFICES ASSUME NEW c, NEW y, InviteeIn(r, c, y) PROVE InviteeIn(s, c, y)
    OBVIOUS
  <2>1. PICK t \in DOMAIN r.ringing[c].targets : y \in r.ringing[c].targets[t].notified_clients
    BY DEF InviteeIn
  <2>2. c \in DOMAIN s.ringing /\ SameBatch(s.ringing[c], r.ringing[c])
    BY <1>1 DEF InviteeIn, Quieter
  <2>3. /\ t \in DOMAIN s.ringing[c].targets
        /\ SameTarget(s.ringing[c].targets[t], r.ringing[c].targets[t])
    BY <2>1, <2>2 DEF SameBatch
  <2>4. y \in s.ringing[c].targets[t].notified_clients
    BY <2>1, <2>3 DEF SameTarget
  <2> QED  BY <2>2, <2>3, <2>4 DEF InviteeIn
<1> QED  BY <1>1, <1>2, <1>3, <1>4, <1>5, FewerKeeps

\* end_call keeps the invariant, whoever calls it on whichever call.
LEMMA EndCallLock ==
    ASSUME NEW s, LockInv(s), NEW c \in CallIds, NEW x \in Clients
    PROVE  LockInv(AfterEndCall(s, c, x))
<1> DEFINE r == AfterEndCall(s, c, x)
<1>1. Ruled(r) /\ Typed(s)
  BY EndCallRuled DEF LockInv, Ruled
<1>2. /\ DOMAIN r.ringing = IF Cancels(s, c, x) THEN DOMAIN s.ringing \ {c}
                            ELSE DOMAIN s.ringing
      /\ \A d \in DOMAIN r.ringing : r.ringing[d] = s.ringing[d]
  BY <1>1, EndCallRinging
<1>3. DOMAIN r.active = IF Ends(s, c, x) THEN DOMAIN s.active \ {c} ELSE DOMAIN s.active
  BY <1>1, EndCallActive
<1>4. \A d, y : MemberIn(r, d, y) <=> MemberIn(s, d, y) /\ ~(d = c /\ y \in Leaving(s, c, x))
  BY <1>1, EndCallMembers
<1>5. \A d, y : BusyIn(r, d, y) => BusyIn(s, d, y) /\ ~(d = c /\ y \in Leaving(s, c, x))
  BY <1>1, EndCallBusy
<1> HIDE DEF r
<1>6. \A d, y : /\ InviteeIn(r, d, y) => InviteeIn(s, d, y)
                /\ CallerIn(r, d, y) => CallerIn(s, d, y)
  BY <1>2 DEF InviteeIn, CallerIn
<1>7. \A d, y : CallerIn(r, d, y) /\ d \in DOMAIN s.active => d \in DOMAIN r.active
  BY <1>2, <1>3 DEF CallerIn, Cancels
<1>8. LockInv(r)
  BY <1>1, <1>3, <1>4, <1>5, <1>6, <1>7, FewerKeeps
<1> QED  BY <1>8 DEF r

\* So does the first part of a disconnect.
LEMMA LeavingLock ==
    ASSUME NEW s, LockInv(s), NEW x \in Clients
    PROVE  LockInv(AfterLeavingOwnCall(s, x))
<1> DEFINE after == AfterEndCall(s, s.busy[x], x)
           left  == AfterLeavingOwnCall(s, x)
<1>1. CASE x \notin DOMAIN s.busy
  BY <1>1 DEF AfterLeavingOwnCall
<1>2. CASE x \in DOMAIN s.busy
  <2>1. s.busy[x] \in CallIds
    BY <1>2 DEF LockInv, Ruled, Typed, IsMap
  <2>2. LockInv(after) /\ Typed(after)
    BY <2>1, EndCallLock DEF LockInv, Ruled
  <2>3. left = [after EXCEPT !.busy = Remove(@, {x})]
    BY <1>2 DEF AfterLeavingOwnCall
  <2> HIDE DEF after, left
  <2>4. /\ left \in [ringing : {after.ringing}, active : {after.active},
                     incoming : {after.incoming}, busy : {left.busy}]
        /\ left.busy = Remove(after.busy, {x})
    BY <2>2, <2>3 DEF Typed
  <2>5. Typed(left)
    <3>1. IsMap(left.busy, Clients, CallIds)
      BY <2>2, <2>4, RemoveIsMap DEF Typed
    <3> QED  BY <2>2, <2>4, <3>1 DEF Typed
  <2>6. \A c, y : BusyIn(left, c, y) => BusyIn(after, c, y)
    BY <2>4 DEF BusyIn, Remove, Restrict
  <2>7. Quieter(after, left)
    <3>1. left.active = after.active /\ left.ringing = after.ringing
      BY <2>4
    <3>2. \A c \in DOMAIN after.ringing : SameBatch(after.ringing[c], after.ringing[c])
      BY <2>2, KeptBatch DEF Typed
    <3> QED  BY <3>1, <3>2 DEF Quieter
  <2>8. LockInv(left)
    BY <2>2, <2>5, <2>6, <2>7, HushedLock DEF Hushed
  <2> QED  BY <2>8 DEF left
<1> QED  BY <1>1, <1>2

\* attempt_call keeps the invariant for a caller that made up the call id or is
\* in the call, though its busy marker may be another task's to take away.
LEMMA AttemptLock ==
    ASSUME LockInv(Calls), NEW c \in CallIds, NEW x \in Clients, NEW t \in Targets,
           NEW st \in Targets, NEW notified \in SUBSET Clients, x \notin notified,
           Creator[c] = x \/ Participates(c, x),
           AttemptCall(c, x, [client_id |-> x, target |-> st], t, notified)
    PROVE  LockInv(Calls')
<1> DEFINE entry == NewRingingTarget([client_id |-> x, target |-> st], notified)
           batch == IF IsRinging(c)
                    THEN [ringing_calls[c] EXCEPT !.targets = Put(@, t, entry)]
                    ELSE [caller_id |-> x, targets |-> Put(Empty, t, entry)]
<1>1. /\ Ruled(Calls) /\ Typed(Calls)
      /\ InviteesOutside(Calls) /\ MarkersOwned(Calls) /\ CreatorsCall(Calls)
  BY DEF LockInv, Ruled
<1>2. \/ BusyIn(Calls, c, x)
      \/ c \notin DOMAIN Calls.active /\ c \notin DOMAIN Calls.ringing
  BY CallsFields DEF AttemptCall, ValidCallAttempt, IsActive, IsRinging, BusyIn
<1>3. IF c \in DOMAIN Calls.active THEN MemberIn(Calls, c, x) ELSE x = Creator[c]
  <2>1. Participates(c, x) => c \in DOMAIN Calls.active
    BY CallsFields DEF Participates, IsActive
  <2> QED  BY <1>1, <1>2, <2>1 DEF MarkersOwned
<1>4. /\ Ruled(Calls')
      /\ \A d, y : /\ MemberIn(Calls', d, y) <=> MemberIn(Calls, d, y)
                   /\ CallerIn(Calls', d, y) <=> IF d = c THEN y = x ELSE CallerIn(Calls, d, y)
                   /\ BusyIn(Calls', d, y) <=> IF y = x THEN d = c ELSE BusyIn(Calls, d, y)
  BY <1>1, <1>3, AttemptRuled
<1>5. /\ ringing_calls' = Put(ringing_calls, c, batch)
      /\ Calls'.active = Calls.active
  BY CallsFields DEF AttemptCall
<1>6. /\ IsRinging(c) => ringing_calls[c].caller_id = x
      /\ IsActive(c) => ParticipantsOf(active_calls[c]) \cap notified = {}
  BY DEF AttemptCall, ValidCallAttempt
<1>7. entry.notified_clients = notified
  BY DEF NewRingingTarget
<1>8. IsRinging(c) => IsRingingCallEntry(ringing_calls[c])
  BY <1>1, CallsFields DEF Typed, IsRinging
<1> HIDE DEF entry
<1>9. \A u \in DOMAIN batch.targets :
         \/ u = t /\ batch.targets[u] = entry
         \/ /\ IsRinging(c) /\ u \in DOMAIN ringing_calls[c].targets
            /\ batch.targets[u] = ringing_calls[c].targets[u]
  <2>1. CASE IsRinging(c)
    BY <1>8, <2>1 DEF Put, IsRingingCallEntry
  <2>2. CASE ~IsRinging(c)
    BY <2>2 DEF Put, Empty
  <2> QED  BY <2>1, <2>2
<1> HIDE DEF batch
<1>10. \A d \in DOMAIN ringing_calls' :
         IF d = c THEN ringing_calls'[d] = batch
         ELSE d \in DOMAIN ringing_calls /\ ringing_calls'[d] = ringing_calls[d]
  BY <1>5 DEF Put
<1>11. \A d, y : InviteeIn(Calls', d, y) => InviteeIn(Calls, d, y) \/ (d = c /\ y \in notified)
  <2> SUFFICES ASSUME NEW d, NEW y, InviteeIn(Calls', d, y)
               PROVE  InviteeIn(Calls, d, y) \/ (d = c /\ y \in notified)
    OBVIOUS
  <2>1. PICK u \in DOMAIN ringing_calls'[d].targets :
          y \in ringing_calls'[d].targets[u].notified_clients
    BY CallsFields DEF InviteeIn
  <2>2. d \in DOMAIN ringing_calls'
    BY CallsFields DEF InviteeIn
  <2>3. CASE d # c
    BY <1>10, <2>1, <2>2, <2>3, CallsFields DEF InviteeIn
  <2>4. CASE d = c
    BY <1>7, <1>9, <1>10, <2>1, <2>2, <2>4, CallsFields DEF InviteeIn, IsRinging
  <2> QED  BY <2>3, <2>4
<1>12. InviteesOutside(Calls')
  <2>1. \A y \in notified : ~MemberIn(Calls, c, y) /\ y # x
    BY <1>6, CallsFields DEF MemberIn, IsActive, ParticipantsOf
  <2>2. InviteeIn(Calls, c, x) => CallerIn(Calls, c, x)
    BY <1>6, CallsFields DEF InviteeIn, CallerIn, IsRinging
  <2> QED  BY <1>1, <1>4, <1>11, <2>1, <2>2 DEF InviteesOutside
<1>13. MarkersOwned(Calls')
  BY <1>1, <1>3, <1>4, <1>5 DEF MarkersOwned
<1>14. CreatorsCall(Calls')
  BY <1>1, <1>3, <1>4, <1>5 DEF CreatorsCall
<1> QED  BY <1>4, <1>12, <1>13, <1>14 DEF LockInv

\* accept_call keeps the invariant: the acceptor answers every target that rings
\* it, and a call that starts takes in the client whose marker may name it.
LEMMA AcceptLock ==
    ASSUME LockInv(Calls), NEW c \in CallIds, NEW x \in Clients, AcceptCall(c, x)
    PROVE  LockInv(Calls')
<1> DEFINE call    == ringing_calls[c]
           caller  == call.caller_id
           answers == AnsweredTargets(call, x)
<1>1. /\ Ruled(Calls) /\ Typed(Calls)
      /\ InviteesOutside(Calls) /\ MarkersOwned(Calls) /\ CreatorsCall(Calls)
  BY DEF LockInv, Ruled
<1>2. /\ c \in DOMAIN ringing_calls /\ answers # {}
      /\ ringing_calls' = IF answers = DOMAIN call.targets THEN Remove(ringing_calls, {c})
                          ELSE [ringing_calls EXCEPT ![c].targets = Remove(@, answers)]
  BY DEF AcceptCall, IsRinging
<1>3. answers = {t \in DOMAIN call.targets : x \in call.targets[t].notified_clients}
  BY DEF AnsweredTargets
<1>4. InviteeIn(Calls, c, x)
  BY <1>2, <1>3, CallsFields DEF InviteeIn
<1>5. ~MemberIn(Calls, c, x) /\ ~CallerIn(Calls, c, x)
  BY <1>1, <1>4 DEF InviteesOutside
<1>6. /\ Ruled(Calls')
      /\ DOMAIN ringing_calls' \subseteq DOMAIN ringing_calls
      /\ \A d \in DOMAIN ringing_calls' : SameBatch(ringing_calls[d], ringing_calls'[d])
      /\ \A d, y : MemberIn(Calls', d, y) <=>
           MemberIn(Calls, d, y) \/ (d = c /\ y \in {x, caller})
      /\ \A d, y : BusyIn(Calls', d, y) <=> IF y = x THEN d = c ELSE BusyIn(Calls, d, y)
  BY <1>1, <1>5, AcceptRuled
<1>7. DOMAIN Calls'.active = DOMAIN Calls.active \cup {c}
  BY <1>1, AcceptJoins, CallsFields
<1>8. \A d, y : CallerIn(Calls', d, y) => CallerIn(Calls, d, y)
  BY <1>6, CallsFields DEF CallerIn, SameBatch
<1>9. \A y : CallerIn(Calls, c, y) <=> y = caller
  BY <1>2, CallsFields DEF CallerIn
<1>10. \A t : c \in DOMAIN ringing_calls' /\ t \in DOMAIN ringing_calls'[c].targets =>
         /\ t \in DOMAIN call.targets \ answers
         /\ ringing_calls'[c].targets[t] = call.targets[t]
  <2> HIDE DEF answers
  <2>1. CASE answers = DOMAIN call.targets
    BY <1>2, <2>1 DEF Remove, Restrict
  <2>2. CASE answers # DOMAIN call.targets
    <3> DEFINE left == Remove(call.targets, answers)
    <3>1. ringing_calls' = [ringing_calls EXCEPT ![c].targets = left]
      BY <1>2, <2>2
    <3>2. DOMAIN left = DOMAIN call.targets \ answers
          /\ \A t \in DOMAIN left : left[t] = call.targets[t]
      BY DEF Remove, Restrict
    <3> HIDE DEF left
    <3>3. IsRingingCallEntry(call)
      BY <1>1, <1>2, CallsFields DEF Typed
    <3>4. ringing_calls'[c].targets = left
      BY <1>2, <3>1, <3>3 DEF IsRingingCallEntry
    <3> QED  BY <3>2, <3>4
  <2> QED  BY <2>1, <2>2
<1>11. \A d, y : InviteeIn(Calls', d, y) => InviteeIn(Calls, d, y) /\ ~(d = c /\ y = x)
  <2> SUFFICES ASSUME NEW d, NEW y, InviteeIn(Calls', d, y)
               PROVE  InviteeIn(Calls, d, y) /\ ~(d = c /\ y = x)
    OBVIOUS
  <2>1. PICK t \in DOMAIN ringing_calls'[d].targets :
          y \in ringing_calls'[d].targets[t].notified_clients
    BY CallsFields DEF InviteeIn
  <2>2. d \in DOMAIN ringing_calls' /\ d \in DOMAIN ringing_calls
    BY <1>6, CallsFields DEF InviteeIn
  <2>3. /\ t \in DOMAIN ringing_calls[d].targets
        /\ SameTarget(ringing_calls[d].targets[t], ringing_calls'[d].targets[t])
    BY <1>6, <2>1, <2>2 DEF SameBatch
  <2>4. y \in ringing_calls[d].targets[t].notified_clients
    BY <2>1, <2>3 DEF SameTarget
  <2>5. d = c => y # x
    BY <1>3, <1>10, <2>1, <2>2, <2>4
  <2> QED  BY <2>2, <2>3, <2>4, <2>5, CallsFields DEF InviteeIn
<1> HIDE DEF caller, answers
<1>12. InviteesOutside(Calls')
  BY <1>1, <1>6, <1>8, <1>9, <1>11 DEF InviteesOutside
<1>13. MarkersOwned(Calls')
  <2> SUFFICES ASSUME NEW d \in CallIds, NEW y \in Clients, BusyIn(Calls', d, y)
               PROVE  IF d \in DOMAIN Calls'.active THEN MemberIn(Calls', d, y)
                      ELSE y = Creator[d]
    BY DEF MarkersOwned
  <2>1. y # x => IF d \in DOMAIN Calls.active THEN MemberIn(Calls, d, y) ELSE y = Creator[d]
    BY <1>1, <1>6 DEF MarkersOwned
  <2>2. c \notin DOMAIN Calls.active => caller = Creator[c]
    BY <1>1, <1>9 DEF CreatorsCall
  <2> QED  BY <1>6, <1>7, <2>1, <2>2
<1>14. CreatorsCall(Calls')
  BY <1>1, <1>7, <1>8 DEF CreatorsCall
<1> QED  BY <1>6, <1>12, <1>13, <1>14 DEF LockInv

-----------------------------------------------------------------------------
(* The operations under way.                                                *)

\* What can be left of an operation, step by step.
RestTyped(r) ==
    \/ r = Idle
    \/ r \in [step : {"mark"}, call : CallIds, client : Clients, error : BOOLEAN]
    \/ r \in [step : {"checkCaller", "releaseCaller"}, caller : Clients]
    \/ r \in [step : {"endCall"}, call : CallIds, client : Clients]
    \/ r \in [step : {"uninvite"}, call : CallIds, callees : SUBSET Clients,
              caller : Clients \cup {None}]
    \/ r \in [step : {"releaseDropped"}, call : CallIds, caller : Clients]
    \/ r \in [step : {"takeIncoming"}, client : Clients]
    \/ r \in [step : {"lapse"}, client : Clients, invitations : {r.invitations}]

RunningTyped ==
    running = [k \in Tasks |-> running[k]] /\ \A k \in Tasks : RestTyped(running[k])

\* The step says which fields there are.
LEMMA RestFields ==
    ASSUME NEW r, RestTyped(r)
    PROVE  /\ r.step \in {"mark", "endCall"} => r.call \in CallIds /\ r.client \in Clients
           /\ r.step \in {"takeIncoming", "lapse"} => r.client \in Clients
           /\ r.step \in {"checkCaller"} => r.caller \in Clients
           /\ r.step = "uninvite" =>
                r \in [step : {"uninvite"}, call : CallIds, callees : SUBSET Clients,
                       caller : Clients \cup {None}]
BY DEF RestTyped, Idle

\* One task gets on with its operation.
LEMMA ContinueTyped ==
    ASSUME RunningTyped, NEW k \in Tasks, NEW STATE rest, RestTyped(rest), Continue(k, rest)
    PROVE  RunningTyped'
BY DEF RunningTyped, Continue, Tasks

\* Every step leaves operations of their types.
LEMMA RunningNext ==
    ASSUME Typed(Calls), RunningTyped, [LocksNext]_lockVars
    PROVE  RunningTyped'
<1>1. RestTyped(Idle)
  BY DEF RestTyped
<1>2. UNCHANGED running => RunningTyped'
  BY DEF RunningTyped
<1>3. \A k \in Clients : k \in Tasks
  BY DEF Tasks
<1>4. \A k \in Tasks : RestTyped(running[k])
  BY DEF RunningTyped
<1>5. \A c \in DOMAIN ringing_calls : IsRingingCallEntry(ringing_calls[c])
  BY CallsFields DEF Typed
<1>6. ASSUME NEW k \in Clients, Guarded(k)
      PROVE  RunningTyped'
  BY <1>2, <1>6 DEF Guarded
<1>7. ASSUME NEW k \in Clients, MarkStart(k)
      PROVE  RunningTyped'
  <2>1. PICK c \in CallIds, x \in Clients, error \in BOOLEAN :
          Continue(k, [step |-> "mark", call |-> c, client |-> x, error |-> error])
    BY <1>7 DEF MarkStart
  <2>2. RestTyped([step |-> "mark", call |-> c, client |-> x, error |-> error])
    BY DEF RestTyped
  <2> QED  BY <1>3, <2>1, <2>2, ContinueTyped
<1>8. ASSUME NEW k \in Clients, MarkUnderGuard(k)
      PROVE  RunningTyped'
  <2> DEFINE c == running[k].call
             x == running[k].client
             caller == ringing_calls[c].caller_id
  <2>1. c \in CallIds /\ x \in Clients
    BY <1>3, <1>4, <1>8, RestFields DEF MarkUnderGuard, At
  <2>2. RestTyped([step |-> "endCall", call |-> c, client |-> x])
    BY <2>1 DEF RestTyped
  <2>3. RingsFor(c, x) => RestTyped([step |-> "checkCaller", caller |-> caller])
    <3>1. RingsFor(c, x) => caller \in Clients
      BY <1>5 DEF RingsFor, IsRinging, IsRingingCallEntry
    <3> QED  BY <3>1 DEF RestTyped
  <2>4. \/ RingsFor(c, x) /\ Continue(k, [step |-> "checkCaller", caller |-> caller])
        \/ Continue(k, [step |-> "endCall", call |-> c, client |-> x])
        \/ Continue(k, Idle)
    BY <1>8 DEF MarkUnderGuard
  <2>5. k \in Tasks
    BY <1>3
  <2>6. CASE RingsFor(c, x) /\ Continue(k, [step |-> "checkCaller", caller |-> caller])
    BY <2>3, <2>5, <2>6, ContinueTyped
  <2>7. CASE Continue(k, [step |-> "endCall", call |-> c, client |-> x])
    BY <2>2, <2>5, <2>7, ContinueTyped
  <2>8. CASE Continue(k, Idle)
    BY <1>1, <2>5, <2>8, ContinueTyped
  <2> QED  BY <2>4, <2>6, <2>7, <2>8
<1>9. ASSUME NEW k \in Clients, CheckCaller(k)
      PROVE  RunningTyped'
  <2>1. running[k].caller \in Clients
    BY <1>3, <1>4, <1>9, RestFields DEF CheckCaller, At
  <2>2. RestTyped([step |-> "releaseCaller", caller |-> running[k].caller])
    BY <2>1 DEF RestTyped
  <2>3. \/ Continue(k, Idle)
        \/ Continue(k, [step |-> "releaseCaller", caller |-> running[k].caller])
    BY <1>9 DEF CheckCaller
  <2> QED  BY <1>1, <1>3, <2>2, <2>3, ContinueTyped
<1>10. ASSUME NEW k \in Tasks, Continue(k, Idle)
       PROVE  RunningTyped'
  BY <1>1, <1>10, ContinueTyped
<1>11. ASSUME NEW k \in Clients, DropRinging(k)
       PROVE  RunningTyped'
  <2>1. PICK c \in CallIds, t \in Targets :
          LET call  == ringing_calls[c]
              ended == DOMAIN call.targets = {t}
          IN  /\ IsRinging(c) /\ t \in DOMAIN call.targets
              /\ Continue(k, [step |-> "uninvite", call |-> c,
                              callees |-> call.targets[t].notified_clients,
                              caller |-> IF ended THEN call.caller_id ELSE None])
    BY <1>11 DEF DropRinging
  <2> DEFINE call == ringing_calls[c]
             rest == [step |-> "uninvite", call |-> c,
                      callees |-> call.targets[t].notified_clients,
                      caller |-> IF DOMAIN call.targets = {t} THEN call.caller_id ELSE None]
  <2>2. call.caller_id \in Clients /\ call.targets[t].notified_clients \in SUBSET Clients
    BY <1>5, <2>1 DEF IsRinging, IsRingingCallEntry, IsMap, RingingTargetEntry
  <2>3. RestTyped(rest)
    BY <2>2 DEF RestTyped
  <2>4. Continue(k, rest)
    BY <2>1
  <2> HIDE DEF rest
  <2> QED  BY <1>3, <2>3, <2>4, ContinueTyped
<1>12. ASSUME NEW k \in Clients, UninviteNext(k)
       PROVE  RunningTyped'
  <2>1. PICK y \in running[k].callees : Continue(k, [running[k] EXCEPT !.callees = @ \ {y}])
    BY <1>12 DEF UninviteNext
  <2>2. running[k] \in [step : {"uninvite"}, call : CallIds, callees : SUBSET Clients,
                        caller : Clients \cup {None}]
    BY <1>3, <1>4, <1>12, RestFields DEF UninviteNext, At
  <2>3. RestTyped([running[k] EXCEPT !.callees = @ \ {y}])
    BY <2>2 DEF RestTyped
  <2> QED  BY <1>3, <2>1, <2>3, ContinueTyped
<1>13. ASSUME NEW k \in Clients, UninviteDone(k)
       PROVE  RunningTyped'
  <2> DEFINE rest == [step |-> "releaseDropped", call |-> running[k].call,
                      caller |-> running[k].caller]
  <2>1. running[k] \in [step : {"uninvite"}, call : CallIds, callees : SUBSET Clients,
                        caller : Clients \cup {None}]
    BY <1>3, <1>4, <1>13, RestFields DEF UninviteDone, At
  <2>2. running[k].caller # None => RestTyped(rest)
    BY <2>1 DEF RestTyped
  <2>3. Continue(k, Idle) \/ (running[k].caller # None /\ Continue(k, rest))
    BY <1>13 DEF UninviteDone
  <2> HIDE DEF rest
  <2> QED  BY <1>1, <1>3, <2>2, <2>3, ContinueTyped
<1>14. ASSUME NEW k \in Clients, ReportLink(k)
       PROVE  RunningTyped'
  <2>1. PICK c \in CallIds, peer \in Clients :
          LET recorded == RecordLinkReport(active_calls[c], k, peer)
          IN  \/ Continue(k, [step |-> "endCall", call |-> c,
                              client |-> LaterJoiner(recorded, k, peer)])
              \/ Continue(k, Idle)
    BY <1>14 DEF ReportLink
  <2> DEFINE later == LaterJoiner(RecordLinkReport(active_calls[c], k, peer), k, peer)
  <2>2. later \in Clients
    BY DEF LaterJoiner
  <2> HIDE DEF later
  <2>3. RestTyped([step |-> "endCall", call |-> c, client |-> later])
    BY <2>2 DEF RestTyped
  <2>4. \/ Continue(k, [step |-> "endCall", call |-> c, client |-> later])
        \/ Continue(k, Idle)
    BY <2>1 DEF later
  <2> QED  BY <1>1, <1>3, <2>3, <2>4, ContinueTyped
<1>15. ASSUME NEW k \in Tasks, CleanupStart(k)
       PROVE  RunningTyped'
  <2>1. PICK x \in Clients : Continue(k, [step |-> "takeIncoming", client |-> x])
    BY <1>15 DEF CleanupStart
  <2>2. RestTyped([step |-> "takeIncoming", client |-> x])
    BY DEF RestTyped
  <2> QED  BY <2>1, <2>2, ContinueTyped
<1>16. ASSUME NEW k \in Tasks, TakeIncoming(k)
       PROVE  RunningTyped'
  <2> DEFINE x    == running[k].client
             rest == [step |-> "lapse", client |-> x, invitations |-> client_incoming_calls[x]]
  <2>1. x \in Clients
    BY <1>4, <1>16, RestFields DEF TakeIncoming, At
  <2>2. RestTyped(rest)
    BY <2>1 DEF RestTyped
  <2>3. Continue(k, Idle) \/ Continue(k, rest)
    BY <1>16 DEF TakeIncoming
  <2> HIDE DEF rest
  <2> QED  BY <1>1, <2>2, <2>3, ContinueTyped
<1>17. ASSUME NEW k \in Tasks,
              ReleaseCaller(k) \/ EndCallLater(k) \/ ReleaseDropped(k) \/ LapseInvitations(k)
       PROVE  RunningTyped'
  BY <1>10, <1>17 DEF ReleaseCaller, EndCallLater, ReleaseDropped, LapseInvitations
<1>18. CASE UNCHANGED lockVars
  BY <1>2, <1>18 DEF lockVars
<1> QED
  BY <1>2, <1>3, <1>6, <1>7, <1>8, <1>9, <1>11, <1>12, <1>13, <1>14, <1>15, <1>16, <1>17,
     <1>18 DEF LocksNext

-----------------------------------------------------------------------------
(* What the locked steps do to the maps.                                    *)

\* A step that leaves the maps alone.
LEMMA StutterStep ==
    ASSUME Typed(Calls), UNCHANGED vars
    PROVE  Relabelled(Calls, Calls')
<1>1. /\ Calls'.ringing = Calls.ringing /\ Calls'.active = Calls.active
      /\ Calls'.incoming = Calls.incoming /\ Calls'.busy = Calls.busy
      /\ Calls' \in [ringing : {Calls'.ringing}, active : {Calls'.active},
                     incoming : {Calls'.incoming}, busy : {Calls'.busy}]
  BY CallsFields DEF vars
<1> QED  BY <1>1 DEF Relabelled, Typed

\* A step that takes entries out of the incoming index.
LEMMA UninviteStep ==
    ASSUME Typed(Calls), NEW STATE c, NEW STATE xs,
           client_incoming_calls' = Uninvite(client_incoming_calls, c, xs),
           UNCHANGED <<ringing_calls, active_calls, client_active_calls>>
    PROVE  Relabelled(Calls, Calls')
<1> DEFINE r == [Calls EXCEPT !.incoming = Uninvite(@, c, xs)]
<1>1. Relabelled(Calls, r)
  BY UninvitedRelabelled
<1>2. Becomes(r)
  BY DEF Becomes, Calls
<1> QED  BY <1>1, <1>2, BecomesRelabelled

\* A step that takes one batch away, or targets and callees out of it.
LEMMA HushStep ==
    ASSUME Typed(Calls), NEW c \in DOMAIN ringing_calls, NEW STATE new,
           SameBatch(ringing_calls[c], new),
           ringing_calls' \in {Remove(ringing_calls, {c}), [ringing_calls EXCEPT ![c] = new]},
           UNCHANGED <<active_calls, client_incoming_calls, client_active_calls>>
    PROVE  Hushed(Calls, Calls')
<1>1. /\ Quieter(Calls, Calls')
      /\ ringing_calls' = [d \in DOMAIN ringing_calls' |-> ringing_calls'[d]]
      /\ DOMAIN ringing_calls' \subseteq CallIds
      /\ \A d \in DOMAIN ringing_calls' : IsRingingCallEntry(ringing_calls'[d])
  BY BatchStep
<1>2. Typed(Calls')
  BY <1>1, CallsFields DEF Typed
<1>3. \A d, y : BusyIn(Calls', d, y) => BusyIn(Calls, d, y)
  BY CallsFields DEF BusyIn
<1> QED  BY <1>1, <1>2, <1>3 DEF Hushed

\* A step that takes busy markers away.
LEMMA ReleaseStep ==
    ASSUME Typed(Calls), NEW STATE xs,
           client_active_calls' = Remove(client_active_calls, xs),
           UNCHANGED <<ringing_calls, active_calls, client_incoming_calls>>
    PROVE  Hushed(Calls, Calls')
<1>1. \A c \in DOMAIN ringing_calls : SameBatch(ringing_calls[c], ringing_calls[c])
  BY KeptBatch, CallsFields DEF Typed
<1>2. Quieter(Calls, Calls')
  BY <1>1, CallsFields DEF Quieter
<1>3. IsMap(client_active_calls', Clients, CallIds)
  BY CallsFields, RemoveIsMap DEF Typed
<1>4. Typed(Calls')
  BY <1>3, CallsFields DEF Typed
<1>5. \A d, y : BusyIn(Calls', d, y) => BusyIn(Calls, d, y)
  BY CallsFields DEF BusyIn, Remove, Restrict
<1> QED  BY <1>2, <1>4, <1>5 DEF Hushed

\* A client attempts a call whose id it made up, or that it is in.
OwnAttempts ==
    \E c \in CallIds, x \in Clients, t \in Targets :
       \E st \in Targets, notified \in SUBSET Clients :
          /\ x \notin notified
          /\ Creator[c] = x \/ Participates(c, x)
          /\ AttemptCall(c, x, [client_id |-> x, target |-> st], t, notified)

Accepts == \E c \in CallIds, x \in Clients : AcceptCall(c, x)

\* Somebody leaves a call: end_call, or the first part of a disconnect.
Leaves ==
    \/ \E c \in CallIds, x \in Clients : EndCall(c, x)
    \/ \E x \in Clients : Becomes(AfterLeavingOwnCall(Calls, x))

\* Every locked step is of one of five kinds.
LEMMA LockStep ==
    ASSUME Ruled(Calls), RunningTyped, [LocksNext]_lockVars
    PROVE  \/ Relabelled(Calls, Calls') \/ Hushed(Calls, Calls')
           \/ Leaves \/ OwnAttempts \/ Accepts
<1>1. Typed(Calls)
  BY DEF Ruled
<1>2. \A k \in Clients : k \in Tasks
  BY DEF Tasks
<1>3. \A k \in Tasks : RestTyped(running[k])
  BY DEF RunningTyped
<1>4. ASSUME NEW k \in Clients, Guarded(k)
      PROVE  OwnAttempts \/ Accepts \/ Leaves
  <2>1. PICK c \in CallIds :
          \/ \E t \in Targets, st \in SourceTargets[k] : \E resolved \in Resolves[t] :
               /\ Creator[c] = k \/ Participates(c, k)
               /\ AttemptCall(c, k, [client_id |-> k, target |-> st], t, resolved \ {k})
          \/ \E t \in Targets : DropJoinedParticipant(c, k, t, "Requested")
          \/ AcceptCall(c, k)
          \/ EndCall(c, k)
    BY <1>4 DEF Guarded
  <2>2. ASSUME NEW t \in Targets, NEW st \in SourceTargets[k], NEW resolved \in Resolves[t],
               Creator[c] = k \/ Participates(c, k),
               AttemptCall(c, k, [client_id |-> k, target |-> st], t, resolved \ {k})
        PROVE  OwnAttempts
    <3>1. st \in Targets /\ resolved \ {k} \in SUBSET Clients /\ k \notin resolved \ {k}
      BY ResolutionTypes
    <3> QED  BY <2>2, <3>1 DEF OwnAttempts
  <2>3. ASSUME NEW t \in Targets, DropJoinedParticipant(c, k, t, "Requested")
        PROVE  Leaves
    BY <2>3, DropJoinedIsLeave DEF Leaves
  <2> QED  BY <2>1, <2>2, <2>3 DEF Accepts, Leaves
<1>5. ASSUME NEW k \in Clients, MarkStart(k)
      PROVE  Relabelled(Calls, Calls')
  BY <1>1, <1>5, UninviteStep DEF MarkStart
<1>6. ASSUME NEW k \in Clients, MarkUnderGuard(k)
      PROVE  Relabelled(Calls, Calls') \/ Hushed(Calls, Calls')
  <2> DEFINE c    == running[k].call
             x    == running[k].client
             call == ringing_calls[c]
             new  == [call EXCEPT !.targets = TargetsAfterFailure(call, x)]
  <2>1. x \in Clients
    BY <1>2, <1>3, <1>6, RestFields DEF MarkUnderGuard, At
  <2>2. UNCHANGED <<active_calls, client_incoming_calls, client_active_calls>>
    BY <1>6 DEF MarkUnderGuard
  <2>3. CASE RingsFor(c, x)
    <3>1. c \in DOMAIN ringing_calls /\ IsRingingCallEntry(call)
      BY <1>1, <2>3, CallsFields DEF RingsFor, IsRinging, Typed
    <3>2. SameBatch(call, new)
      BY <2>1, <3>1, ClientFailed
    <3>3. ringing_calls' \in {Remove(ringing_calls, {c}), [ringing_calls EXCEPT ![c] = new]}
      BY <1>6, <2>3 DEF MarkUnderGuard
    <3> HIDE DEF new
    <3> QED  BY <1>1, <2>2, <3>1, <3>2, <3>3, HushStep
  <2>4. CASE ~RingsFor(c, x)
    <3>1. UNCHANGED vars
      BY <1>6, <2>2, <2>4 DEF MarkUnderGuard, vars
    <3> QED  BY <1>1, <3>1, StutterStep
  <2> QED  BY <2>3, <2>4
<1>7. ASSUME NEW k \in Clients, DropRinging(k)
      PROVE  Hushed(Calls, Calls')
  <2>1. PICK c \in CallIds, t \in Targets :
          LET call  == ringing_calls[c]
          IN  /\ IsRinging(c)
              /\ ringing_calls' = IF DOMAIN call.targets = {t} THEN Remove(ringing_calls, {c})
                                  ELSE [ringing_calls EXCEPT ![c].targets = Remove(@, {t})]
    BY <1>7 DEF DropRinging
  <2> DEFINE call == ringing_calls[c]
             new  == [call EXCEPT !.targets = Remove(@, {t})]
  <2>2. c \in DOMAIN ringing_calls /\ IsRingingCallEntry(call)
    BY <1>1, <2>1, CallsFields DEF IsRinging, Typed
  <2>3. SameBatch(call, new)
    BY <2>2, TargetsGone
  <2>4. ringing_calls' \in {Remove(ringing_calls, {c}), [ringing_calls EXCEPT ![c] = new]}
    BY <2>1
  <2>5. UNCHANGED <<active_calls, client_incoming_calls, client_active_calls>>
    BY <1>7 DEF DropRinging
  <2> HIDE DEF new
  <2> QED  BY <1>1, <2>2, <2>3, <2>4, <2>5, HushStep
<1>8. ASSUME NEW k \in Clients, ReleaseCaller(k) \/ ReleaseDropped(k)
      PROVE  Hushed(Calls, Calls')
  BY <1>1, <1>8, ReleaseStep DEF ReleaseCaller, ReleaseDropped, ReleaseBusy
<1>9. ASSUME NEW k \in Clients, EndCallLater(k)
      PROVE  Leaves
  <2>1. running[k].call \in CallIds /\ running[k].client \in Clients
    BY <1>2, <1>3, <1>9, RestFields DEF EndCallLater, At
  <2> QED  BY <1>9, <2>1 DEF EndCallLater, Leaves
<1>10. ASSUME NEW k \in Clients, UninviteNext(k)
       PROVE  Relabelled(Calls, Calls')
  BY <1>1, <1>10, UninviteStep DEF UninviteNext
<1>11. ASSUME NEW k \in Clients, ReportLink(k)
       PROVE  Relabelled(Calls, Calls')
  <2>1. PICK c \in CallIds, peer \in Clients :
          /\ Participates(c, k)
          /\ active_calls' = [active_calls EXCEPT
                                ![c] = RecordLinkReport(active_calls[c], k, peer)]
    BY <1>11 DEF ReportLink
  <2> DEFINE recorded == RecordLinkReport(active_calls[c], k, peer)
             r == [Calls EXCEPT !.active = [@ EXCEPT ![c] = recorded]]
  <2>2. UNCHANGED <<ringing_calls, client_incoming_calls, client_active_calls>>
    BY <1>11 DEF ReportLink
  <2>3. Relabelled(Calls, r)
    BY <1>1, <2>1, ReportRelabelled DEF Participates, IsActive
  <2> HIDE DEF recorded
  <2>4. Becomes(r)
    BY <2>1, <2>2 DEF Becomes, Calls, recorded
  <2> HIDE DEF r
  <2> QED  BY <2>3, <2>4, BecomesRelabelled DEF r, recorded
<1>12. ASSUME NEW k \in Tasks, CleanupStart(k)
       PROVE  Leaves
  BY <1>12 DEF CleanupStart, Leaves
<1>13. ASSUME NEW k \in Tasks, TakeIncoming(k)
       PROVE  Relabelled(Calls, Calls')
  <2> DEFINE x == running[k].client
             r == [Calls EXCEPT !.incoming[x] = Empty]
  <2>1. x \in Clients
    BY <1>3, <1>13, RestFields DEF TakeIncoming, At
  <2>2. Relabelled(Calls, r)
    BY <1>1, <2>1, TakenRelabelled
  <2>3. Becomes(r)
    BY <1>13 DEF TakeIncoming, Becomes, Calls
  <2> HIDE DEF r
  <2> QED  BY <2>2, <2>3, BecomesRelabelled DEF r
<1>14. ASSUME NEW k \in Tasks, LapseInvitations(k)
       PROVE  Hushed(Calls, Calls')
  <2> DEFINE x == running[k].client
             r == AfterInvitationsLapse(Calls, x, running[k].invitations)
  <2>1. x \in Clients
    BY <1>3, <1>14, RestFields DEF LapseInvitations, At
  <2>2. Typed(r) /\ Quieter(Calls, r) /\ \E idle : r.busy = Remove(Calls.busy, idle)
    <3> DEFINE ended == DOMAIN Calls.ringing \ DOMAIN r.ringing
               idle  == {y \in {Calls.ringing[c].caller_id : c \in ended} :
                           \A a \in DOMAIN Calls.active : y \notin ParticipantsOf(Calls.active[a])}
    <3>1. Typed(r) /\ Quieter(Calls, r) /\ r.busy = Remove(Calls.busy, idle)
      BY ONLY <1>1, <2>1, LapseEffect
    <3> HIDE DEF r, idle
    <3> QED  BY <3>1
  <2>3. Becomes(r)
    BY <1>14 DEF LapseInvitations
  <2> HIDE DEF r
  <2>4. \A c, y : BusyIn(r, c, y) => BusyIn(Calls, c, y)
    BY <2>2 DEF BusyIn, Remove, Restrict
  <2>5. Calls' = r
    BY <2>2, <2>3, BecomesIs DEF r
  <2> QED  BY <2>2, <2>4, <2>5 DEF Hushed
<1>15. ASSUME NEW c \in CallIds, NEW pair \in FlakyLinks, LinkReportExpires(c, pair)
       PROVE  Relabelled(Calls, Calls')
  BY <1>1, <1>15, ExpiryRelabelled
<1>16. ASSUME NEW k \in Clients, CheckCaller(k) \/ UninviteDone(k)
       PROVE  Relabelled(Calls, Calls')
  BY <1>1, <1>16, StutterStep DEF CheckCaller, UninviteDone
<1>17. CASE UNCHANGED lockVars
  BY <1>1, <1>17, StutterStep DEF lockVars
<1> QED
  BY <1>4, <1>5, <1>6, <1>7, <1>8, <1>9, <1>10, <1>11, <1>12, <1>13, <1>14, <1>15, <1>16,
     <1>17 DEF LocksNext

-----------------------------------------------------------------------------
(* The inductive invariant of the locked steps.                             *)

\* Beside the maps and what is left of the operations, every call fits.
LocksInv ==
    /\ LockInv(Calls)
    /\ RunningTyped
    /\ \A c \in CallIds : Fits(Calls, c)

\* Everything but accept_call leaves the calls as they are or shrinks them.
LEMMA LockShrinks ==
    ASSUME LockInv(Calls), RunningTyped, [LocksNext]_lockVars
    PROVE  Shrinks(Calls, Calls') \/ OwnAttempts \/ Accepts
<1>1. Ruled(Calls) /\ Typed(Calls)
  BY DEF LockInv, Ruled
<1>2. Relabelled(Calls, Calls') => Shrinks(Calls, Calls')
  BY RelabelledShrinks
<1>3. Hushed(Calls, Calls') => Shrinks(Calls, Calls')
  BY QuieterShrinks DEF Hushed
<1>4. Leaves => Shrinks(Calls, Calls')
  BY <1>1, EndShrinks, LeavingShrinks, BecomesShrinks DEF Leaves
<1> QED  BY <1>1, <1>2, <1>3, <1>4, LockStep

\* Every locked step keeps the invariant of the maps.
LEMMA LockKept ==
    ASSUME LockInv(Calls), RunningTyped, [LocksNext]_lockVars
    PROVE  LockInv(Calls')
<1>1. Ruled(Calls) /\ Typed(Calls)
  BY DEF LockInv, Ruled
<1>2. CASE Relabelled(Calls, Calls')
  BY <1>2, RelabelledLock
<1>3. CASE Hushed(Calls, Calls')
  BY <1>3, HushedLock
<1>4. ASSUME NEW c \in CallIds, NEW x \in Clients, EndCall(c, x)
      PROVE  LockInv(Calls')
  <2>1. LockInv(AfterEndCall(Calls, c, x)) /\ Typed(AfterEndCall(Calls, c, x))
    BY EndCallLock DEF LockInv, Ruled
  <2>2. Calls' = AfterEndCall(Calls, c, x)
    BY <1>4, <2>1, BecomesIs DEF EndCall
  <2> QED  BY <2>1, <2>2
<1>5. ASSUME NEW x \in Clients, Becomes(AfterLeavingOwnCall(Calls, x))
      PROVE  LockInv(Calls')
  <2>1. LockInv(AfterLeavingOwnCall(Calls, x)) /\ Typed(AfterLeavingOwnCall(Calls, x))
    BY LeavingLock DEF LockInv, Ruled
  <2>2. Calls' = AfterLeavingOwnCall(Calls, x)
    BY <1>5, <2>1, BecomesIs
  <2> QED  BY <2>1, <2>2
<1>6. CASE OwnAttempts
  BY <1>6, AttemptLock DEF OwnAttempts
<1>7. CASE Accepts
  BY <1>7, AcceptLock DEF Accepts
<1> QED  BY <1>1, <1>2, <1>3, <1>4, <1>5, <1>6, <1>7, LockStep DEF Leaves

\* Every locked step keeps the invariant.
LEMMA LocksNextInv == LocksInv /\ [LocksNext]_lockVars => LocksInv'
<1> SUFFICES ASSUME LocksInv, [LocksNext]_lockVars PROVE LocksInv'
  OBVIOUS
<1>1. /\ LockInv(Calls) /\ RunningTyped /\ Ruled(Calls) /\ Typed(Calls)
      /\ \A c \in CallIds : Fits(Calls, c)
  BY DEF LocksInv, LockInv, Ruled
<1>2. LockInv(Calls')
  BY <1>1, LockKept
<1>3. RunningTyped'
  BY <1>1, RunningNext
<1>4. ASSUME NEW d \in CallIds PROVE Fits(Calls', d)
  <2>1. CASE Shrinks(Calls, Calls')
    BY <1>1, <2>1, ShrinkFits
  <2>2. CASE OwnAttempts
    BY <1>1, <2>2, AttemptFits DEF OwnAttempts
  <2>3. CASE Accepts
    BY <1>1, <2>3, AcceptFits DEF Accepts
  <2> QED  BY <1>1, <2>1, <2>2, <2>3, LockShrinks
<1> QED  BY <1>2, <1>3, <1>4 DEF LocksInv

\* The manager starts without calls and without operations.
LEMMA LocksInitInv == LocksInit => LocksInv
<1> SUFFICES ASSUME LocksInit PROVE LocksInv
  OBVIOUS
<1>1. Init
  BY DEF LocksInit
<1>2. IndInv /\ \A c \in CallIds : Fits(Calls, c)
  BY <1>1, InitSized DEF SizedInv
<1>3. Ruled(Calls)
  BY <1>2 DEF IndInv, Inv
<1>4. /\ DOMAIN Calls.ringing = {} /\ DOMAIN Calls.active = {} /\ DOMAIN Calls.busy = {}
  BY <1>1 DEF Init, Calls, Empty
<1>5. LockInv(Calls)
  BY <1>3, <1>4 DEF LockInv, InviteesOutside, MarkersOwned, CreatorsCall, InviteeIn, CallerIn,
                    BusyIn
<1>6. RunningTyped
  BY DEF LocksInit, RunningTyped, RestTyped
<1> QED  BY <1>2, <1>5, <1>6 DEF LocksInv

\* What holds of the maps and of the operations under way whenever no lock is
\* held: the rules of the calls survive every interleaving of the locks.
THEOREM LocksInvariant == LocksSpec => []LocksInv
BY LocksInitInv, LocksNextInv, PTL DEF LocksSpec

\* No interleaving makes a call larger than max_conf_size: both the check and
\* the invitation happen under one guard (invite_exceeds_max_conf_size).
THEOREM LockedSizesAreBounded == LocksSpec => []ConferenceSizeIsBounded
<1>1. LocksInv => ConferenceSizeIsBounded
  BY FitsBounded DEF LocksInv, LockInv, Ruled
<1> QED  BY <1>1, LocksInvariant, PTL

\* No interleaving leaves a conference without its leader, a call of two with
\* one, or a call with fewer than two (end_call, accept_call).
THEOREM LockedLeadersLead == LocksSpec => []LeaderOnlyInConference
<1>1. LocksInv => LeaderOnlyInConference
  BY DEF LocksInv, LockInv, Ruled, EntryLed, Calls, LeaderOnlyInConference, ParticipantsOf
<1> QED  BY <1>1, LocksInvariant, PTL

\* No interleaving lets anybody into a call uninvited (accept_call looks the
\* invitation up under the guard it answers it under).
THEOREM LockedJoinersWereInvited == LocksSpec => JoinsOnlyByInvitation
<1> DEFINE Joins ==
      \A c \in DOMAIN active_calls' :
        \A x \in ParticipantsOf(active_calls'[c]) :
           Participates(c, x)
           \/ /\ IsRinging(c)
              /\ \/ x \in InvitedClients(ringing_calls[c])
                 \/ ~IsActive(c) /\ x = ringing_calls[c].caller_id
<1>1. LocksInv /\ [LocksNext]_lockVars => Joins
  <2> SUFFICES ASSUME LocksInv, [LocksNext]_lockVars, NEW d \in DOMAIN active_calls',
                      NEW y \in ParticipantsOf(active_calls'[d])
               PROVE  Invited(d, y)
    BY DEF Invited
  <2>1. LockInv(Calls) /\ RunningTyped /\ Ruled(Calls)
    BY DEF LocksInv, LockInv
  <2>2. CASE Shrinks(Calls, Calls')
    BY <2>2, ShrunkInvites
  <2>3. CASE OwnAttempts
    BY <2>3 DEF OwnAttempts, AttemptCall, Invited, Participates, IsActive
  <2>4. CASE Accepts
    BY <2>1, <2>4, AcceptInvites DEF Accepts
  <2> QED  BY <2>1, <2>2, <2>3, <2>4, LockShrinks
<1> HIDE DEF Joins
<1>2. LocksInv /\ [LocksNext]_lockVars => [Joins]_vars
  BY <1>1
<1>3. LocksSpec => [][Joins]_vars
  BY <1>2, LocksInvariant, PTL DEF LocksSpec
<1> QED  BY <1>3, PTL DEF Joins, JoinsOnlyByInvitation

-----------------------------------------------------------------------------
(* What a locked step does to one running call.                             *)

\* Of a call that somebody may have left at most one participant is gone.
LEMMA LeftCall ==
    ASSUME Typed(Calls), Leaves, NEW d \in DOMAIN active_calls'
    PROVE  /\ d \in DOMAIN active_calls /\ IsActiveCallEntry(active_calls[d])
           /\ \/ active_calls'[d] = active_calls[d]
              \/ \E x \in ParticipantsOf(active_calls[d]) :
                   /\ x \in Clients
                   /\ ~DepartureEndsCall(active_calls[d], x)
                   /\ active_calls'[d] = WithoutParticipant(active_calls[d], x)
<1>1. ASSUME NEW c \in CallIds, NEW x \in Clients,
             active_calls' = AfterEndCall(Calls, c, x).active
      PROVE  /\ d \in DOMAIN active_calls
             /\ \/ active_calls'[d] = active_calls[d]
                \/ \E y \in ParticipantsOf(active_calls[d]) :
                     /\ y \in Clients
                     /\ ~DepartureEndsCall(active_calls[d], y)
                     /\ active_calls'[d] = WithoutParticipant(active_calls[d], y)
  <2> DEFINE r == AfterEndCall(Calls, c, x)
  <2>1. /\ DOMAIN r.active = IF Ends(Calls, c, x) THEN DOMAIN Calls.active \ {c}
                             ELSE DOMAIN Calls.active
        /\ \A e \in DOMAIN r.active :
             r.active[e] = IF e = c /\ MemberIn(Calls, c, x)
                           THEN WithoutParticipant(Calls.active[c], x)
                           ELSE Calls.active[e]
    BY EndCallActive
  <2>2. active_calls' = r.active
    BY <1>1
  <2> HIDE DEF r
  <2>3. d \in DOMAIN active_calls
    BY <2>1, <2>2, CallsFields
  <2>4. CASE d = c /\ MemberIn(Calls, c, x)
    BY <2>1, <2>2, <2>3, <2>4, CallsFields DEF Ends, MemberIn, ParticipantsOf
  <2>5. CASE ~(d = c /\ MemberIn(Calls, c, x))
    BY <2>1, <2>2, <2>3, <2>5, CallsFields
  <2> QED  BY <2>3, <2>4, <2>5
<1>2. ASSUME NEW x \in Clients, Becomes(AfterLeavingOwnCall(Calls, x))
      PROVE  \/ active_calls' = active_calls
             \/ \E c \in CallIds : active_calls' = AfterEndCall(Calls, c, x).active
  <2>1. CASE x \in DOMAIN Calls.busy
    <3> DEFINE after == AfterEndCall(Calls, Calls.busy[x], x)
    <3>1. Calls.busy[x] \in CallIds
      BY <2>1 DEF Typed, IsMap
    <3>2. Typed(after)
      BY <3>1, EndCallTyped
    <3>3. active_calls' = [after EXCEPT !.busy = Remove(@, {x})].active
      BY <1>2, <2>1 DEF AfterLeavingOwnCall, Becomes
    <3> HIDE DEF after
    <3>4. active_calls' = after.active
      BY <3>2, <3>3 DEF Typed
    <3> QED  BY <3>1, <3>4 DEF after
  <2>2. CASE x \notin DOMAIN Calls.busy
    BY <1>2, <2>2, CallsFields DEF AfterLeavingOwnCall, Becomes
  <2> QED  BY <2>1, <2>2
<1>3. \/ active_calls' = active_calls
      \/ \E c \in CallIds, x \in Clients : active_calls' = AfterEndCall(Calls, c, x).active
  BY <1>2 DEF Leaves, EndCall, Becomes
<1>4. /\ d \in DOMAIN active_calls
      /\ \/ active_calls'[d] = active_calls[d]
         \/ \E y \in ParticipantsOf(active_calls[d]) :
              /\ y \in Clients
              /\ ~DepartureEndsCall(active_calls[d], y)
              /\ active_calls'[d] = WithoutParticipant(active_calls[d], y)
  BY <1>1, <1>3
<1> QED  BY <1>4, CallsFields DEF Typed

\* A leader stays in its call, and in the lead unless the call shrinks to two.
LEMMA LeaderKept ==
    ASSUME LockInv(Calls), RunningTyped, [LocksNext]_lockVars,
           NEW c \in DOMAIN active_calls \cap DOMAIN active_calls',
           active_calls[c].conference_leader # None
    PROVE  /\ active_calls[c].conference_leader \in ParticipantsOf(active_calls'[c])
           /\ active_calls'[c].conference_leader \in
                {active_calls[c].conference_leader, None}
<1> DEFINE old == active_calls[c].conference_leader
<1>1. Ruled(Calls) /\ Typed(Calls)
  BY DEF LockInv, Ruled
<1>2. c \in CallIds /\ old \in ParticipantsOf(active_calls[c])
  BY <1>1, CallsFields DEF Ruled, Typed, EntryLed, ParticipantsOf
<1>3. CASE Relabelled(Calls, Calls')
  BY <1>2, <1>3, CallsFields DEF Relabelled, ParticipantsOf
<1>4. CASE Hushed(Calls, Calls')
  BY <1>2, <1>4, CallsFields DEF Hushed, Quieter
<1>5. CASE Leaves
  <2>1. CASE active_calls'[c] = active_calls[c]
    BY <1>2, <2>1
  <2>2. ASSUME NEW x \in ParticipantsOf(active_calls[c]), x \in Clients,
               IsActiveCallEntry(active_calls[c]),
               ~DepartureEndsCall(active_calls[c], x),
               active_calls'[c] = WithoutParticipant(active_calls[c], x)
        PROVE  /\ old \in ParticipantsOf(active_calls'[c])
               /\ active_calls'[c].conference_leader \in {old, None}
    <3>1. old # x
      BY <2>2 DEF DepartureEndsCall
    <3> QED  BY <1>2, <2>2, <3>1, DepartedEntry
  <2> QED  BY <1>1, <1>5, <2>1, <2>2, LeftCall
<1>6. CASE OwnAttempts
  BY <1>2, <1>6 DEF OwnAttempts, AttemptCall
<1>7. ASSUME NEW e \in CallIds, NEW x \in Clients, AcceptCall(e, x)
      PROVE  /\ old \in ParticipantsOf(active_calls'[c])
             /\ active_calls'[c].conference_leader \in {old, None}
  <2>1. CASE c # e
    BY <1>1, <1>2, <1>7, <2>1, AcceptJoins
  <2>2. CASE c = e
    BY <1>1, <1>2, <1>7, <2>2, AcceptJoins DEF IsActive, ParticipantsOf
  <2> QED  BY <2>1, <2>2
<1> QED  BY <1>1, <1>3, <1>4, <1>5, <1>6, <1>7, LockStep DEF Accepts

\* Leadership never transfers, whatever interleaves (end_call decides under the
\* guard whether a leader's departure ends the call).
THEOREM LockedLeadershipStays == LocksSpec => LeadershipNeverTransfers
<1> DEFINE Stays ==
      \A c \in DOMAIN active_calls \cap DOMAIN active_calls' :
        LET old == active_calls[c].conference_leader
            new == active_calls'[c].conference_leader
        IN  old # None =>
              /\ old \in ParticipantsOf(active_calls'[c])
              /\ new \in {old, None}
<1>1. LocksInv /\ [LocksNext]_lockVars => Stays
  BY LeaderKept DEF LocksInv
<1> HIDE DEF Stays
<1>2. LocksInv /\ [LocksNext]_lockVars => [Stays]_vars
  BY <1>1
<1>3. LocksSpec => [][Stays]_vars
  BY <1>2, LocksInvariant, PTL DEF LocksSpec
<1> QED  BY <1>3, PTL DEF Stays, LeadershipNeverTransfers

-----------------------------------------------------------------------------
(* A confirmed link is being evicted.                                       *)

\* Call d has the report about the pair since before the step, and whoever of
\* the pair was in the call still is.
ReportKept(d, pair) ==
    /\ d \in DOMAIN active_calls
    /\ pair \in DOMAIN active_calls[d].link_reports
    /\ active_calls'[d].link_reports[pair].reporters =
         active_calls[d].link_reports[pair].reporters
    /\ pair \subseteq ParticipantsOf(active_calls[d]) =>
         pair \subseteq ParticipantsOf(active_calls'[d])

ReportsKept ==
    \A d \in DOMAIN active_calls' : \A pair \in DOMAIN active_calls'[d].link_reports :
        ReportKept(d, pair)

\* Nobody leaves and stays on in a report.
LEMMA LeavesReports ==
    ASSUME Typed(Calls), Leaves
    PROVE  ReportsKept
<1> SUFFICES ASSUME NEW d \in DOMAIN active_calls',
                    NEW pair \in DOMAIN active_calls'[d].link_reports
             PROVE  ReportKept(d, pair)
  BY DEF ReportsKept
<1>1. d \in DOMAIN active_calls /\ IsActiveCallEntry(active_calls[d])
  BY LeftCall
<1>2. CASE active_calls'[d] = active_calls[d]
  BY <1>1, <1>2 DEF ReportKept
<1>3. ASSUME NEW x \in Clients, active_calls'[d] = WithoutParticipant(active_calls[d], x)
      PROVE  ReportKept(d, pair)
  <2> DEFINE call == active_calls[d]
             rest == WithoutParticipant(call, x)
  <2>1. ParticipantsOf(rest) = ParticipantsOf(call) \ {x}
    BY <1>1, DepartedEntry
  <2>2. /\ DOMAIN rest.link_reports = {p \in DOMAIN call.link_reports : x \notin p}
        /\ \A p \in DOMAIN rest.link_reports : rest.link_reports[p] = call.link_reports[p]
    BY <1>1, DepartedFields
  <2>3. active_calls'[d] = rest
    BY <1>3
  <2> HIDE DEF rest
  <2> QED  BY <1>1, <2>1, <2>2, <2>3 DEF ReportKept
<1> QED  BY <1>2, <1>3, LeftCall

\* Whoever joins changes no report.
LEMMA AcceptReports ==
    ASSUME Ruled(Calls), NEW c \in CallIds, NEW x \in Clients, AcceptCall(c, x)
    PROVE  ReportsKept
<1> DEFINE call    == ringing_calls[c]
           caller  == call.caller_id
           answers == AnsweredTargets(call, x)
           joined  == IF IsActive(c) THEN DOMAIN active_calls[c].participants ELSE {caller}
<1>1. /\ IsRingingCallEntry(call) /\ caller \in Clients
      /\ IsActive(c) => IsActiveCallEntry(active_calls[c])
      /\ DOMAIN active_calls'[c].participants = joined \cup {x}
      /\ DOMAIN active_calls' = DOMAIN active_calls \cup {c}
      /\ \A d \in DOMAIN active_calls' : d # c => active_calls'[d] = active_calls[d]
  BY AcceptJoins
<1>2. PICK t \in answers, s \in answers :
        active_calls' =
          Put(active_calls, c,
              IF ~IsActive(c) THEN Joined(Joined(NewActiveCall, caller, call.targets[s].source.target), x, t)
              ELSE IF Joined(active_calls[c], x, t).conference_leader = None
              THEN [Joined(active_calls[c], x, t) EXCEPT
                      !.conference_leader = LeaderAfter(call.targets[s].source, x)]
              ELSE Joined(active_calls[c], x, t))
  BY DEF AcceptCall
<1>3. t \in Targets /\ call.targets[s].source.target \in Targets
  BY <1>1 DEF AnsweredTargets, IsRingingCallEntry, IsMap, RingingTargetEntry
<1> HIDE DEF answers
<1>4. active_calls'[c].link_reports = IF IsActive(c) THEN active_calls[c].link_reports ELSE Empty
  <2>1. CASE ~IsActive(c)
    <3> DEFINE begun == Joined(NewActiveCall, caller, call.targets[s].source.target)
    <3>1. IsActiveCallEntry(begun)
      BY <1>1, <1>3, NewEntry, JoinedEntry
    <3>2. begun.link_reports = Empty
      BY NewEntry, JoinedFields DEF NewActiveCall
    <3>3. active_calls'[c] = Joined(begun, x, t)
      BY <1>2, <2>1 DEF Put
    <3> HIDE DEF begun
    <3>4. Joined(begun, x, t).link_reports = begun.link_reports
      BY <3>1, JoinedFields
    <3> QED  BY <2>1, <3>2, <3>3, <3>4
  <2>2. CASE IsActive(c)
    <3> DEFINE more == Joined(active_calls[c], x, t)
    <3>1. IsActiveCallEntry(more)
      BY <1>1, <1>3, <2>2, JoinedEntry
    <3>2. more.link_reports = active_calls[c].link_reports
      BY <1>1, <2>2, JoinedFields
    <3>3. active_calls'[c] = IF more.conference_leader = None
                             THEN [more EXCEPT !.conference_leader =
                                     LeaderAfter(call.targets[s].source, x)]
                             ELSE more
      BY <1>2, <2>2 DEF Put
    <3> HIDE DEF more
    <3>4. active_calls'[c].link_reports = more.link_reports
      BY <3>1, <3>3 DEF IsActiveCallEntry
    <3> QED  BY <2>2, <3>2, <3>4
  <2> QED  BY <2>1, <2>2
<1> HIDE DEF joined
<1>5. ASSUME NEW d \in DOMAIN active_calls', NEW pair \in DOMAIN active_calls'[d].link_reports
      PROVE  ReportKept(d, pair)
  <2>1. CASE d # c
    BY <1>1, <2>1 DEF ReportKept
  <2>2. CASE d = c /\ ~IsActive(c)
    BY <1>4, <2>2 DEF Empty
  <2>3. CASE d = c /\ IsActive(c)
    BY <1>1, <1>4, <2>3 DEF ReportKept, IsActive, ParticipantsOf, joined
  <2> QED  BY <2>1, <2>2, <2>3
<1> QED  BY <1>5 DEF ReportsKept

\* A report that expires keeps its reporters.
LEMMA ExpiryReports ==
    ASSUME Typed(Calls), NEW c \in CallIds, NEW pair, LinkReportExpires(c, pair)
    PROVE  ReportsKept
<1> DEFINE call    == active_calls[c]
           reports == [call.link_reports EXCEPT ![pair].fresh = FALSE]
           new     == [call EXCEPT !.link_reports = reports]
<1>1. c \in DOMAIN active_calls /\ pair \in DOMAIN call.link_reports
  BY DEF LinkReportExpires, IsActive
<1>2. IsActiveCallEntry(call) /\ active_calls = [d \in DOMAIN active_calls |-> active_calls[d]]
  BY <1>1, CallsFields DEF Typed
<1>3. active_calls' = [active_calls EXCEPT ![c] = new]
  BY <1>1, <1>2 DEF LinkReportExpires
<1>4. /\ DOMAIN reports = DOMAIN call.link_reports
      /\ \A p \in DOMAIN reports : reports[p].reporters = call.link_reports[p].reporters
  BY <1>1, <1>2 DEF IsActiveCallEntry, IsMap
<1> HIDE DEF reports
<1>5. new.participants = call.participants /\ new.link_reports = reports
  BY <1>2 DEF IsActiveCallEntry
<1> HIDE DEF new
<1> QED  BY <1>1, <1>2, <1>3, <1>4, <1>5 DEF ReportsKept, ReportKept, ParticipantsOf

\* Only a new report adds to the reports.
LEMMA LockReports ==
    ASSUME LockInv(Calls), RunningTyped, [LocksNext]_lockVars
    PROVE  ReportsKept \/ \E k \in Clients : ReportLink(k)
<1>1. Ruled(Calls) /\ Typed(Calls)
  BY DEF LockInv, Ruled
<1>2. active_calls' = active_calls => ReportsKept
  BY DEF ReportsKept, ReportKept
<1>3. Leaves \/ Accepts => ReportsKept
  BY <1>1, LeavesReports, AcceptReports DEF Accepts
<1>4. \A k \in Clients : MarkStart(k) \/ MarkUnderGuard(k) \/ ReleaseCaller(k) \/ DropRinging(k)
                         \/ UninviteNext(k) \/ ReleaseDropped(k) => active_calls' = active_calls
  BY DEF MarkStart, MarkUnderGuard, ReleaseCaller, DropRinging, UninviteNext, ReleaseDropped
<1>5. \A k \in Clients : CheckCaller(k) \/ UninviteDone(k) => active_calls' = active_calls
  BY DEF CheckCaller, UninviteDone, vars
<1>6. UNCHANGED lockVars => active_calls' = active_calls
  BY DEF lockVars, vars
<1>7. ASSUME NEW k \in Clients, Guarded(k)
      PROVE  active_calls' = active_calls \/ Leaves \/ Accepts
  <2>1. PICK c \in CallIds :
          \/ \E t \in Targets, st \in SourceTargets[k] : \E resolved \in Resolves[t] :
               AttemptCall(c, k, [client_id |-> k, target |-> st], t, resolved \ {k})
          \/ \E t \in Targets : DropJoinedParticipant(c, k, t, "Requested")
          \/ AcceptCall(c, k)
          \/ EndCall(c, k)
    BY <1>7 DEF Guarded
  <2>2. (\E t \in Targets : DropJoinedParticipant(c, k, t, "Requested")) => Leaves
    BY <1>1, DropJoinedIsLeave DEF Leaves
  <2>3. (\E t \in Targets, st \in SourceTargets[k] : \E resolved \in Resolves[t] :
           AttemptCall(c, k, [client_id |-> k, target |-> st], t, resolved \ {k}))
        => active_calls' = active_calls
    BY DEF AttemptCall
  <2> QED  BY <2>1, <2>2, <2>3 DEF Accepts, Leaves
<1>8. ASSUME NEW k \in Clients, EndCallLater(k)
      PROVE  Leaves
  <2>1. k \in Tasks /\ RestTyped(running[k])
    BY DEF Tasks, RunningTyped
  <2>2. running[k].call \in CallIds /\ running[k].client \in Clients
    BY <1>8, <2>1, RestFields DEF EndCallLater, At
  <2> QED  BY <1>8, <2>2 DEF EndCallLater, Leaves
<1>9. \A k \in Tasks : CleanupStart(k) => Leaves
  BY DEF CleanupStart, Leaves
<1>10. \A k \in Tasks : TakeIncoming(k) => active_calls' = active_calls
  BY DEF TakeIncoming
<1>11. ASSUME NEW k \in Tasks, LapseInvitations(k)
       PROVE  active_calls' = active_calls
  <2> DEFINE x == running[k].client
             r == AfterInvitationsLapse(Calls, x, running[k].invitations)
  <2>1. x \in Clients
    BY <1>11, RestFields DEF LapseInvitations, At, RunningTyped
  <2>2. Quieter(Calls, r)
    BY ONLY <1>1, <2>1, LapseEffect
  <2> QED  BY <1>11, <2>2, CallsFields DEF LapseInvitations, Becomes, Quieter
<1>12. (\E c \in CallIds, pair \in FlakyLinks : LinkReportExpires(c, pair)) => ReportsKept
  BY <1>1, ExpiryReports
<1> QED
  BY <1>2, <1>3, <1>4, <1>5, <1>6, <1>7, <1>8, <1>9, <1>10, <1>11, <1>12 DEF LocksNext

\* A task that is about to evict somebody does that next.
LEMMA EvictionsPending ==
    ASSUME RunningTyped, [LocksNext]_lockVars, NEW k \in Tasks, At(k, "endCall")
    PROVE  running'[k] = running[k] \/ (k \in Clients /\ EndCallLater(k))
<1>1. ASSUME NEW j \in Tasks, NEW STATE rest, ~At(j, "endCall"), Continue(j, rest)
      PROVE  running'[k] = running[k]
  BY <1>1 DEF Continue, RunningTyped, At
<1>2. \A j \in Clients : j \in Tasks
  BY DEF Tasks
<1>3. ASSUME NEW j \in Clients, MarkStart(j) \/ DropRinging(j) \/ ReportLink(j)
      PROVE  running'[k] = running[k]
  <2>1. ~At(j, "endCall")
    BY <1>3 DEF MarkStart, DropRinging, ReportLink, MayStart, At
  <2>2. CASE MarkStart(j)
    BY <1>1, <1>2, <2>1, <2>2 DEF MarkStart
  <2>3. CASE DropRinging(j)
    BY <1>1, <1>2, <2>1, <2>3 DEF DropRinging
  <2>4. CASE ReportLink(j)
    BY <1>1, <1>2, <2>1, <2>4 DEF ReportLink
  <2> QED  BY <1>3, <2>2, <2>3, <2>4
<1>4. ASSUME NEW j \in Clients, MarkUnderGuard(j)
      PROVE  running'[k] = running[k]
  <2>1. ~At(j, "endCall")
    BY <1>4 DEF MarkUnderGuard, At
  <2> QED  BY <1>1, <1>2, <1>4, <2>1 DEF MarkUnderGuard
<1>5. ASSUME NEW j \in Clients,
             CheckCaller(j) \/ ReleaseCaller(j) \/ UninviteNext(j) \/ UninviteDone(j)
             \/ ReleaseDropped(j)
      PROVE  running'[k] = running[k]
  <2>1. ~At(j, "endCall")
    BY <1>5 DEF CheckCaller, ReleaseCaller, UninviteNext, UninviteDone, ReleaseDropped, At
  <2> QED
    BY <1>1, <1>2, <1>5, <2>1
       DEF CheckCaller, ReleaseCaller, UninviteNext, UninviteDone, ReleaseDropped
<1>6. ASSUME NEW j \in Tasks, CleanupStart(j) \/ TakeIncoming(j) \/ LapseInvitations(j)
      PROVE  running'[k] = running[k]
  <2>1. ~At(j, "endCall")
    BY <1>6 DEF CleanupStart, TakeIncoming, LapseInvitations, MayStart, At
  <2> QED  BY <1>1, <1>6, <2>1 DEF CleanupStart, TakeIncoming, LapseInvitations
<1>7. ASSUME NEW j \in Clients, EndCallLater(j)
      PROVE  running'[k] = running[k] \/ (k \in Clients /\ EndCallLater(k))
  <2>1. j # k => running'[k] = running[k]
    BY <1>7 DEF EndCallLater, Continue, RunningTyped
  <2> QED  BY <1>7, <2>1
<1>8. \A j \in Clients : Guarded(j) => running'[k] = running[k]
  BY DEF Guarded
<1>9. UNCHANGED lockVars => running'[k] = running[k]
  BY DEF lockVars
<1> QED  BY <1>3, <1>4, <1>5, <1>6, <1>7, <1>8, <1>9 DEF LocksNext

\* ConfirmedLinkIsBeingEvicted for one pair of one call.
BeingEvicted(c, pair) ==
    \E k \in Tasks : At(k, "endCall") /\ running[k].call = c /\ running[k].client \in pair

\* A new report is confirmed exactly if the reporter goes on to evict.
LEMMA ReportLinkEvicts ==
    ASSUME Typed(Calls), RunningTyped, ConfirmedLinkIsBeingEvicted,
           NEW k \in Clients, ReportLink(k)
    PROVE  ConfirmedLinkIsBeingEvicted'
<1>1. PICK c \in CallIds, peer \in Clients \ {k} :
        LET recorded == RecordLinkReport(active_calls[c], k, peer)
        IN  /\ Participates(c, k)
            /\ Participates(c, peer)
            /\ active_calls' = [active_calls EXCEPT ![c] = recorded]
            /\ Continue(k, IF LinkConfirmed(recorded, k, peer)
                           THEN [step |-> "endCall", call |-> c,
                                 client |-> LaterJoiner(recorded, k, peer)]
                           ELSE Idle)
  BY DEF ReportLink
<1> DEFINE call     == active_calls[c]
           recorded == RecordLinkReport(call, k, peer)
           key      == {k, peer}
           valid    == key \in DOMAIN call.link_reports /\ call.link_reports[key].fresh
           known    == IF valid THEN call.link_reports[key].reporters ELSE {}
           report   == [reporters |-> known \cup {k}, fresh |-> TRUE]
           evicted  == LaterJoiner(recorded, k, peer)
<1>2. /\ c \in DOMAIN active_calls /\ IsActiveCallEntry(call)
      /\ key \subseteq ParticipantsOf(call)
      /\ active_calls = [d \in DOMAIN active_calls |-> active_calls[d]]
  BY <1>1, CallsFields DEF Participates, IsActive, Typed
<1>3. recorded = [call EXCEPT !.link_reports = Put(call.link_reports, key, report)]
  BY DEF RecordLinkReport, LinkKey
<1>4. recorded.participants = call.participants
  BY <1>2, RecordedEntry
<1> HIDE DEF report
<1>5. recorded.link_reports = Put(call.link_reports, key, report)
  BY <1>2, <1>3 DEF IsActiveCallEntry
<1>6. evicted \in key
  BY DEF LaterJoiner
<1>7. LinkConfirmed(recorded, k, peer) <=> peer \in report.reporters
  BY <1>5 DEF LinkConfirmed, LinkKey, Put
<1>8. At(k, "idle") /\ k \in Tasks
  BY DEF ReportLink, MayStart, Tasks
<1> HIDE DEF recorded, evicted, key
<1>9. /\ \A j \in Tasks : j # k => running'[j] = running[j]
      /\ LinkConfirmed(recorded, k, peer) =>
           running'[k] = [step |-> "endCall", call |-> c, client |-> evicted]
  BY <1>1, <1>8 DEF Continue, RunningTyped, recorded, evicted
<1>10. /\ DOMAIN active_calls' = DOMAIN active_calls
       /\ active_calls'[c] = recorded
       /\ \A d \in DOMAIN active_calls : d # c => active_calls'[d] = active_calls[d]
  BY <1>1, <1>2 DEF recorded
<1>11. \A d, pair : BeingEvicted(d, pair) => BeingEvicted(d, pair)'
  <2> SUFFICES ASSUME NEW d, NEW pair, BeingEvicted(d, pair)
               PROVE  BeingEvicted(d, pair)'
    OBVIOUS
  <2>1. PICK j \in Tasks : At(j, "endCall") /\ running[j].call = d /\ running[j].client \in pair
    BY DEF BeingEvicted
  <2>2. j # k
    BY <1>8, <2>1 DEF At
  <2>3. running'[j] = running[j]
    BY <1>9, <2>2
  <2> QED  BY <2>1, <2>3 DEF BeingEvicted, At, Tasks
<1>12. ASSUME NEW d \in DOMAIN active_calls', NEW pair \in DOMAIN active_calls'[d].link_reports
       PROVE  /\ pair \subseteq ParticipantsOf(active_calls'[d])
              /\ active_calls'[d].link_reports[pair].reporters = pair => BeingEvicted(d, pair)'
  <2>1. CASE d = c /\ pair = key
    <3>1. active_calls'[d].link_reports[pair] = report
      BY <1>5, <1>10, <2>1 DEF Put
    <3>2. ASSUME report.reporters = key PROVE BeingEvicted(c, key)'
      <4>1. running'[k] = [step |-> "endCall", call |-> c, client |-> evicted]
        BY <1>7, <1>9, <3>2 DEF key
      <4> QED  BY <1>6, <1>8, <4>1 DEF BeingEvicted, At, Tasks
    <3> QED  BY <1>2, <1>4, <1>10, <2>1, <3>1, <3>2 DEF ParticipantsOf
  <2>2. CASE ~(d = c /\ pair = key)
    <3>1. /\ d \in DOMAIN active_calls /\ pair \in DOMAIN active_calls[d].link_reports
          /\ active_calls'[d].link_reports[pair] = active_calls[d].link_reports[pair]
          /\ active_calls'[d].participants = active_calls[d].participants
      <4>1. CASE d # c
        BY <1>10, <4>1
      <4>2. CASE d = c /\ pair # key
        BY <1>2, <1>4, <1>5, <1>10, <4>2 DEF Put
      <4> QED  BY <2>2, <4>1, <4>2
    <3>2. /\ pair \subseteq ParticipantsOf(active_calls[d])
          /\ active_calls[d].link_reports[pair].reporters = pair => BeingEvicted(d, pair)
      BY <3>1 DEF ConfirmedLinkIsBeingEvicted, BeingEvicted
    <3> QED  BY <1>11, <3>1, <3>2 DEF ParticipantsOf
  <2> QED  BY <2>1, <2>2
<1> QED  BY <1>12 DEF ConfirmedLinkIsBeingEvicted, BeingEvicted

\* An eviction that is carried out takes the report that caused it along.
LEMMA EvictionEndsReport ==
    ASSUME Typed(Calls), RunningTyped, NEW k \in Clients, EndCallLater(k),
           NEW d \in DOMAIN active_calls', NEW pair \in DOMAIN active_calls'[d].link_reports,
           running[k].call = d, d \in DOMAIN active_calls,
           pair \subseteq ParticipantsOf(active_calls[d])
    PROVE  running[k].client \notin pair
<1> DEFINE x == running[k].client
           r == AfterEndCall(Calls, d, x)
<1>1. x \in Clients /\ d \in CallIds
  BY RestFields DEF EndCallLater, At, RunningTyped, Tasks
<1>2. \A e \in DOMAIN r.active :
         r.active[e] = IF e = d /\ MemberIn(Calls, d, x)
                       THEN WithoutParticipant(Calls.active[d], x)
                       ELSE Calls.active[e]
  BY <1>1, EndCallActive
<1>3. active_calls' = r.active
  BY DEF EndCallLater, EndCall, Becomes
<1> HIDE DEF r
<1> SUFFICES ASSUME x \in pair PROVE FALSE
  OBVIOUS
<1>4. MemberIn(Calls, d, x) /\ IsActiveCallEntry(active_calls[d])
  BY CallsFields DEF MemberIn, ParticipantsOf, Typed
<1>5. active_calls'[d] = WithoutParticipant(active_calls[d], x)
  BY <1>2, <1>3, <1>4, CallsFields
<1>6. DOMAIN WithoutParticipant(active_calls[d], x).link_reports =
        {p \in DOMAIN active_calls[d].link_reports : x \notin p}
  BY <1>1, <1>4, DepartedFields
<1> QED  BY <1>5, <1>6

\* Every locked step keeps it.
LEMMA EvictionNext ==
    LocksInv /\ ConfirmedLinkIsBeingEvicted /\ [LocksNext]_lockVars
      => ConfirmedLinkIsBeingEvicted'
<1> SUFFICES ASSUME LocksInv, ConfirmedLinkIsBeingEvicted, [LocksNext]_lockVars
             PROVE  ConfirmedLinkIsBeingEvicted'
  OBVIOUS
<1>1. LockInv(Calls) /\ RunningTyped /\ Typed(Calls)
  BY DEF LocksInv, LockInv, Ruled
<1>2. ASSUME NEW k \in Clients, ReportLink(k)
      PROVE  ConfirmedLinkIsBeingEvicted'
  BY <1>1, <1>2, ReportLinkEvicts
<1>3. CASE ReportsKept
  <2>1. ASSUME NEW d \in DOMAIN active_calls', NEW pair \in DOMAIN active_calls'[d].link_reports
        PROVE  /\ pair \subseteq ParticipantsOf(active_calls'[d])
               /\ active_calls'[d].link_reports[pair].reporters = pair => BeingEvicted(d, pair)'
    <3>1. ReportKept(d, pair)
      BY <1>3 DEF ReportsKept
    <3>2. /\ d \in DOMAIN active_calls /\ pair \subseteq ParticipantsOf(active_calls[d])
          /\ active_calls[d].link_reports[pair].reporters = pair => BeingEvicted(d, pair)
      BY <3>1 DEF ReportKept, ConfirmedLinkIsBeingEvicted, BeingEvicted
    <3>3. ASSUME NEW k \in Tasks, At(k, "endCall"), running[k].call = d, running[k].client \in pair
          PROVE  BeingEvicted(d, pair)'
      <4>1. ~(k \in Clients /\ EndCallLater(k))
        BY <1>1, <3>2, <3>3, EvictionEndsReport
      <4>2. running'[k] = running[k]
        BY <1>1, <3>3, <4>1, EvictionsPending
      <4> QED  BY <3>3, <4>2 DEF BeingEvicted, At, Tasks
    <3> QED  BY <3>1, <3>2, <3>3 DEF ReportKept, BeingEvicted
  <2> QED  BY <2>1 DEF ConfirmedLinkIsBeingEvicted, BeingEvicted
<1> QED  BY <1>1, <1>2, <1>3, LockReports

\* A link that both endpoints reported dead is not forgotten between the lock
\* under which report_link_failure decides the eviction and the one under which
\* end_call carries it out, whatever runs in between.
THEOREM ConfirmedLinksAreEvicted == LocksSpec => []ConfirmedLinkIsBeingEvicted
<1>1. LocksInit => ConfirmedLinkIsBeingEvicted
  BY DEF LocksInit, Init, ConfirmedLinkIsBeingEvicted, Empty
<1> QED  BY <1>1, EvictionNext, LocksInvariant, PTL DEF LocksSpec

=============================================================================
