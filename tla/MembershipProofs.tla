-------------------------- MODULE MembershipProofs --------------------------
(***************************************************************************)
(* Who gets into a call of the call manager, proved for all values of the   *)
(* constants: nobody without an invitation, no more than max_conf_size, and  *)
(* with a join order and link reports that are those of the participants.    *)
(* Two operations add anything: attempt_call a target, accept_call a         *)
(* participant for the targets it answers.  All others shrink what there is. *)
(***************************************************************************)
EXTENDS CallManagerProofs

-----------------------------------------------------------------------------
(* Steps that shrink calls. *)

\* Target t rings for call c in the state s.
TargetIn(s, c, t) == c \in DOMAIN s.ringing /\ t \in DOMAIN s.ringing[c].targets

\* From s to r nobody joined, called or was invited.
Shrinks(s, r) ==
    \A c, y : /\ MemberIn(r, c, y) => MemberIn(s, c, y)
              /\ CallerIn(r, c, y) => CallerIn(s, c, y)
              /\ TargetIn(r, c, y) => TargetIn(s, c, y)

\* One such step after another is such a step.
LEMMA ShrinksTwice ==
    ASSUME NEW s, NEW m, NEW r, Shrinks(s, m), Shrinks(m, r)
    PROVE  Shrinks(s, r)
BY DEF Shrinks

\* As long as batches and calls stay, whatever happens to the indices.
LEMMA SameShrinks ==
    ASSUME NEW s, NEW r, r.ringing = s.ringing, r.active = s.active
    PROVE  Shrinks(s, r)
BY DEF Shrinks, MemberIn, CallerIn, TargetIn

\* end_call.
LEMMA EndCallShrinks ==
    ASSUME NEW s, Typed(s), NEW c \in CallIds, NEW x \in Clients
    PROVE  Shrinks(s, AfterEndCall(s, c, x))
<1> DEFINE r == AfterEndCall(s, c, x)
<1>1. \A d, y : MemberIn(r, d, y) => MemberIn(s, d, y)
  BY EndCallMembers
<1>2. /\ DOMAIN r.ringing \subseteq DOMAIN s.ringing
      /\ \A d \in DOMAIN r.ringing : r.ringing[d] = s.ringing[d]
  <2>1. /\ DOMAIN r.ringing = IF Cancels(s, c, x) THEN DOMAIN s.ringing \ {c} ELSE DOMAIN s.ringing
        /\ \A d \in DOMAIN r.ringing : r.ringing[d] = s.ringing[d]
    BY EndCallRinging
  <2> QED  BY <2>1
<1> HIDE DEF r
<1>3. \A d, y : /\ CallerIn(r, d, y) => CallerIn(s, d, y)
                /\ TargetIn(r, d, y) => TargetIn(s, d, y)
  BY <1>2 DEF CallerIn, TargetIn
<1>4. Shrinks(s, r)
  BY <1>1, <1>3 DEF Shrinks
<1> QED  BY <1>4 DEF r

\* A step that takes batches, targets and callees away.
LEMMA QuieterShrinks ==
    ASSUME NEW s, NEW r, Quieter(s, r)
    PROVE  Shrinks(s, r)
BY DEF Shrinks, MemberIn, CallerIn, TargetIn, Quieter, SameBatch

\* A step that changes nothing of who takes part.
LEMMA RelabelledShrinks ==
    ASSUME NEW s, NEW r, Relabelled(s, r)
    PROVE  Shrinks(s, r)
<1>1. r.ringing = s.ringing /\ \A c, y : MemberIn(r, c, y) => MemberIn(s, c, y)
  BY DEF Relabelled, MemberIn
<1> QED  BY <1>1 DEF Shrinks, CallerIn, TargetIn

\* The client part of cleanup_client_calls.
LEMMA LeavingShrinks ==
    ASSUME NEW s, Typed(s), NEW x \in Clients
    PROVE  Shrinks(s, AfterLeavingOwnCall(s, x)) /\ Typed(AfterLeavingOwnCall(s, x))
<1> DEFINE after == AfterEndCall(s, s.busy[x], x)
           left  == AfterLeavingOwnCall(s, x)
<1>1. CASE x \notin DOMAIN s.busy
  BY <1>1, SameShrinks DEF AfterLeavingOwnCall
<1>2. CASE x \in DOMAIN s.busy
  <2>1. s.busy[x] \in CallIds
    BY <1>2 DEF Typed, IsMap
  <2>2. Shrinks(s, after) /\ Typed(after)
    BY <2>1, EndCallShrinks, EndCallTyped
  <2>3. left = [after EXCEPT !.busy = Remove(@, {x})]
    BY <1>2 DEF AfterLeavingOwnCall
  <2> HIDE DEF after, left
  <2>4. /\ left \in [ringing : {after.ringing}, active : {after.active},
                     incoming : {after.incoming}, busy : {left.busy}]
        /\ left.busy = Remove(after.busy, {x})
    BY <2>2, <2>3 DEF Typed
  <2>5. Shrinks(after, left)
    BY <2>4, SameShrinks
  <2>6. IsMap(left.busy, Clients, CallIds)
    BY <2>2, <2>4, RemoveIsMap DEF Typed
  <2>7. Typed(left)
    BY <2>2, <2>4, <2>6 DEF Typed
  <2> QED  BY <2>2, <2>5, <2>7, ShrinksTwice DEF left
<1> QED  BY <1>1, <1>2

\* A step to a state that shrinks the calls.
LEMMA BecomesShrinks ==
    ASSUME NEW STATE s, Shrinks(Calls, s), Becomes(s)
    PROVE  Shrinks(Calls, Calls')
<1>1. Calls'.ringing = s.ringing /\ Calls'.active = s.active
  BY CallsFields DEF Becomes
<1>2. Shrinks(s, Calls')
  BY ONLY <1>1, SameShrinks
<1> QED  BY ONLY <1>2, Shrinks(Calls, s), ShrinksTwice

-----------------------------------------------------------------------------
(* The actions that shrink calls. *)

\* mark_client_within_ringing_calls.
LEMMA MarkShrinks ==
    ASSUME IndInv, NEW c \in CallIds, NEW x \in Clients,
           IsRinging(c), MarkClientWithinRingingCalls(c, x)
    PROVE  Shrinks(Calls, Calls')
<1> DEFINE call == ringing_calls[c]
           new  == [call EXCEPT !.targets = TargetsAfterFailure(call, x)]
<1>1. Typed(Calls) /\ c \in DOMAIN ringing_calls
  BY DEF IndInv, Inv, Ruled, IsRinging
<1>2. SameBatch(call, new)
  BY <1>1, CallsFields, ClientFailed DEF Typed
<1>3. /\ ringing_calls' \in {ringing_calls, Remove(ringing_calls, {c}),
                             [ringing_calls EXCEPT ![c] = new]}
      /\ active_calls' = active_calls
  BY DEF MarkClientWithinRingingCalls
<1> HIDE DEF new
<1> QED  BY <1>1, <1>2, <1>3, BatchStep, QuieterShrinks

\* drop_ringing_target.
LEMMA DropRingingShrinks ==
    ASSUME IndInv, NEW c \in CallIds, NEW x \in Clients, NEW t \in Targets, DropRingingTarget(c, x, t)
    PROVE  Shrinks(Calls, Calls')
<1> DEFINE call == ringing_calls[c]
           new  == [call EXCEPT !.targets = Remove(@, {t})]
<1>1. Typed(Calls) /\ c \in DOMAIN ringing_calls
  BY DEF IndInv, Inv, Ruled, IsRinging, DropRingingTarget
<1>2. SameBatch(call, new)
  BY <1>1, CallsFields, TargetsGone DEF Typed
<1>3. /\ ringing_calls' \in {ringing_calls, Remove(ringing_calls, {c}),
                             [ringing_calls EXCEPT ![c] = new]}
      /\ active_calls' = active_calls
  BY DEF DropRingingTarget
<1> HIDE DEF new
<1> QED  BY <1>1, <1>2, <1>3, BatchStep, QuieterShrinks

\* end_call.
LEMMA EndShrinks ==
    ASSUME Typed(Calls), NEW c \in CallIds, NEW x \in Clients, EndCall(c, x)
    PROVE  Shrinks(Calls, Calls')
<1>1. Shrinks(Calls, AfterEndCall(Calls, c, x))
  BY EndCallShrinks
<1> QED  BY <1>1, BecomesShrinks DEF EndCall

\* reject_call and fail_ringing_recipient.
LEMMA RejectShrinks ==
    ASSUME IndInv, NEW c \in CallIds, NEW x \in Clients, RejectCall(c, x)
    PROVE  Shrinks(Calls, Calls')
<1>1. CASE RingsFor(c, x)
  BY <1>1, MarkShrinks DEF RejectCall, RingsFor
<1>2. CASE ~RingsFor(c, x)
  <2>1. Calls'.ringing = Calls.ringing /\ Calls'.active = Calls.active
    BY <1>2, CallsFields DEF RejectCall
  <2> QED  BY ONLY <2>1, SameShrinks
<1> QED  BY <1>1, <1>2

\* call_error.
LEMMA ErrorShrinks ==
    ASSUME IndInv, NEW c \in CallIds, NEW x \in Clients, CallError(c, x)
    PROVE  Shrinks(Calls, Calls')
<1>1. CASE RingsFor(c, x)
  BY <1>1, MarkShrinks DEF CallError, RingsFor
<1>2. CASE ~RingsFor(c, x)
  <2> DEFINE s == [Calls EXCEPT !.incoming = Uninvite(@, c, {x})]
  <2>1. Inv(s) /\ s.ringing = Calls.ringing /\ s.active = Calls.active
    BY UninvitedInv DEF IndInv, Calls
  <2>2. Becomes(AfterEndCall(s, c, x))
    BY <1>2 DEF CallError
  <2> HIDE DEF s
  <2>3. Shrinks(Calls, s)
    BY ONLY <2>1, SameShrinks
  <2>4. Shrinks(s, AfterEndCall(s, c, x))
    BY <2>1, EndCallShrinks DEF Inv, Ruled
  <2>5. Shrinks(Calls, AfterEndCall(s, c, x))
    BY ONLY <2>3, <2>4, ShrinksTwice
  <2> QED  BY <2>2, <2>5, BecomesShrinks DEF s
<1> QED  BY <1>1, <1>2

\* report_link_failure, evicting or not.
LEMMA ReportShrinks ==
    ASSUME IndInv, NEW c \in CallIds, NEW x \in Clients, NEW y \in Clients, ReportLinkFailure(c, x, y)
    PROVE  Shrinks(Calls, Calls')
<1> DEFINE recorded == RecordLinkReport(active_calls[c], x, y)
           reported == [Calls EXCEPT !.active[c] = recorded]
           evicted  == LaterJoiner(recorded, x, y)
<1>1. Inv(Calls) /\ Typed(Calls) /\ Calls.active = active_calls
  BY DEF IndInv, Inv, Ruled, Calls
<1>2. c \in DOMAIN active_calls
  BY DEF ReportLinkFailure, Participates, IsActive
<1>3. /\ IsActiveCallEntry(recorded)
      /\ recorded.participants = active_calls[c].participants
      /\ recorded.conference_leader = active_calls[c].conference_leader
  BY <1>1, <1>2, RecordedEntry DEF Typed
<1>4. reported = [Calls EXCEPT !.active = [@ EXCEPT ![c] = recorded]]
  OBVIOUS
<1>5. evicted \in Clients
  BY DEF LaterJoiner
<1>6. Becomes(AfterEndCall(reported, c, evicted)) \/ Becomes(reported)
  BY DEF ReportLinkFailure
<1> HIDE DEF recorded, reported, evicted
<1>7. Inv(reported) /\ Shrinks(Calls, reported)
  BY <1>1, <1>2, <1>3, <1>4, CallRelabelled, RelabelledInv, RelabelledShrinks
<1>8. Shrinks(reported, AfterEndCall(reported, c, evicted))
  BY <1>5, <1>7, EndCallShrinks DEF Inv, Ruled
<1>9. Shrinks(Calls, AfterEndCall(reported, c, evicted))
  BY ONLY <1>7, <1>8, ShrinksTwice
<1>10. CASE Becomes(AfterEndCall(reported, c, evicted))
  BY <1>9, <1>10, BecomesShrinks DEF reported, recorded, evicted
<1>11. CASE Becomes(reported)
  BY <1>7, <1>11, BecomesShrinks DEF reported, recorded
<1> QED  BY <1>6, <1>10, <1>11

\* The expiry of a link report.
LEMMA ExpiryShrinks ==
    ASSUME Typed(Calls), NEW c \in CallIds, NEW pair, LinkReportExpires(c, pair)
    PROVE  Shrinks(Calls, Calls')
<1>1. /\ active_calls' = [active_calls EXCEPT ![c].link_reports[pair].fresh = FALSE]
      /\ c \in DOMAIN active_calls /\ ringing_calls' = ringing_calls
  BY DEF LinkReportExpires, IsActive
<1>2. IsActiveCallEntry(active_calls[c])
  BY <1>1, CallsFields DEF Typed
<1>3. \A d, y : MemberIn(Calls', d, y) => MemberIn(Calls, d, y)
  BY <1>1, <1>2, CallsFields DEF MemberIn, IsActiveCallEntry
<1>4. \A d, y : /\ CallerIn(Calls', d, y) => CallerIn(Calls, d, y)
                /\ TargetIn(Calls', d, y) => TargetIn(Calls, d, y)
  BY <1>1, CallsFields DEF CallerIn, TargetIn
<1> QED  BY <1>3, <1>4 DEF Shrinks

\* cleanup_client_calls.
LEMMA CleanupShrinks ==
    ASSUME IndInv, NEW x \in Clients, CleanupClientCalls(x)
    PROVE  Shrinks(Calls, Calls')
<1> DEFINE left  == AfterLeavingOwnCall(Calls, x)
           gone  == [left EXCEPT !.incoming[x] = Empty]
           r     == AfterInvitationsLapse(gone, x, left.incoming[x])
<1>1. Inv(left) /\ Shrinks(Calls, left)
  BY LeavingOwnCallInv, LeavingShrinks DEF IndInv, Inv, Ruled
<1>2. Becomes(r)
  BY DEF CleanupClientCalls
<1> HIDE DEF left
<1>3. Relabelled(left, gone)
  BY <1>1, TakenRelabelled DEF Inv, Ruled
<1> HIDE DEF gone
<1>4. Typed(gone) /\ Shrinks(left, gone)
  BY <1>1, <1>3, RelabelledRuled, RelabelledShrinks DEF Inv, Ruled
<1>5. Shrinks(gone, r)
  BY <1>4, LapseEffect, QuieterShrinks
<1>6. Shrinks(Calls, r)
  BY ONLY <1>1, <1>4, <1>5, ShrinksTwice
<1> QED  BY <1>2, <1>6, BecomesShrinks DEF gone, left

\* Some client attempts a call as Next lets it.
Attempts ==
    \E c \in CallIds, x \in Clients, t \in Targets :
       \E st \in Targets, notified \in SUBSET Clients :
          AttemptCall(c, x, [client_id |-> x, target |-> st], t, notified)

\* Every step but those of attempt_call and accept_call shrinks calls.
LEMMA NextShrinks ==
    ASSUME IndInv, [Next]_vars
    PROVE  Shrinks(Calls, Calls') \/ Attempts \/ \E c \in CallIds, x \in Clients : AcceptCall(c, x)
<1>1. ASSUME NEW c \in CallIds, NEW x \in Clients, NEW t \in Targets,
             NEW st \in SourceTargets[x], NEW resolved \in Resolves[t],
             AttemptCall(c, x, [client_id |-> x, target |-> st], t, resolved \ {x})
      PROVE  Attempts
  <2>1. st \in Targets /\ resolved \ {x} \in SUBSET Clients
    BY ResolutionTypes
  <2> QED  BY <1>1, <2>1 DEF Attempts
<1>2. ASSUME NEW c \in CallIds, NEW x \in Clients, NEW t \in Targets,
             NEW reason \in DropReasons, DropTarget(c, x, t, reason)
      PROVE  Shrinks(Calls, Calls')
  <2>1. CASE DropRingingTarget(c, x, t)
    BY <2>1, DropRingingShrinks
  <2>2. CASE DropJoinedParticipant(c, x, t, reason)
    BY <2>2, DropJoinedIsLeave, EndShrinks DEF IndInv, Inv, Ruled
  <2> QED  BY <1>2, <2>1, <2>2 DEF DropTarget
<1>3. ASSUME NEW c \in CallIds, NEW x \in Clients,
             RejectCall(c, x) \/ CallError(c, x) \/ EndCall(c, x)
      PROVE  Shrinks(Calls, Calls')
  BY <1>3, RejectShrinks, ErrorShrinks, EndShrinks DEF IndInv, Inv, Ruled
<1>4. ASSUME NEW c \in CallIds, NEW pair \in FlakyLinks, NEW x \in pair, NEW y \in pair,
             ReportLinkFailure(c, x, y)
      PROVE  Shrinks(Calls, Calls')
  <2>1. x \in Clients /\ y \in Clients
    BY ResolutionTypes
  <2> QED  BY <1>4, <2>1, ReportShrinks
<1>5. ASSUME NEW c \in CallIds, NEW pair \in FlakyLinks, LinkReportExpires(c, pair)
      PROVE  Shrinks(Calls, Calls')
  BY <1>5, ExpiryShrinks DEF IndInv, Inv, Ruled
<1>6. ASSUME NEW x \in Clients, CleanupClientCalls(x)
      PROVE  Shrinks(Calls, Calls')
  BY <1>6, CleanupShrinks
<1>7. CASE UNCHANGED vars
  <2>1. Calls'.ringing = Calls.ringing /\ Calls'.active = Calls.active
    BY <1>7, CallsFields DEF vars
  <2> QED  BY ONLY <2>1, SameShrinks
<1> QED
  BY <1>1, <1>2, <1>3, <1>4, <1>5, <1>6, <1>7 DEF Next

-----------------------------------------------------------------------------
(* Nobody joins uninvited. *)

\* What a step may do to the participants of call c.
Invited(c, x) ==
    \/ Participates(c, x)
    \/ /\ IsRinging(c)
       /\ \/ x \in InvitedClients(ringing_calls[c])
          \/ ~IsActive(c) /\ x = ringing_calls[c].caller_id

\* accept_call lets in whom it was sent to and, into a new call, the caller.
LEMMA AcceptInvites ==
    ASSUME Ruled(Calls), NEW c \in CallIds, NEW x \in Clients, AcceptCall(c, x),
           NEW d \in DOMAIN active_calls', NEW y \in ParticipantsOf(active_calls'[d])
    PROVE  Invited(d, y)
<1> DEFINE call   == ringing_calls[c]
           joined == IF IsActive(c) THEN DOMAIN active_calls[c].participants ELSE {call.caller_id}
<1>1. /\ DOMAIN active_calls'[c].participants = joined \cup {x}
      /\ DOMAIN active_calls' = DOMAIN active_calls \cup {c}
      /\ \A e \in DOMAIN active_calls' : e # c => active_calls'[e] = active_calls[e]
  BY AcceptJoins
<1>2. IsRinging(c) /\ x \in InvitedClients(call)
  BY DEF AcceptCall, AnsweredTargets, InvitedClients
<1>3. CASE d = c
  BY <1>1, <1>2, <1>3 DEF Invited, Participates, ParticipantsOf
<1>4. CASE d # c
  BY <1>1, <1>4 DEF Invited, Participates, ParticipantsOf, IsActive
<1> QED  BY <1>3, <1>4

\* Where nobody joins, everybody was in the call.
LEMMA ShrunkInvites ==
    ASSUME Shrinks(Calls, Calls'),
           NEW d \in DOMAIN active_calls', NEW y \in ParticipantsOf(active_calls'[d])
    PROVE  Invited(d, y)
<1>1. MemberIn(Calls', d, y)
  BY CallsFields DEF MemberIn, ParticipantsOf
<1>2. MemberIn(Calls, d, y)
  BY <1>1 DEF Shrinks
<1> QED  BY <1>2, CallsFields DEF MemberIn, Invited, Participates, IsActive, ParticipantsOf

\* Whoever is in a call after a step was in it or had been invited.
LEMMA StepInvites ==
    ASSUME IndInv, [Next]_vars, NEW d \in DOMAIN active_calls', NEW y \in ParticipantsOf(active_calls'[d])
    PROVE  Invited(d, y)
<1>1. CASE Shrinks(Calls, Calls')
  BY <1>1, ShrunkInvites
<1>2. CASE Attempts
  BY <1>2 DEF Attempts, AttemptCall, Invited, Participates, IsActive
<1>3. ASSUME NEW c \in CallIds, NEW x \in Clients, AcceptCall(c, x)
      PROVE  Invited(d, y)
  BY <1>3, AcceptInvites DEF IndInv, Inv, Ruled
<1> QED  BY <1>1, <1>2, <1>3, NextShrinks

\* Nobody is pulled into a call (accept_call is the only way in, and takes the caller along
\* only into a call that has not started).
THEOREM JoinersWereInvited == Spec => JoinsOnlyByInvitation
<1> DEFINE Joins ==
      \A c \in DOMAIN active_calls' :
        \A x \in ParticipantsOf(active_calls'[c]) :
           Participates(c, x)
           \/ /\ IsRinging(c)
              /\ \/ x \in InvitedClients(ringing_calls[c])
                 \/ ~IsActive(c) /\ x = ringing_calls[c].caller_id
<1>1. IndInv /\ [Next]_vars => Joins
  BY StepInvites DEF Invited
<1> HIDE DEF Joins
<1>2. IndInv /\ [Next]_vars => [Joins]_vars
  BY <1>1
<1>3. Spec => [][Joins]_vars
  BY <1>2, InductiveInvariant, PTL DEF Spec
<1> QED  BY <1>3, PTL DEF Joins, JoinsOnlyByInvitation

-----------------------------------------------------------------------------
(* The size of a call. *)

\* The clients of call c in s: its participants and whoever invites into it.
Seated(s, c) == {y \in Clients : MemberIn(s, c, y) \/ CallerIn(s, c, y)}

\* The targets that ring for call c in s.
RingingFor(s, c) == {t \in Targets : TargetIn(s, c, t)}

\* The call c of s has room for everybody it rings.
Fits(s, c) ==
    /\ IsFiniteSet(RingingFor(s, c))
    /\ Cardinality(Seated(s, c)) + Cardinality(RingingFor(s, c)) <= max_conf_size

\* There are finitely many clients in a call.
LEMMA SeatedFinite ==
    ASSUME NEW s, NEW c
    PROVE  IsFiniteSet(Seated(s, c)) /\ Cardinality(Seated(s, c)) \in Nat
<1>1. Seated(s, c) \in SUBSET Clients
  BY DEF Seated
<1> QED  BY <1>1, ClientsAreFinite, FS_Subset, FS_CardinalityType

\* A call that shrinks keeps fitting.
LEMMA ShrunkFits ==
    ASSUME NEW s, NEW r, NEW c, Fits(s, c),
           Seated(r, c) \subseteq Seated(s, c), RingingFor(r, c) \subseteq RingingFor(s, c)
    PROVE  Fits(r, c)
<1>1. /\ Cardinality(Seated(s, c)) \in Nat /\ Cardinality(Seated(r, c)) \in Nat
      /\ Cardinality(Seated(r, c)) <= Cardinality(Seated(s, c))
  BY SeatedFinite, FS_Subset
<1>2. /\ IsFiniteSet(RingingFor(s, c)) /\ IsFiniteSet(RingingFor(r, c))
      /\ Cardinality(RingingFor(r, c)) <= Cardinality(RingingFor(s, c))
  BY FS_Subset DEF Fits
<1>3. Cardinality(RingingFor(s, c)) \in Nat /\ Cardinality(RingingFor(r, c)) \in Nat
  BY <1>2, FS_CardinalityType
<1>4. Cardinality(Seated(s, c)) + Cardinality(RingingFor(s, c)) <= max_conf_size
  BY DEF Fits
<1>5. Cardinality(Seated(r, c)) + Cardinality(RingingFor(r, c)) <= max_conf_size
  BY ONLY <1>1, <1>2, <1>3, <1>4, MaxConfSizeIsNat
<1> QED  BY <1>2, <1>5 DEF Fits

\* So it does in a step that shrinks calls.
LEMMA ShrinkFits ==
    ASSUME NEW s, NEW r, Shrinks(s, r), NEW c, Fits(s, c)
    PROVE  Fits(r, c)
<1>1. Seated(r, c) \subseteq Seated(s, c) /\ RingingFor(r, c) \subseteq RingingFor(s, c)
  BY ONLY Shrinks(s, r) DEF Shrinks, Seated, RingingFor
<1> QED  BY ONLY <1>1, Fits(s, c), ShrunkFits

\* The inductive invariant: every call fits.
SizedInv == IndInv /\ \A c \in CallIds : Fits(Calls, c)

\* attempt_call checked that its target and, in a new call, its caller still fit.
LEMMA AttemptFits ==
    ASSUME Typed(Calls), \A e \in CallIds : Fits(Calls, e), NEW c \in CallIds, NEW x \in Clients, NEW t \in Targets,
           NEW source, NEW notified, AttemptCall(c, x, source, t, notified), NEW d \in CallIds
    PROVE  Fits(Calls', d)
<1> DEFINE entry   == NewRingingTarget(source, notified)
           batch   == IF IsRinging(c)
                      THEN [ringing_calls[c] EXCEPT !.targets = Put(@, t, entry)]
                      ELSE [caller_id |-> x, targets |-> Put(Empty, t, entry)]
           joined  == IF IsActive(c) THEN active_calls[c].participants ELSE Empty
           ringing == IF IsRinging(c) THEN DOMAIN ringing_calls[c].targets ELSE {}
           added   == {u \in {t} : u \notin ringing /\ u \notin Range(joined)}
<1>1. Typed(Calls) /\ Fits(Calls, c) /\ Fits(Calls, d)
  OBVIOUS
<1>2. ringing_calls' = Put(ringing_calls, c, batch) /\ active_calls' = active_calls
  BY DEF AttemptCall
<1>3. t \notin ringing /\ t \notin Range(joined) /\ (IsRinging(c) => ringing_calls[c].caller_id = x)
  BY DEF AttemptCall, ValidCallAttempt, Range, Empty
<1>4. /\ IsActive(c) => DOMAIN active_calls[c].participants \subseteq Clients
      /\ IsRinging(c) => IsRingingCallEntry(ringing_calls[c])
  BY <1>1, CallsFields DEF Typed, IsActive, IsRinging, IsActiveCallEntry, IsMap
<1>5. batch.caller_id = x /\ DOMAIN batch.targets = ringing \cup {t}
  BY <1>3, <1>4 DEF Put, Empty, IsRingingCallEntry
<1>6. ~(Cardinality(DOMAIN joined) + Cardinality(ringing) + Cardinality(added)
          + (IF x \in DOMAIN joined THEN 0 ELSE 1) > max_conf_size)
  BY DEF AttemptCall, InviteExceedsMaxConfSize
<1>7. added = {t}
  BY <1>3
<1>8. DOMAIN joined \subseteq Clients /\ (\A y : y \in DOMAIN joined <=> MemberIn(Calls, c, y))
  BY <1>4, CallsFields DEF Empty, MemberIn, IsActive
<1>9. /\ ringing \subseteq Targets
      /\ \A u : u \in ringing <=> TargetIn(Calls, c, u)
  BY <1>4, CallsFields DEF TargetIn, IsRinging, IsRingingCallEntry, IsMap
<1> HIDE DEF batch, joined, ringing, added
<1>10. CASE d # c
  <2>1. /\ Calls'.active = Calls.active
        /\ d \in DOMAIN Calls'.ringing <=> d \in DOMAIN Calls.ringing
        /\ d \in DOMAIN Calls.ringing => Calls'.ringing[d] = Calls.ringing[d]
    BY <1>2, <1>10, CallsFields DEF Put
  <2>2. Seated(Calls', d) = Seated(Calls, d) /\ RingingFor(Calls', d) = RingingFor(Calls, d)
    BY ONLY <2>1 DEF Seated, RingingFor, MemberIn, CallerIn, TargetIn
  <2> QED  BY ONLY <1>1, <2>2 DEF Fits
<1>11. CASE d = c
  <2>1. /\ Calls'.active = Calls.active /\ c \in DOMAIN Calls'.ringing
        /\ Calls'.ringing[c].caller_id = x /\ DOMAIN Calls'.ringing[c].targets = ringing \cup {t}
    BY <1>2, <1>5, CallsFields DEF Put
  <2>2. Seated(Calls', c) = DOMAIN joined \cup {x}
    <3>1. \A y : /\ MemberIn(Calls', c, y) <=> MemberIn(Calls, c, y)
                 /\ CallerIn(Calls', c, y) <=> y = x
      BY ONLY <2>1 DEF MemberIn, CallerIn
    <3> QED  BY <1>8, <3>1 DEF Seated
  <2>3. RingingFor(Calls', c) = ringing \cup {t} /\ RingingFor(Calls, c) = ringing
    <3>1. \A u : TargetIn(Calls', c, u) <=> u \in ringing \cup {t}
      BY ONLY <2>1 DEF TargetIn
    <3> QED  BY <1>9, <3>1 DEF RingingFor
  <2>4. /\ Cardinality(DOMAIN joined) \in Nat
        /\ Cardinality(DOMAIN joined \cup {x}) =
             Cardinality(DOMAIN joined) + (IF x \in DOMAIN joined THEN 0 ELSE 1)
    <3>1. IsFiniteSet(DOMAIN joined)
      BY <1>8, ClientsAreFinite, FS_Subset
    <3>2. Cardinality(DOMAIN joined) \in Nat
      BY <3>1, FS_CardinalityType
    <3>3. Cardinality(DOMAIN joined \cup {x}) =
            IF x \in DOMAIN joined THEN Cardinality(DOMAIN joined) ELSE Cardinality(DOMAIN joined) + 1
      BY ONLY <3>1, FS_AddElement
    <3> QED  BY ONLY <3>2, <3>3
  <2>5. /\ IsFiniteSet(ringing \cup {t}) /\ Cardinality(ringing) \in Nat
        /\ Cardinality(ringing \cup {t}) = Cardinality(ringing) + 1
    <3>1. IsFiniteSet(ringing)
      BY <1>1, <2>3 DEF Fits
    <3>2. IsFiniteSet(ringing \cup {t})
          /\ Cardinality(ringing \cup {t}) = IF t \in ringing THEN Cardinality(ringing) ELSE Cardinality(ringing) + 1
      BY ONLY <3>1, FS_AddElement
    <3> QED  BY <1>3, <3>1, <3>2, FS_CardinalityType
  <2>6. Cardinality(added) = 1
    BY <1>7, FS_Singleton
  <2>7. Cardinality(DOMAIN joined \cup {x}) + Cardinality(ringing \cup {t}) <= max_conf_size
    BY ONLY <1>6, <2>4, <2>5, <2>6, MaxConfSizeIsNat
  <2> QED  BY ONLY <1>11, <2>2, <2>3, <2>5, <2>7 DEF Fits
<1> QED  BY <1>10, <1>11

\* accept_call trades the targets it answers for one participant.
LEMMA AcceptFits ==
    ASSUME Ruled(Calls), \A e \in CallIds : Fits(Calls, e),
           NEW c \in CallIds, NEW x \in Clients, AcceptCall(c, x), NEW d \in CallIds
    PROVE  Fits(Calls', d)
<1> DEFINE call    == ringing_calls[c]
           answers == AnsweredTargets(call, x)
           joined  == IF IsActive(c) THEN DOMAIN active_calls[c].participants ELSE {call.caller_id}
<1>1. Typed(Calls) /\ Fits(Calls, c) /\ Fits(Calls, d)
  BY DEF Ruled
<1>2. /\ DOMAIN active_calls'[c].participants = joined \cup {x}
      /\ DOMAIN active_calls' = DOMAIN active_calls \cup {c}
      /\ \A e \in DOMAIN active_calls' : e # c => active_calls'[e] = active_calls[e]
      /\ IsRingingCallEntry(call)
      /\ IsActive(c) => call.caller_id \in DOMAIN active_calls[c].participants
  BY AcceptJoins
<1>3. /\ c \in DOMAIN ringing_calls /\ answers # {}
      /\ ringing_calls' = IF answers = DOMAIN call.targets THEN Remove(ringing_calls, {c})
                          ELSE [ringing_calls EXCEPT ![c].targets = Remove(@, answers)]
  BY DEF AcceptCall, IsRinging
<1>4. PICK t \in DOMAIN call.targets : t \in answers
  BY <1>3 DEF AnsweredTargets
<1>5. ringing_calls = [e \in DOMAIN ringing_calls |-> ringing_calls[e]]
  BY <1>1, CallsFields DEF Typed
<1>6. /\ DOMAIN ringing_calls' \subseteq DOMAIN ringing_calls
      /\ \A e \in DOMAIN ringing_calls' :
           /\ ringing_calls'[e].caller_id = ringing_calls[e].caller_id
           /\ DOMAIN ringing_calls'[e].targets \subseteq DOMAIN ringing_calls[e].targets
           /\ e = c => t \notin DOMAIN ringing_calls'[e].targets
  <2> HIDE DEF answers
  <2>1. CASE answers = DOMAIN call.targets
    <3>1. ringing_calls' = Remove(ringing_calls, {c})
      BY <1>3, <2>1
    <3> QED  BY ONLY <3>1 DEF Remove, Restrict
  <2>2. CASE answers # DOMAIN call.targets
    <3> DEFINE left == Remove(call.targets, answers)
    <3>1. ringing_calls' = [ringing_calls EXCEPT ![c].targets = left]
      BY <1>3, <2>2
    <3>2. DOMAIN left \subseteq DOMAIN call.targets /\ t \notin DOMAIN left
      BY <1>4 DEF Remove, Restrict
    <3> HIDE DEF left
    <3>3. /\ DOMAIN ringing_calls' = DOMAIN ringing_calls
          /\ \A e \in DOMAIN ringing_calls : e # c => ringing_calls'[e] = ringing_calls[e]
          /\ ringing_calls'[c].caller_id = call.caller_id /\ ringing_calls'[c].targets = left
      BY <1>2, <1>3, <1>5, <3>1 DEF IsRingingCallEntry
    <3> QED  BY <3>2, <3>3
  <2> QED  BY <2>1, <2>2
<1> HIDE DEF answers
<1>7. /\ \A e, y : CallerIn(Calls', e, y) => CallerIn(Calls, e, y)
      /\ \A e, u : TargetIn(Calls', e, u) => TargetIn(Calls, e, u) /\ ~(e = c /\ u = t)
  BY <1>6, CallsFields DEF CallerIn, TargetIn
<1>8. \A e, y : MemberIn(Calls', e, y) => MemberIn(Calls, e, y) \/ CallerIn(Calls, e, y) \/ (e = c /\ y = x)
  BY <1>2, <1>3, CallsFields DEF MemberIn, CallerIn, IsActive
<1>9. CASE d # c
  <2>1. Seated(Calls', d) \subseteq Seated(Calls, d) /\ RingingFor(Calls', d) \subseteq RingingFor(Calls, d)
    BY <1>7, <1>8, <1>9 DEF Seated, RingingFor
  <2> QED  BY ONLY <1>1, <2>1, ShrunkFits
<1>10. CASE d = c
  <2> DEFINE S == Seated(Calls, c)
             R == RingingFor(Calls, c)
  <2>1. Seated(Calls', c) \subseteq S \cup {x} /\ RingingFor(Calls', c) \subseteq R \ {t} /\ t \in R
    <3>1. t \in Targets /\ TargetIn(Calls, c, t)
      BY <1>2, <1>3, CallsFields DEF TargetIn, IsRingingCallEntry, IsMap
    <3> QED  BY <1>7, <1>8, <3>1 DEF Seated, RingingFor
  <2>2. IsFiniteSet(R) /\ Cardinality(S) + Cardinality(R) <= max_conf_size
    BY <1>1 DEF Fits
  <2>3. IsFiniteSet(S) /\ Cardinality(S) \in Nat /\ Cardinality(Seated(Calls', c)) \in Nat
    BY SeatedFinite
  <2> HIDE DEF S, R
  <2>4. Cardinality(Seated(Calls', c)) <= Cardinality(S) + 1
    <3>1. IsFiniteSet(S \cup {x})
          /\ Cardinality(S \cup {x}) = IF x \in S THEN Cardinality(S) ELSE Cardinality(S) + 1
      BY ONLY <2>3, FS_AddElement
    <3>2. Cardinality(Seated(Calls', c)) <= Cardinality(S \cup {x})
      BY ONLY <2>1, <3>1, FS_Subset
    <3> QED  BY ONLY <2>3, <3>1, <3>2
  <2>5. /\ IsFiniteSet(RingingFor(Calls', c)) /\ Cardinality(RingingFor(Calls', c)) \in Nat
        /\ Cardinality(R) \in Nat /\ Cardinality(RingingFor(Calls', c)) <= Cardinality(R) - 1
    <3>1. IsFiniteSet(R \ {t}) /\ Cardinality(R \ {t}) = IF t \in R THEN Cardinality(R) - 1 ELSE Cardinality(R)
      BY ONLY <2>2, FS_RemoveElement
    <3>2. IsFiniteSet(RingingFor(Calls', c)) /\ Cardinality(RingingFor(Calls', c)) <= Cardinality(R \ {t})
      BY ONLY <2>1, <3>1, FS_Subset
    <3>3. Cardinality(R) \in Nat /\ Cardinality(RingingFor(Calls', c)) \in Nat
      BY ONLY <2>2, <3>2, FS_CardinalityType
    <3> QED  BY ONLY <2>1, <3>1, <3>2, <3>3
  <2>6. Cardinality(Seated(Calls', c)) + Cardinality(RingingFor(Calls', c)) <= max_conf_size
    BY ONLY <2>2, <2>3, <2>4, <2>5, MaxConfSizeIsNat
  <2> QED  BY ONLY <1>10, <2>5, <2>6 DEF Fits
<1> QED  BY <1>9, <1>10

\* Every step keeps every call within its size.
LEMMA NextSized == SizedInv /\ [Next]_vars => SizedInv'
<1> SUFFICES ASSUME SizedInv, [Next]_vars PROVE SizedInv'
  OBVIOUS
<1>1. IndInv /\ IndInv'
  BY NextInv DEF SizedInv
<1>2. ASSUME NEW d \in CallIds PROVE Fits(Calls', d)
  <2>1. CASE Shrinks(Calls, Calls')
    BY <2>1, ShrinkFits DEF SizedInv
  <2>2. CASE Attempts
    BY <1>1, <2>2, AttemptFits DEF Attempts, SizedInv, IndInv, Inv, Ruled
  <2>3. ASSUME NEW c \in CallIds, NEW x \in Clients, AcceptCall(c, x)
        PROVE  Fits(Calls', d)
    BY <1>1, <2>3, AcceptFits DEF SizedInv, IndInv, Inv, Ruled
  <2> QED  BY <1>1, <2>1, <2>2, <2>3, NextShrinks
<1> QED  BY <1>1, <1>2 DEF SizedInv

\* There are no calls at first.
LEMMA InitSized == Init => SizedInv
<1> SUFFICES ASSUME Init, NEW c \in CallIds PROVE Fits(Calls, c)
  BY InitInv DEF SizedInv
<1>1. DOMAIN Calls.ringing = {} /\ DOMAIN Calls.active = {}
  BY DEF Init, Calls, Empty
<1>2. Seated(Calls, c) = {} /\ RingingFor(Calls, c) = {}
  BY <1>1 DEF Seated, RingingFor, MemberIn, CallerIn, TargetIn
<1> QED  BY <1>2, FS_EmptySet, MaxConfSizeIsNat DEF Fits

\* Every call fits in every reachable state.
THEOREM SizeInvariant == Spec => []SizedInv
BY InitSized, NextSized, PTL DEF Spec

\* The participants and targets as the property counts them.
LEMMA FitsBounded ==
    ASSUME Typed(Calls), \A e \in CallIds : Fits(Calls, e)
    PROVE  ConferenceSizeIsBounded
<1> SUFFICES ASSUME NEW c \in CallIds
             PROVE  LET joined  == IF IsActive(c) THEN ParticipantsOf(active_calls[c]) ELSE {}
                        ringing == IF IsRinging(c) THEN DOMAIN ringing_calls[c].targets ELSE {}
                        caller  == IF IsRinging(c) THEN {ringing_calls[c].caller_id} ELSE {}
                    IN  Cardinality(joined \cup caller) + Cardinality(ringing) <= max_conf_size
  BY DEF ConferenceSizeIsBounded
<1> DEFINE joined  == IF IsActive(c) THEN ParticipantsOf(active_calls[c]) ELSE {}
           ringing == IF IsRinging(c) THEN DOMAIN ringing_calls[c].targets ELSE {}
           caller  == IF IsRinging(c) THEN {ringing_calls[c].caller_id} ELSE {}
<1>1. Typed(Calls) /\ Fits(Calls, c)
  OBVIOUS
<1>2. /\ IsActive(c) => ParticipantsOf(active_calls[c]) \subseteq Clients
      /\ IsRinging(c) => ringing_calls[c].caller_id \in Clients /\ DOMAIN ringing_calls[c].targets \subseteq Targets
  BY <1>1, CallsFields DEF Typed, IsActive, IsRinging, IsActiveCallEntry, IsRingingCallEntry, IsMap, ParticipantsOf
<1>3. joined \cup caller = Seated(Calls, c) /\ ringing = RingingFor(Calls, c)
  BY <1>2, CallsFields DEF Seated, RingingFor, MemberIn, CallerIn, TargetIn, IsActive, IsRinging, ParticipantsOf
<1> HIDE DEF joined, ringing, caller
<1>4. Cardinality(joined \cup caller) + Cardinality(ringing) <= max_conf_size
  BY ONLY <1>1, <1>3 DEF Fits
<1> QED  BY <1>4 DEF joined, ringing, caller

\* No call ever exceeds max_conf_size, though the size is checked only when invitations are
\* sent and never when they are answered (invite_exceeds_max_conf_size).
THEOREM SizesAreBounded == Spec => []ConferenceSizeIsBounded
<1>1. SizedInv => ConferenceSizeIsBounded
  BY FitsBounded DEF SizedInv, IndInv, Inv, Ruled
<1> QED  BY <1>1, SizeInvariant, PTL

-----------------------------------------------------------------------------
(* The join order and the link reports of a call. *)

\* The participants of a call are in order: each has a sequence number of its own.
InOrder(call) ==
    /\ DOMAIN call.join_order = DOMAIN call.participants
    /\ \A x \in DOMAIN call.participants : call.join_order[x] < call.next_join_seq
    /\ \A x, y \in DOMAIN call.participants : x # y => call.join_order[x] # call.join_order[y]

\* A report about two participants, one of whom has not confirmed it.
OpenReport(call, pair) ==
    /\ pair \subseteq DOMAIN call.participants
    /\ \E x \in pair : call.link_reports[pair].reporters = {x}

\* JoinOrderAndReportsMatchParticipants for one call.
Exact(call) == InOrder(call) /\ \A pair \in DOMAIN call.link_reports : OpenReport(call, pair)

\* The same but for the reports about z, which is about to be evicted.
ExactBut(call, z) ==
    InOrder(call) /\ \A pair \in DOMAIN call.link_reports : z \notin pair => OpenReport(call, pair)

\* A departure takes the reports about the departed along (forget_participant).
LEMMA DepartedFields ==
    ASSUME NEW call, IsActiveCallEntry(call), NEW x \in Clients
    PROVE  LET rest == WithoutParticipant(call, x)
           IN  /\ DOMAIN rest.participants = DOMAIN call.participants \ {x}
               /\ DOMAIN rest.join_order = DOMAIN call.join_order \ {x}
               /\ \A y \in DOMAIN rest.join_order : rest.join_order[y] = call.join_order[y]
               /\ rest.next_join_seq = call.next_join_seq
               /\ DOMAIN rest.link_reports = {p \in DOMAIN call.link_reports : x \notin p}
               /\ \A p \in DOMAIN rest.link_reports : rest.link_reports[p] = call.link_reports[p]
<1> DEFINE rest == WithoutParticipant(call, x)
           gone == {p \in DOMAIN call.link_reports : x \in p}
           mid  == [ForgetParticipant(call, x) EXCEPT !.participants = Remove(@, {x})]
<1>1. mid \in [conference_leader : {call.conference_leader},
               participants : {Remove(call.participants, {x})},
               join_order : {Remove(call.join_order, {x})},
               next_join_seq : {call.next_join_seq},
               link_reports : {Remove(call.link_reports, gone)}]
  BY DEF IsActiveCallEntry, ForgetParticipant
<1>2. rest \in {mid, [mid EXCEPT !.conference_leader = None]}
  BY DEF WithoutParticipant
<1> HIDE DEF mid, rest
<1>3. /\ rest.participants = Remove(call.participants, {x})
      /\ rest.join_order = Remove(call.join_order, {x})
      /\ rest.next_join_seq = call.next_join_seq
      /\ rest.link_reports = Remove(call.link_reports, gone)
  BY <1>1, <1>2
<1>4. /\ DOMAIN rest.participants = DOMAIN call.participants \ {x}
      /\ DOMAIN rest.join_order = DOMAIN call.join_order \ {x}
      /\ \A y \in DOMAIN rest.join_order : rest.join_order[y] = call.join_order[y]
  BY <1>3 DEF Remove, Restrict
<1>5. /\ DOMAIN rest.link_reports = {p \in DOMAIN call.link_reports : x \notin p}
      /\ \A p \in DOMAIN rest.link_reports : rest.link_reports[p] = call.link_reports[p]
  BY <1>3 DEF Remove, Restrict
<1> QED  BY <1>3, <1>4, <1>5 DEF rest

\* So what is left is exact if what was not about the departed was.
LEMMA DepartedExact ==
    ASSUME NEW call, IsActiveCallEntry(call), NEW x \in Clients, ExactBut(call, x)
    PROVE  Exact(WithoutParticipant(call, x))
<1> DEFINE rest == WithoutParticipant(call, x)
<1>1. /\ DOMAIN rest.participants = DOMAIN call.participants \ {x}
      /\ DOMAIN rest.join_order = DOMAIN call.join_order \ {x}
      /\ \A y \in DOMAIN rest.join_order : rest.join_order[y] = call.join_order[y]
      /\ rest.next_join_seq = call.next_join_seq
      /\ DOMAIN rest.link_reports = {p \in DOMAIN call.link_reports : x \notin p}
      /\ \A p \in DOMAIN rest.link_reports : rest.link_reports[p] = call.link_reports[p]
  BY DepartedFields
<1> HIDE DEF rest
<1>2. InOrder(rest)
  BY <1>1 DEF ExactBut, InOrder
<1>3. \A p \in DOMAIN rest.link_reports : OpenReport(rest, p)
  BY <1>1 DEF ExactBut, OpenReport
<1>4. Exact(rest)
  BY <1>2, <1>3 DEF Exact
<1> QED  BY <1>4 DEF rest

\* Whoever joins takes the next sequence number (record_join).
LEMMA JoinedExact ==
    ASSUME NEW call, IsActiveCallEntry(call), Exact(call), NEW x \in Clients \ DOMAIN call.participants, NEW t
    PROVE  Exact(Joined(call, x, t))
<1> DEFINE new == Joined(call, x, t)
<1>1. /\ new.participants = Put(call.participants, x, t)
      /\ new.join_order = Put(call.join_order, x, call.next_join_seq)
      /\ new.next_join_seq = call.next_join_seq + 1
      /\ new.link_reports = call.link_reports
  BY JoinedFields
<1>2. /\ call.next_join_seq \in Nat
      /\ \A y \in DOMAIN call.participants : call.join_order[y] \in Nat
  BY DEF IsActiveCallEntry, IsMap, Exact, InOrder
<1> HIDE DEF new
<1>3. /\ DOMAIN new.participants = DOMAIN call.participants \cup {x}
      /\ DOMAIN new.join_order = DOMAIN call.join_order \cup {x}
      /\ new.join_order[x] = call.next_join_seq
      /\ \A y \in DOMAIN call.join_order : y # x => new.join_order[y] = call.join_order[y]
  BY <1>1 DEF Put
<1>4. InOrder(new)
  BY <1>1, <1>2, <1>3 DEF Exact, InOrder
<1>5. \A p \in DOMAIN new.link_reports : OpenReport(new, p)
  BY <1>1, <1>3 DEF Exact, OpenReport
<1>6. Exact(new)
  BY <1>4, <1>5 DEF Exact
<1> QED  BY <1>6 DEF new

\* A report is open until the other endpoint confirms it; an older report about the same pair
\* that expired is replaced (record_link_report).
LEMMA RecordedExact ==
    ASSUME NEW call, IsActiveCallEntry(call), Exact(call),
           NEW x \in DOMAIN call.participants, NEW y \in DOMAIN call.participants, x # y
    PROVE  LET new == RecordLinkReport(call, x, y)
           IN  /\ \A z \in {x, y} : ExactBut(new, z)
               /\ ~LinkConfirmed(new, x, y) => Exact(new)
<1> DEFINE new   == RecordLinkReport(call, x, y)
           key   == {x, y}
           valid == key \in DOMAIN call.link_reports /\ call.link_reports[key].fresh
           known == IF valid THEN call.link_reports[key].reporters ELSE {}
           report == [reporters |-> known \cup {x}, fresh |-> TRUE]
<1>1. new = [call EXCEPT !.link_reports = Put(call.link_reports, key, report)]
  BY DEF RecordLinkReport, LinkKey
<1>2. key \in DOMAIN call.link_reports => \E z \in key : call.link_reports[key].reporters = {z}
  BY DEF Exact, OpenReport
<1>3. known = {} \/ known = {x} \/ known = {y}
  BY <1>2
<1>4. report.reporters = known \cup {x}
  OBVIOUS
<1> HIDE DEF new, report, known
<1>5. /\ new.participants = call.participants /\ new.join_order = call.join_order
      /\ new.next_join_seq = call.next_join_seq
      /\ new.link_reports = Put(call.link_reports, key, report)
  BY <1>1 DEF IsActiveCallEntry
<1>6. /\ DOMAIN new.link_reports = DOMAIN call.link_reports \cup {key}
      /\ new.link_reports[key] = report
      /\ \A p \in DOMAIN call.link_reports : p # key => new.link_reports[p] = call.link_reports[p]
  BY <1>5 DEF Put
<1>7. InOrder(new)
  BY <1>5 DEF Exact, InOrder
<1>8. \A p \in DOMAIN new.link_reports : p # key => OpenReport(new, p)
  <2> SUFFICES ASSUME NEW p \in DOMAIN new.link_reports, p # key PROVE OpenReport(new, p)
    OBVIOUS
  <2> HIDE DEF key, valid
  <2>1. p \in DOMAIN call.link_reports /\ new.link_reports[p] = call.link_reports[p]
    BY <1>6
  <2>2. OpenReport(call, p)
    BY <2>1 DEF Exact
  <2> QED  BY ONLY <1>5, <2>1, <2>2 DEF OpenReport
<1>9. \A z \in {x, y} : ExactBut(new, z)
  BY <1>7, <1>8 DEF ExactBut
<1>10. ASSUME ~LinkConfirmed(new, x, y) PROVE Exact(new)
  <2>1. y \notin report.reporters
    BY <1>6, <1>10 DEF LinkConfirmed, LinkKey
  <2>2. report.reporters = {x}
    BY <1>3, <1>4, <2>1
  <2>3. OpenReport(new, key)
    BY <1>5, <1>6, <2>2 DEF OpenReport
  <2> QED  BY <1>7, <1>8, <2>3 DEF Exact
<1> QED  BY <1>9, <1>10 DEF new

\* JoinOrderAndReportsMatchParticipants for the four maps as one value.
AllExact(s) == \A c \in DOMAIN s.active : Exact(s.active[c])

\* The inductive invariant.
OrderedInv == IndInv /\ AllExact(Calls)

\* end_call, also by a client about whom a confirmed report was just recorded.
LEMMA EndCallExact ==
    ASSUME NEW s, Typed(s), NEW c \in CallIds, NEW x \in Clients,
           \A d \in DOMAIN s.active : d # c => Exact(s.active[d]),
           c \in DOMAIN s.active => IF x \in DOMAIN s.active[c].participants THEN ExactBut(s.active[c], x)
                                    ELSE Exact(s.active[c])
    PROVE  AllExact(AfterEndCall(s, c, x))
<1> DEFINE r == AfterEndCall(s, c, x)
<1>1. /\ DOMAIN r.active = IF Ends(s, c, x) THEN DOMAIN s.active \ {c} ELSE DOMAIN s.active
      /\ \A d \in DOMAIN r.active :
           r.active[d] = IF d = c /\ MemberIn(s, c, x) THEN WithoutParticipant(s.active[c], x)
                         ELSE s.active[d]
  BY EndCallActive
<1> HIDE DEF r
<1>2. ASSUME NEW d \in DOMAIN r.active PROVE Exact(r.active[d])
  <2>1. d \in DOMAIN s.active /\ IsActiveCallEntry(s.active[d])
    BY <1>1 DEF Typed
  <2>2. CASE d = c /\ MemberIn(s, c, x)
    <3>1. ExactBut(s.active[c], x) /\ IsActiveCallEntry(s.active[c])
      BY <2>1, <2>2 DEF MemberIn
    <3>2. Exact(WithoutParticipant(s.active[c], x))
      BY ONLY <3>1, x \in Clients, DepartedExact
    <3> QED  BY <1>1, <2>2, <3>2
  <2>3. CASE ~(d = c /\ MemberIn(s, c, x))
    <3>1. r.active[d] = s.active[d]
      BY <1>1, <2>3
    <3> QED  BY <2>1, <2>3, <3>1 DEF MemberIn
  <2> QED  BY <2>2, <2>3
<1>3. AllExact(r)
  BY <1>2 DEF AllExact
<1> QED  BY <1>3 DEF r

\* A state with exact calls stays so when anybody leaves.
LEMMA LeaveExact ==
    ASSUME NEW s, Typed(s), AllExact(s), NEW c \in CallIds, NEW x \in Clients
    PROVE  AllExact(AfterEndCall(s, c, x))
<1>1. \A d \in DOMAIN s.active : Exact(s.active[d])
  BY DEF AllExact
<1>2. c \in DOMAIN s.active => ExactBut(s.active[c], x)
  BY <1>1 DEF Exact, ExactBut
<1> QED  BY <1>1, <1>2, EndCallExact

\* A step to a state with exact calls.
LEMMA BecomesExact ==
    ASSUME NEW STATE s, AllExact(s), Becomes(s)
    PROVE  AllExact(Calls')
<1>1. Calls'.active = s.active
  BY CallsFields DEF Becomes
<1> QED  BY <1>1 DEF AllExact

\* Steps that leave the active calls alone.
LEMMA SameExact ==
    ASSUME NEW s, AllExact(s), NEW r, r.active = s.active
    PROVE  AllExact(r)
BY DEF AllExact

\* end_call.
LEMMA EndExact ==
    ASSUME OrderedInv, NEW c \in CallIds, NEW x \in Clients, EndCall(c, x)
    PROVE  AllExact(Calls')
<1>1. AllExact(AfterEndCall(Calls, c, x))
  BY LeaveExact DEF OrderedInv, IndInv, Inv, Ruled
<1> QED  BY <1>1, BecomesExact DEF EndCall

\* call_error.
LEMMA ErrorExact ==
    ASSUME OrderedInv, NEW c \in CallIds, NEW x \in Clients, CallError(c, x)
    PROVE  AllExact(Calls')
<1>1. CASE RingsFor(c, x)
  <2>1. Calls'.active = Calls.active
    BY <1>1, CallsFields DEF CallError, MarkClientWithinRingingCalls
  <2> QED  BY <2>1 DEF OrderedInv, AllExact
<1>2. CASE ~RingsFor(c, x)
  <2> DEFINE s == [Calls EXCEPT !.incoming = Uninvite(@, c, {x})]
  <2>1. Inv(s) /\ s.active = Calls.active
    BY UninvitedInv DEF OrderedInv, IndInv, Calls
  <2>2. Becomes(AfterEndCall(s, c, x))
    BY <1>2 DEF CallError
  <2> HIDE DEF s
  <2>3. AllExact(AfterEndCall(s, c, x))
    BY <2>1, LeaveExact DEF OrderedInv, AllExact, Inv, Ruled
  <2> QED  BY <2>2, <2>3, BecomesExact DEF s
<1> QED  BY <1>1, <1>2

\* cleanup_client_calls.
LEMMA CleanupExact ==
    ASSUME OrderedInv, NEW x \in Clients, CleanupClientCalls(x)
    PROVE  AllExact(Calls')
<1> DEFINE after == AfterEndCall(Calls, Calls.busy[x], x)
           left  == AfterLeavingOwnCall(Calls, x)
           gone  == [left EXCEPT !.incoming[x] = Empty]
           r     == AfterInvitationsLapse(gone, x, left.incoming[x])
<1>1. Inv(Calls) /\ Typed(Calls) /\ AllExact(Calls)
  BY DEF OrderedInv, IndInv, Inv, Ruled
<1>2. Typed(left)
  BY <1>1, LeavingOwnCallInv DEF Inv, Ruled
<1>3. AllExact(left)
  <2>1. CASE x \notin DOMAIN Calls.busy
    BY <1>1, <2>1 DEF AfterLeavingOwnCall
  <2>2. CASE x \in DOMAIN Calls.busy
    <3>1. Calls.busy[x] \in CallIds
      BY <1>1, <2>2 DEF Typed, IsMap
    <3>2. AllExact(after) /\ Typed(after)
      BY <1>1, <3>1, LeaveExact, EndCallTyped
    <3>3. left = [after EXCEPT !.busy = Remove(@, {x})]
      BY <2>2 DEF AfterLeavingOwnCall
    <3> HIDE DEF after, left
    <3>4. left.active = after.active
      BY <3>2, <3>3 DEF Typed
    <3> QED  BY <3>2, <3>4 DEF AllExact
  <2> QED  BY <2>1, <2>2
<1>4. Becomes(r)
  BY DEF CleanupClientCalls
<1> HIDE DEF left
<1>5. gone \in [ringing : {gone.ringing}, active : {left.active}, incoming : {gone.incoming}, busy : {gone.busy}]
  BY <1>2 DEF Typed
<1> HIDE DEF gone
<1>6. r.active = left.active
  BY <1>5 DEF AfterInvitationsLapse
<1>7. AllExact(r)
  BY ONLY <1>3, <1>6, SameExact
<1> QED  BY <1>4, <1>7, BecomesExact DEF gone, left

\* The expiry of a report changes neither its pair nor its reporter.
LEMMA ExpiryExact ==
    ASSUME OrderedInv, NEW c \in CallIds, NEW pair, LinkReportExpires(c, pair)
    PROVE  AllExact(Calls')
<1> DEFINE call    == active_calls[c]
           reports == [call.link_reports EXCEPT ![pair].fresh = FALSE]
           new     == [call EXCEPT !.link_reports = reports]
<1>1. Typed(Calls) /\ AllExact(Calls)
  BY DEF OrderedInv, IndInv, Inv, Ruled
<1>2. c \in DOMAIN active_calls /\ pair \in DOMAIN call.link_reports
  BY DEF LinkReportExpires, IsActive
<1>3. IsActiveCallEntry(call) /\ Exact(call)
  BY <1>1, <1>2, CallsFields DEF Typed, AllExact
<1>4. active_calls' = [active_calls EXCEPT ![c] = new]
  BY <1>2, <1>3 DEF LinkReportExpires
<1>5. /\ DOMAIN reports = DOMAIN call.link_reports
      /\ \A p \in DOMAIN reports : reports[p].reporters = call.link_reports[p].reporters
  BY <1>2, <1>3 DEF IsActiveCallEntry, IsMap
<1> HIDE DEF reports
<1>6. /\ new.participants = call.participants /\ new.join_order = call.join_order
      /\ new.next_join_seq = call.next_join_seq /\ new.link_reports = reports
  BY <1>3 DEF IsActiveCallEntry
<1> HIDE DEF new
<1>7. Exact(new)
  <2>1. InOrder(new)
    BY <1>3, <1>6 DEF Exact, InOrder
  <2>2. \A p \in DOMAIN new.link_reports : OpenReport(new, p)
    BY <1>3, <1>5, <1>6 DEF Exact, OpenReport
  <2> QED  BY <2>1, <2>2 DEF Exact
<1> QED  BY <1>1, <1>2, <1>4, <1>7, CallsFields DEF AllExact, Typed

\* report_link_failure: an unconfirmed report is open, a confirmed one goes with the evicted.
LEMMA ReportExact ==
    ASSUME OrderedInv, NEW c \in CallIds, NEW x \in Clients, NEW y \in Clients, ReportLinkFailure(c, x, y)
    PROVE  AllExact(Calls')
<1> DEFINE call     == active_calls[c]
           recorded == RecordLinkReport(call, x, y)
           reported == [Calls EXCEPT !.active[c] = recorded]
           evicted  == LaterJoiner(recorded, x, y)
<1>1. Inv(Calls) /\ Typed(Calls) /\ AllExact(Calls)
  BY DEF OrderedInv, IndInv, Inv, Ruled
<1>2. c \in DOMAIN active_calls /\ x # y /\ x \in DOMAIN call.participants /\ y \in DOMAIN call.participants
  BY DEF ReportLinkFailure, Participates, IsActive, ParticipantsOf
<1>3. IsActiveCallEntry(call) /\ Exact(call)
  BY <1>1, <1>2, CallsFields DEF Typed, AllExact
<1>4. /\ IsActiveCallEntry(recorded)
      /\ recorded.participants = call.participants
      /\ recorded.conference_leader = call.conference_leader
  BY <1>3, RecordedEntry
<1>5. /\ \A z \in {x, y} : ExactBut(recorded, z)
      /\ ~LinkConfirmed(recorded, x, y) => Exact(recorded)
  BY <1>2, <1>3, RecordedExact
<1>6. reported = [Calls EXCEPT !.active = [@ EXCEPT ![c] = recorded]]
  OBVIOUS
<1>7. evicted \in {x, y}
  BY DEF LaterJoiner
<1>8. \/ Becomes(AfterEndCall(reported, c, evicted))
      \/ ~LinkConfirmed(recorded, x, y) /\ Becomes(reported)
  BY DEF ReportLinkFailure
<1> HIDE DEF recorded, evicted
<1>9. Typed(reported)
  BY <1>1, <1>2, <1>4, <1>6, RelabelledCallInv, CallsFields DEF Inv, Ruled
<1>10. /\ DOMAIN reported.active = DOMAIN active_calls /\ reported.active[c] = recorded
       /\ \A d \in DOMAIN active_calls : d # c => reported.active[d] = active_calls[d]
  BY <1>1, <1>2, CallsFields DEF Typed, Calls
<1> HIDE DEF reported
<1>11. \A d \in DOMAIN reported.active : d # c => Exact(reported.active[d])
  BY <1>1, <1>10, CallsFields DEF AllExact
<1>12. CASE Becomes(AfterEndCall(reported, c, evicted))
  <2>1. evicted \in Clients /\ evicted \in DOMAIN reported.active[c].participants /\ ExactBut(reported.active[c], evicted)
    BY <1>2, <1>4, <1>5, <1>7, <1>10
  <2>2. AllExact(AfterEndCall(reported, c, evicted))
    BY <1>9, <1>11, <2>1, EndCallExact
  <2> QED  BY <1>12, <2>2, BecomesExact DEF reported, recorded, evicted
<1>13. CASE ~LinkConfirmed(recorded, x, y) /\ Becomes(reported)
  <2>1. AllExact(reported)
    BY <1>5, <1>10, <1>11, <1>13 DEF AllExact
  <2> QED  BY <1>13, <2>1, BecomesExact DEF reported, recorded
<1> QED  BY <1>8, <1>12, <1>13

\* accept_call: the caller of a new call joins first, everybody else after those that joined.
LEMMA AcceptExact ==
    ASSUME OrderedInv, NEW c \in CallIds, NEW x \in Clients, AcceptCall(c, x)
    PROVE  AllExact(Calls')
<1> DEFINE call    == ringing_calls[c]
           caller  == call.caller_id
           answers == AnsweredTargets(call, x)
           new     == active_calls'[c]
<1>1. IndInv /\ Typed(Calls) /\ AllExact(Calls)
  BY DEF OrderedInv, IndInv, Inv, Ruled
<1>2. /\ IsRingingCallEntry(call) /\ caller \in Clients
      /\ \A d \in CallIds : ~MemberIn(Calls, d, x) /\ ~CallerIn(Calls, d, x)
      /\ IsActive(c) => IsActiveCallEntry(active_calls[c])
      /\ DOMAIN active_calls' = DOMAIN active_calls \cup {c}
      /\ \A d \in DOMAIN active_calls' : d # c => active_calls'[d] = active_calls[d]
  BY <1>1, AcceptJoins, AcceptorUninvolved DEF IndInv, Inv, Ruled
<1>3. PICK t \in answers, s \in answers :
        active_calls' =
          Put(active_calls, c,
              IF ~IsActive(c) THEN Joined(Joined(NewActiveCall, caller, call.targets[s].source.target), x, t)
              ELSE IF Joined(active_calls[c], x, t).conference_leader = None
              THEN [Joined(active_calls[c], x, t) EXCEPT
                      !.conference_leader = LeaderAfter(call.targets[s].source, x)]
              ELSE Joined(active_calls[c], x, t))
  BY DEF AcceptCall
<1>4. t \in Targets /\ call.targets[s].source.target \in Targets
  BY <1>2 DEF AnsweredTargets, IsRingingCallEntry, IsMap, RingingTargetEntry
<1>5. c \in DOMAIN ringing_calls
  BY DEF AcceptCall, IsRinging
<1> HIDE DEF answers
<1>6. Exact(new)
  <2>1. CASE ~IsActive(c)
    <3> DEFINE begun == Joined(NewActiveCall, caller, call.targets[s].source.target)
    <3>1. Exact(NewActiveCall)
      BY DEF Exact, InOrder, NewActiveCall, Empty
    <3>2. IsActiveCallEntry(begun) /\ DOMAIN begun.participants = {caller}
      BY <1>2, <1>4, NewEntry, JoinedEntry
    <3>3. Exact(begun)
      BY <1>2, <3>1, NewEntry, JoinedExact
    <3>4. new = Joined(begun, x, t)
      BY <1>3, <2>1 DEF Put
    <3> HIDE DEF begun
    <3>5. x \in Clients \ DOMAIN begun.participants
      BY <1>2, <1>5, <3>2, CallsFields DEF CallerIn
    <3>6. Exact(Joined(begun, x, t))
      BY ONLY <3>2, <3>3, <3>5, JoinedExact
    <3> QED  BY <3>4, <3>6
  <2>2. CASE IsActive(c)
    <3> DEFINE more == Joined(active_calls[c], x, t)
    <3>1. /\ IsActiveCallEntry(active_calls[c]) /\ Exact(active_calls[c])
          /\ x \in Clients \ DOMAIN active_calls[c].participants
      BY <1>1, <1>2, <2>2, CallsFields DEF AllExact, MemberIn, IsActive
    <3>2. Exact(more) /\ IsActiveCallEntry(more)
      BY <1>4, <3>1, JoinedExact, JoinedEntry
    <3>3. new = IF more.conference_leader = None
                THEN [more EXCEPT !.conference_leader = LeaderAfter(call.targets[s].source, x)] ELSE more
      BY <1>3, <2>2 DEF Put
    <3> HIDE DEF more, new
    <3>4. /\ new.participants = more.participants /\ new.join_order = more.join_order
          /\ new.next_join_seq = more.next_join_seq /\ new.link_reports = more.link_reports
      BY <3>2, <3>3 DEF IsActiveCallEntry
    <3> QED  BY ONLY <3>2, <3>4 DEF Exact, InOrder, OpenReport
  <2> QED  BY <2>1, <2>2
<1> HIDE DEF new
<1> QED  BY <1>1, <1>2, <1>6, CallsFields DEF AllExact, new

\* Every step keeps the join order and the reports of every call.
LEMMA NextOrdered == OrderedInv /\ [Next]_vars => OrderedInv'
<1> SUFFICES ASSUME OrderedInv, [Next]_vars PROVE OrderedInv'
  OBVIOUS
<1>1. IndInv /\ AllExact(Calls) /\ IndInv'
  BY NextInv DEF OrderedInv
<1>2. active_calls' = active_calls => AllExact(Calls')
  BY <1>1, CallsFields DEF AllExact
<1>3. ASSUME NEW c \in CallIds, NEW x \in Clients, NEW t \in Targets, NEW source, NEW notified,
             AttemptCall(c, x, source, t, notified)
      PROVE  AllExact(Calls')
  BY <1>2, <1>3 DEF AttemptCall
<1>4. ASSUME NEW c \in CallIds, NEW x \in Clients, NEW t \in Targets,
             NEW reason \in DropReasons, DropTarget(c, x, t, reason)
      PROVE  AllExact(Calls')
  <2>1. CASE DropRingingTarget(c, x, t)
    BY <1>2, <2>1 DEF DropRingingTarget
  <2>2. CASE DropJoinedParticipant(c, x, t, reason)
    BY <1>1, <2>2, DropJoinedIsLeave, EndExact DEF IndInv, Inv, Ruled
  <2> QED  BY <1>4, <2>1, <2>2 DEF DropTarget
<1>5. ASSUME NEW c \in CallIds, NEW x \in Clients, RejectCall(c, x)
      PROVE  AllExact(Calls')
  BY <1>2, <1>5 DEF RejectCall, MarkClientWithinRingingCalls
<1>6. ASSUME NEW c \in CallIds, NEW x \in Clients, AcceptCall(c, x) \/ CallError(c, x) \/ EndCall(c, x)
      PROVE  AllExact(Calls')
  BY <1>6, AcceptExact, ErrorExact, EndExact
<1>7. ASSUME NEW c \in CallIds, NEW pair \in FlakyLinks, NEW x \in pair, NEW y \in pair,
             ReportLinkFailure(c, x, y)
      PROVE  AllExact(Calls')
  <2>1. x \in Clients /\ y \in Clients
    BY ResolutionTypes
  <2> QED  BY <1>7, <2>1, ReportExact
<1>8. ASSUME NEW c \in CallIds, NEW pair \in FlakyLinks, LinkReportExpires(c, pair)
      PROVE  AllExact(Calls')
  BY <1>8, ExpiryExact
<1>9. ASSUME NEW x \in Clients, CleanupClientCalls(x)
      PROVE  AllExact(Calls')
  BY <1>9, CleanupExact
<1>10. UNCHANGED vars => AllExact(Calls')
  BY <1>2 DEF vars
<1>11. AllExact(Calls')
  BY <1>3, <1>4, <1>5, <1>6, <1>7, <1>8, <1>9, <1>10 DEF Next
<1> QED  BY <1>1, <1>11 DEF OrderedInv

\* The join order and the reports of every call are those of its participants.
THEOREM OrderInvariant == Spec => []OrderedInv
<1>1. Init => OrderedInv
  <2> SUFFICES ASSUME Init PROVE AllExact(Calls)
    BY InitInv DEF OrderedInv
  <2>1. DOMAIN Calls.active = {}
    BY DEF Init, Calls, Empty
  <2> QED  BY <2>1 DEF AllExact
<1> QED  BY <1>1, NextOrdered, PTL DEF Spec

\* The invariant in the words of the property.
LEMMA OrderedMatches == OrderedInv => JoinOrderAndReportsMatchParticipants
BY CallsFields DEF OrderedInv, AllExact, Exact, InOrder, OpenReport,
   JoinOrderAndReportsMatchParticipants, ParticipantsOf

\* later_joiner can always tell who joined later, and a confirmed report never outlives the
\* eviction it causes (record_join, forget_participant, report_link_failure).
THEOREM OrderAndReportsMatch == Spec => []JoinOrderAndReportsMatchParticipants
BY OrderInvariant, OrderedMatches, PTL

=============================================================================
