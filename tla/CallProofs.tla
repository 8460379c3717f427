----------------------------- MODULE CallProofs -----------------------------
(***************************************************************************)
(* What the operations of the call manager do to the four maps, for all    *)
(* values of the constants and whatever the busy markers say.  The first   *)
(* part is about the entries of the maps (CallState), the rest about the   *)
(* maps as one value: several operations are composed of others (call_error *)
(* and report_link_failure end in end_call, a disconnect is two such       *)
(* steps), and the lemmas then compose the same way.                       *)
(***************************************************************************)
EXTENDS CallManager, FiniteSetTheorems, TLAPS

-----------------------------------------------------------------------------
(* Entries.                                                                 *)

\* HashMap::insert keeps the type of a map.
LEMMA PutIsMap ==
    ASSUME NEW K, NEW V, NEW m, IsMap(m, K, V), NEW k \in K, NEW v \in V
    PROVE  IsMap(Put(m, k, v), K, V)
BY DEF IsMap, Put

\* Removing keys keeps the type of a map.
LEMMA RemoveIsMap ==
    ASSUME NEW K, NEW V, NEW m, IsMap(m, K, V), NEW ks
    PROVE  IsMap(Remove(m, ks), K, V)
BY DEF IsMap, Remove, Restrict

\* remove_client_incoming_call keeps the type of client_incoming_calls.
LEMMA UninviteTyped ==
    ASSUME NEW incoming, NEW c, NEW xs,
           \A x \in Clients : IsMap(incoming[x], CallIds, Targets)
    PROVE  LET after == Uninvite(incoming, c, xs)
           IN  /\ after = [x \in Clients |-> after[x]]
               /\ \A x \in Clients : IsMap(after[x], CallIds, Targets)
BY RemoveIsMap DEF Uninvite

\* What removing one participant does to an active call: exactly that client
\* goes, and the leader stays or, with two left, is cleared.
LEMMA DepartedEntry ==
    ASSUME NEW call, IsActiveCallEntry(call), NEW x \in Clients
    PROVE  LET rest == WithoutParticipant(call, x)
           IN  /\ IsActiveCallEntry(rest)
               /\ ParticipantsOf(rest) = ParticipantsOf(call) \ {x}
               /\ rest.conference_leader =
                    IF Cardinality(ParticipantsOf(call) \ {x}) <= 2
                    THEN None ELSE call.conference_leader
               /\ rest.conference_leader \in {None, call.conference_leader}
<1> DEFINE rest == [ForgetParticipant(call, x) EXCEPT
                      !.participants = Remove(@, {x})]
<1>1. /\ rest \in [conference_leader : Clients \cup {None},
                participants : {rest.participants},
                join_order : {rest.join_order},
                next_join_seq : Nat,
                link_reports : {rest.link_reports}]
      /\ rest.participants = Remove(call.participants, {x})
      /\ rest.conference_leader = call.conference_leader
      /\ rest.join_order = Remove(call.join_order, {x})
      /\ \E gone : rest.link_reports = Remove(call.link_reports, gone)
  BY DEF IsActiveCallEntry, ForgetParticipant
<1>2. IsActiveCallEntry(rest)
  BY <1>1, RemoveIsMap DEF IsActiveCallEntry
<1>3. ParticipantsOf(rest) = ParticipantsOf(call) \ {x}
  BY <1>1 DEF ParticipantsOf, Remove, Restrict
<1> QED
  BY <1>1, <1>2, <1>3 DEF WithoutParticipant, IsActiveCallEntry, ParticipantsOf

\* LeaderOnlyInConference for one call: two or more participants, and one of
\* them leads exactly when they are three or more.
EntryLed(call) ==
    LET P == DOMAIN call.participants
    IN  /\ Cardinality(P) >= 2
        /\ call.conference_leader # None <=> Cardinality(P) >= 3
        /\ call.conference_leader \in P \cup {None}

\* When a departure does not end the call (end_call, cleanup_client_calls),
\* the call that goes on still has two or more participants and the right leader.
LEMMA DepartedLed ==
    ASSUME NEW call, IsActiveCallEntry(call), EntryLed(call),
           NEW x \in ParticipantsOf(call), ~DepartureEndsCall(call, x)
    PROVE  EntryLed(WithoutParticipant(call, x))
<1> DEFINE P == ParticipantsOf(call)
<1>1. P \subseteq Clients /\ x \in Clients
  BY DEF IsActiveCallEntry, IsMap, ParticipantsOf
<1>2. IsFiniteSet(P)
  BY <1>1, ClientsAreFinite, FS_Subset
<1>3. /\ Cardinality(P) \in Nat
      /\ Cardinality(P \ {x}) = Cardinality(P) - 1
  BY <1>2, FS_RemoveElement, FS_CardinalityType
<1>4. Cardinality(P) >= 3 /\ call.conference_leader # x
  BY <1>3 DEF DepartureEndsCall, ParticipantsWithoutSelf
<1>5. call.conference_leader \in P \ {x}
  BY <1>4, <1>3 DEF EntryLed, ParticipantsOf
<1>6. None \notin P
  BY <1>1, NoneIsNoClient
<1> DEFINE rest == WithoutParticipant(call, x)
<1>7. /\ DOMAIN rest.participants = P \ {x}
      /\ rest.conference_leader = IF Cardinality(P \ {x}) <= 2
                                  THEN None ELSE call.conference_leader
  BY <1>1, DepartedEntry DEF ParticipantsOf
<1> HIDE DEF P, rest
<1>8. EntryLed(rest)
  BY <1>3, <1>4, <1>5, <1>6, <1>7 DEF EntryLed
<1> QED
  BY <1>8 DEF rest

\* What a join changes: the participant and its place in the join order.
LEMMA JoinedFields ==
    ASSUME NEW call, IsActiveCallEntry(call), NEW x, NEW t
    PROVE  Joined(call, x, t) = [conference_leader |-> call.conference_leader,
                                 participants |-> Put(call.participants, x, t),
                                 join_order |-> Put(call.join_order, x, call.next_join_seq),
                                 next_join_seq |-> call.next_join_seq + 1,
                                 link_reports |-> call.link_reports]
<1> DEFINE mid == [call EXCEPT !.participants = Put(@, x, t)]
<1>1. call = [conference_leader |-> call.conference_leader,
              participants |-> call.participants,
              join_order |-> call.join_order,
              next_join_seq |-> call.next_join_seq,
              link_reports |-> call.link_reports]
  BY DEF IsActiveCallEntry
<1>2. mid = [conference_leader |-> call.conference_leader,
             participants |-> Put(call.participants, x, t),
             join_order |-> call.join_order,
             next_join_seq |-> call.next_join_seq,
             link_reports |-> call.link_reports]
  BY <1>1
<1>3. Joined(call, x, t) = RecordJoin(mid, x)
  BY DEF Joined
<1> HIDE DEF mid
<1>4. RecordJoin(mid, x) =
        [[mid EXCEPT !.join_order = Put(mid.join_order, x, mid.next_join_seq)]
           EXCEPT !.next_join_seq = mid.next_join_seq + 1]
  BY <1>2 DEF RecordJoin
<1> QED  BY <1>2, <1>3, <1>4

\* A join adds exactly the joining client and leaves the leader alone
\* (accept_call).
LEMMA JoinedEntry ==
    ASSUME NEW call, IsActiveCallEntry(call), NEW x \in Clients, NEW t \in Targets
    PROVE  /\ IsActiveCallEntry(Joined(call, x, t))
           /\ DOMAIN Joined(call, x, t).participants =
                DOMAIN call.participants \cup {x}
           /\ Joined(call, x, t).conference_leader = call.conference_leader
<1> DEFINE new == Joined(call, x, t)
<1>1. /\ new \in [conference_leader : Clients \cup {None},
                participants : {new.participants},
                join_order : {new.join_order},
                next_join_seq : Nat,
                link_reports : {new.link_reports}]
      /\ new.participants = Put(call.participants, x, t)
      /\ new.conference_leader = call.conference_leader
      /\ new.join_order = Put(call.join_order, x, call.next_join_seq)
      /\ new.link_reports = call.link_reports
  <2>1. new = [conference_leader |-> call.conference_leader,
               participants |-> Put(call.participants, x, t),
               join_order |-> Put(call.join_order, x, call.next_join_seq),
               next_join_seq |-> call.next_join_seq + 1,
               link_reports |-> call.link_reports]
    BY JoinedFields
  <2>2. /\ call.conference_leader \in Clients \cup {None}
        /\ call.next_join_seq + 1 \in Nat
    BY DEF IsActiveCallEntry
  <2> HIDE DEF new
  <2> QED  BY <2>1, <2>2
<1> HIDE DEF new
<1>2. IsMap(new.participants, Clients, Targets) /\ IsMap(new.join_order, Clients, Nat)
  BY <1>1, PutIsMap DEF IsActiveCallEntry
<1>3. IsActiveCallEntry(new)
  BY <1>1, <1>2 DEF IsActiveCallEntry
<1>4. DOMAIN new.participants = DOMAIN call.participants \cup {x}
  BY <1>1 DEF Put
<1> QED  BY <1>1, <1>3, <1>4 DEF new

\* ActiveCallEntry::new without participants is well typed and leaderless.
LEMMA NewEntry ==
    IsActiveCallEntry(NewActiveCall) /\ DOMAIN NewActiveCall.participants = {}
      /\ NewActiveCall.conference_leader = None
<1>1. DOMAIN Empty = {} /\ \A K, V : IsMap(Empty, K, V)
  BY DEF Empty, IsMap
<1> QED  BY <1>1 DEF NewActiveCall, IsActiveCallEntry

\* Changing the link reports of a call changes neither who takes part nor who
\* leads.
LEMMA ReportsEntry ==
    ASSUME NEW call, IsActiveCallEntry(call), NEW reports,
           IsMap(reports, Links, [reporters : SUBSET Clients, fresh : BOOLEAN])
    PROVE  LET new == [call EXCEPT !.link_reports = reports]
           IN  /\ IsActiveCallEntry(new)
               /\ new.participants = call.participants
               /\ new.conference_leader = call.conference_leader
<1>1. LET new == [call EXCEPT !.link_reports = reports]
      IN  new = [conference_leader |-> call.conference_leader,
                 participants |-> call.participants,
                 join_order |-> call.join_order,
                 next_join_seq |-> call.next_join_seq,
                 link_reports |-> reports]
  BY DEF IsActiveCallEntry
<1> QED  BY <1>1 DEF IsActiveCallEntry

\* Recording a dead-link report changes neither who takes part nor who leads
\* (record_link_report).
LEMMA RecordedEntry ==
    ASSUME NEW call, IsActiveCallEntry(call), NEW x \in Clients, NEW y \in Clients
    PROVE  LET new == RecordLinkReport(call, x, y)
           IN  /\ IsActiveCallEntry(new)
               /\ new.participants = call.participants
               /\ new.conference_leader = call.conference_leader
<1> DEFINE key == LinkKey(x, y)
           known == IF key \in DOMAIN call.link_reports
                         /\ call.link_reports[key].fresh
                    THEN call.link_reports[key].reporters ELSE {}
           report == [reporters |-> known \cup {x}, fresh |-> TRUE]
<1>1. IsMap(call.link_reports, Links, [reporters : SUBSET Clients, fresh : BOOLEAN])
  BY DEF IsActiveCallEntry
<1>2. key \in Links
  BY DEF LinkKey, Links
<1>3. known \in SUBSET Clients
  BY <1>1 DEF IsMap
<1>4. report \in [reporters : SUBSET Clients, fresh : BOOLEAN]
  BY <1>3
<1>5. RecordLinkReport(call, x, y) =
        [call EXCEPT !.link_reports = Put(call.link_reports, key, report)]
  BY DEF RecordLinkReport
<1> DEFINE reports == Put(call.link_reports, key, report)
<1>6. IsMap(reports, Links, [reporters : SUBSET Clients, fresh : BOOLEAN])
  BY <1>1, <1>2, <1>4, PutIsMap
<1> HIDE DEF reports
<1>7. LET new == [call EXCEPT !.link_reports = reports]
      IN  /\ IsActiveCallEntry(new)
          /\ new.participants = call.participants
          /\ new.conference_leader = call.conference_leader
  BY <1>6, ReportsEntry
<1> QED  BY <1>5, <1>7 DEF reports

\* new is the target old with some callees gone.
SameTarget(old, new) ==
    new.source = old.source /\ new.notified_clients \subseteq old.notified_clients

\* new is the batch old with some targets and callees gone.
SameBatch(old, new) ==
    /\ IsRingingCallEntry(new)
    /\ new.caller_id = old.caller_id
    /\ \A t \in DOMAIN new.targets :
         t \in DOMAIN old.targets /\ SameTarget(old.targets[t], new.targets[t])

\* A target that keeps its callees is the same target.
LEMMA KeptTarget == \A target : SameTarget(target, target)
BY DEF SameTarget

\* A disconnected invitee only takes targets away (cleanup_client_calls).
LEMMA InviteeGone ==
    ASSUME NEW call, IsRingingCallEntry(call), NEW x \in Clients, NEW t
    PROVE  SameBatch(call, WithoutInvitee(call, x, t))
<1> DEFINE entry == [call.targets[t] EXCEPT !.notified_clients = @ \ {x},
                                            !.failed_clients = @ \ {x}]
           after == WithoutInvitee(call, x, t)
<1>1. CASE t \notin DOMAIN call.targets
  BY <1>1, KeptTarget DEF WithoutInvitee, SameBatch
<1>2. CASE t \in DOMAIN call.targets
  <2>1. /\ call.targets[t] \in RingingTargetEntry
        /\ t \in Targets
        /\ IsMap(call.targets, Targets, RingingTargetEntry)
    BY <1>2 DEF IsRingingCallEntry, IsMap
  <2>2. entry \in RingingTargetEntry /\ SameTarget(call.targets[t], entry)
    BY <2>1 DEF RingingTargetEntry, SameTarget
  <2> HIDE DEF entry
  <2>3. \/ after = [call EXCEPT !.targets = Remove(call.targets, {t})]
        \/ after = [call EXCEPT !.targets = Put(call.targets, t, entry)]
    BY <1>2 DEF WithoutInvitee, entry
  <2>4. /\ after \in [caller_id : Clients, targets : {after.targets}]
        /\ after.caller_id = call.caller_id
        /\ after.targets \in {Remove(call.targets, {t}), Put(call.targets, t, entry)}
    BY <2>3 DEF IsRingingCallEntry
  <2>5. IsMap(after.targets, Targets, RingingTargetEntry)
    BY <2>1, <2>2, <2>4, PutIsMap, RemoveIsMap
  <2>6. \A v \in DOMAIN after.targets :
           v \in DOMAIN call.targets /\ SameTarget(call.targets[v], after.targets[v])
    BY <1>2, <2>2, <2>4, KeptTarget DEF Put, Remove, Restrict
  <2> QED  BY <2>4, <2>5, <2>6 DEF SameBatch, IsRingingCallEntry
<1> QED  BY <1>1, <1>2

\* A rejecting or failing callee only takes targets away
\* (mark_client_within_ringing_calls).
LEMMA ClientFailed ==
    ASSUME NEW call, IsRingingCallEntry(call), NEW x \in Clients
    PROVE  SameBatch(call, [call EXCEPT !.targets = TargetsAfterFailure(call, x)])
<1> DEFINE marked == RingingTargetsOf(call, x)
           after == [t \in DOMAIN call.targets |->
                       IF t \in marked THEN MarkFailed(call.targets[t], x)
                                       ELSE call.targets[t]]
<1>1. IsMap(call.targets, Targets, RingingTargetEntry)
  BY DEF IsRingingCallEntry
<1>2. \A entry \in RingingTargetEntry :
         /\ MarkFailed(entry, x) \in RingingTargetEntry
         /\ SameTarget(entry, MarkFailed(entry, x))
  BY DEF MarkFailed, RingingTargetEntry, SameTarget
<1>3. /\ IsMap(after, Targets, RingingTargetEntry)
      /\ DOMAIN after = DOMAIN call.targets
      /\ \A t \in DOMAIN after : SameTarget(call.targets[t], after[t])
  BY <1>1, <1>2, KeptTarget DEF IsMap
<1>4. \E ts : TargetsAfterFailure(call, x) = Remove(after, ts)
  BY DEF TargetsAfterFailure
<1> HIDE DEF after
<1>5. PICK ts : TargetsAfterFailure(call, x) = Remove(after, ts)
  BY <1>4
<1>6. /\ IsMap(Remove(after, ts), Targets, RingingTargetEntry)
      /\ \A t \in DOMAIN Remove(after, ts) :
           /\ t \in DOMAIN call.targets
           /\ SameTarget(call.targets[t], Remove(after, ts)[t])
  BY <1>3, RemoveIsMap DEF Remove, Restrict
<1> DEFINE new == [call EXCEPT !.targets = TargetsAfterFailure(call, x)]
<1>7. /\ new \in [caller_id : Clients, targets : {new.targets}]
      /\ new.caller_id = call.caller_id
      /\ new.targets = Remove(after, ts)
  BY <1>5 DEF IsRingingCallEntry
<1> HIDE DEF new
<1>8. SameBatch(call, new)
  BY <1>6, <1>7 DEF SameBatch, IsRingingCallEntry
<1> QED  BY <1>8 DEF new

-----------------------------------------------------------------------------
(* The four maps as one value.                                              *)

\* x takes part in call c of the state s.
MemberIn(s, c, x) == c \in DOMAIN s.active /\ x \in DOMAIN s.active[c].participants

\* x opened the batch that rings for call c in s.
CallerIn(s, c, x) == c \in DOMAIN s.ringing /\ s.ringing[c].caller_id = x

\* x is marked busy with call c in s.
BusyIn(s, c, x) == x \in DOMAIN s.busy /\ s.busy[x] = c

\* The typing part of the inductive invariant, for the four maps as one value.
Typed(s) ==
    /\ s \in [ringing : {s.ringing}, active : {s.active},
              incoming : {s.incoming}, busy : {s.busy}]
    /\ s.ringing = [c \in DOMAIN s.ringing |-> s.ringing[c]]
    /\ DOMAIN s.ringing \subseteq CallIds
    /\ \A c \in DOMAIN s.ringing : IsRingingCallEntry(s.ringing[c])
    /\ s.active = [c \in DOMAIN s.active |-> s.active[c]]
    /\ DOMAIN s.active \subseteq CallIds
    /\ \A c \in DOMAIN s.active : IsActiveCallEntry(s.active[c])
    /\ s.incoming = [x \in Clients |-> s.incoming[x]]
    /\ \A x \in Clients : IsMap(s.incoming[x], CallIds, Targets)
    /\ IsMap(s.busy, Clients, CallIds)

\* Every invitation of a ringing batch comes from the client that opened it,
\* and while the call runs that client takes part in it and is its only
\* possible leader.  This is what BusyMarkerIsExact needs to be inductive: a
\* participant that leaves or is dropped cannot leave a batch of its own behind.
BatchesOwned(s) ==
    \A c \in DOMAIN s.ringing :
        LET call == s.ringing[c]
        IN  /\ \A t \in DOMAIN call.targets :
                 call.targets[t].source.client_id = call.caller_id
            /\ c \in DOMAIN s.active =>
                 /\ MemberIn(s, c, call.caller_id)
                 /\ s.active[c].conference_leader \in {None, call.caller_id}

\* What every operation keeps on its own, whatever the busy markers say: types,
\* owned batches, and calls of two or more that are led from three on.
Ruled(s) ==
    /\ Typed(s)
    /\ BatchesOwned(s)
    /\ \A c \in DOMAIN s.active : EntryLed(s.active[c])

-----------------------------------------------------------------------------
(* end_call.                                                                *)

\* x leaving c in s tears the call down.
Ends(s, c, x) == MemberIn(s, c, x) /\ DepartureEndsCall(s.active[c], x)

\* x leaving c in s cancels what rings for c.
Cancels(s, c, x) == CallerIn(s, c, x) \/ (Ends(s, c, x) /\ c \in DOMAIN s.ringing)

\* The participants that are gone after x left c in s.
Leaving(s, c, x) ==
    IF Ends(s, c, x) THEN DOMAIN s.active[c].participants
    ELSE IF MemberIn(s, c, x) THEN {x} ELSE {}

\* end_call keeps the four maps well typed.
LEMMA EndCallTyped ==
    ASSUME NEW s, Typed(s), NEW c \in CallIds, NEW x \in Clients
    PROVE  Typed(AfterEndCall(s, c, x))
<1> DEFINE r == AfterEndCall(s, c, x)
<1>1. r \in [ringing : {r.ringing}, active : {r.active},
             incoming : {r.incoming}, busy : {r.busy}]
  BY DEF AfterEndCall
<1>2. /\ r.ringing = [d \in DOMAIN r.ringing |-> r.ringing[d]]
      /\ DOMAIN r.ringing \subseteq CallIds
      /\ \A d \in DOMAIN r.ringing : IsRingingCallEntry(r.ringing[d])
  <2>1. r.ringing \in {s.ringing, Remove(s.ringing, {c})}
    BY DEF AfterEndCall
  <2> QED  BY <2>1 DEF Typed, Remove, Restrict
<1>3. /\ r.active = [d \in DOMAIN r.active |-> r.active[d]]
      /\ DOMAIN r.active \subseteq CallIds
      /\ \A d \in DOMAIN r.active : IsActiveCallEntry(r.active[d])
  <2> DEFINE W == WithoutParticipant(s.active[c], x)
             left == [s.active EXCEPT ![c] = W]
  <2>1. \/ r.active = s.active
        \/ r.active = Remove(s.active, {c})
        \/ c \in DOMAIN s.active /\ r.active = left
    BY DEF AfterEndCall
  <2>2. c \in DOMAIN s.active => IsActiveCallEntry(W)
    BY DepartedEntry DEF Typed
  <2> HIDE DEF W
  <2> QED  BY <2>1, <2>2 DEF Typed, Remove, Restrict
<1>4. /\ r.incoming = [y \in Clients |-> r.incoming[y]]
      /\ \A y \in Clients : IsMap(r.incoming[y], CallIds, Targets)
  <2>1. r.incoming \in {s.incoming, Uninvite(s.incoming, c, InvitedClients(s.ringing[c]))}
    BY DEF AfterEndCall
  <2>2. CASE r.incoming = s.incoming
    BY <2>2 DEF Typed
  <2>3. CASE r.incoming = Uninvite(s.incoming, c, InvitedClients(s.ringing[c]))
    BY <2>3, UninviteTyped DEF Typed
  <2> QED  BY <2>1, <2>2, <2>3
<1>5. IsMap(r.busy, Clients, CallIds)
  <2>1. \E xs, ys : r.busy = Remove(Remove(s.busy, xs), ys)
    BY DEF AfterEndCall, ReleaseBusy
  <2> QED  BY <2>1, RemoveIsMap DEF Typed
<1> QED
  BY <1>1, <1>2, <1>3, <1>4, <1>5 DEF Typed

\* end_call removes the ringing batch of its call or leaves ringing calls alone.
LEMMA EndCallRinging ==
    ASSUME NEW s, Typed(s), NEW c \in CallIds, NEW x \in Clients
    PROVE  LET r == AfterEndCall(s, c, x)
           IN  /\ DOMAIN r.ringing = IF Cancels(s, c, x) THEN DOMAIN s.ringing \ {c}
                                     ELSE DOMAIN s.ringing
               /\ \A d \in DOMAIN r.ringing : r.ringing[d] = s.ringing[d]
<1>1. AfterEndCall(s, c, x).ringing = IF Cancels(s, c, x) THEN Remove(s.ringing, {c})
                                      ELSE s.ringing
  BY DEF AfterEndCall, Cancels, Ends, CallerIn, MemberIn, ParticipantsOf
<1> QED  BY <1>1 DEF Remove, Restrict

\* end_call removes its call, removes one participant of it, or leaves active
\* calls alone.
LEMMA EndCallActive ==
    ASSUME NEW s, Typed(s), NEW c \in CallIds, NEW x \in Clients
    PROVE  LET r == AfterEndCall(s, c, x)
           IN  /\ DOMAIN r.active = IF Ends(s, c, x) THEN DOMAIN s.active \ {c}
                                    ELSE DOMAIN s.active
               /\ \A d \in DOMAIN r.active :
                    r.active[d] = IF d = c /\ MemberIn(s, c, x)
                                  THEN WithoutParticipant(s.active[c], x)
                                  ELSE s.active[d]
<1>1. AfterEndCall(s, c, x).active =
        IF Ends(s, c, x) THEN Remove(s.active, {c})
        ELSE IF MemberIn(s, c, x)
        THEN [s.active EXCEPT ![c] = WithoutParticipant(s.active[c], x)]
        ELSE s.active
  BY DEF AfterEndCall, Ends, MemberIn, ParticipantsOf
<1>2. MemberIn(s, c, x) => c \in DOMAIN s.active
  BY DEF MemberIn
<1>3. s.active = [d \in DOMAIN s.active |-> s.active[d]]
  BY DEF Typed
<1> QED  BY <1>1, <1>2, <1>3 DEF Remove, Restrict

\* end_call clears the busy markers of those that leave, and of a caller whose
\* batch it cancels, and no others.
LEMMA EndCallBusy ==
    ASSUME NEW s, Typed(s), NEW c \in CallIds, NEW x \in Clients,
           NEW y, NEW d
    PROVE  BusyIn(AfterEndCall(s, c, x), d, y) <=>
             /\ BusyIn(s, d, y)
             /\ ~(CallerIn(s, c, x) /\ y = x)
             /\ ~(d = c /\ y \in Leaving(s, c, x))
<1>1. AfterEndCall(s, c, x).busy =
        ReleaseBusy(Remove(s.busy, IF CallerIn(s, c, x) THEN {x} ELSE {}),
                    c, Leaving(s, c, x))
  BY DEF AfterEndCall, Ends, CallerIn, MemberIn, ParticipantsOf, Leaving
<1> QED  BY <1>1 DEF BusyIn, ReleaseBusy, Remove, Restrict

\* After end_call exactly the leaving participants of its call are gone.
LEMMA EndCallMembers ==
    ASSUME NEW s, Typed(s), NEW c \in CallIds, NEW x \in Clients, NEW d, NEW y
    PROVE  MemberIn(AfterEndCall(s, c, x), d, y) <=>
             MemberIn(s, d, y) /\ ~(d = c /\ y \in Leaving(s, c, x))
<1> DEFINE r == AfterEndCall(s, c, x)
<1>1. MemberIn(s, c, x) =>
        DOMAIN WithoutParticipant(s.active[c], x).participants =
          DOMAIN s.active[c].participants \ {x}
  BY DepartedEntry DEF MemberIn, Typed, ParticipantsOf
<1>2. /\ DOMAIN r.active = IF Ends(s, c, x) THEN DOMAIN s.active \ {c}
                           ELSE DOMAIN s.active
      /\ \A e \in DOMAIN r.active :
           r.active[e] = IF e = c /\ MemberIn(s, c, x)
                         THEN WithoutParticipant(s.active[c], x)
                         ELSE s.active[e]
  BY EndCallActive
<1> HIDE DEF r
<1>3. MemberIn(r, d, y) <=>
             MemberIn(s, d, y) /\ ~(d = c /\ y \in Leaving(s, c, x))
  <2>1. CASE d # c
    BY <1>2, <2>1 DEF MemberIn
  <2>2. CASE d = c /\ Ends(s, c, x)
    BY <1>2, <2>2 DEF MemberIn, Leaving
  <2>3. CASE d = c /\ ~Ends(s, c, x) /\ MemberIn(s, c, x)
    <3>1. Leaving(s, c, x) = {x} /\ c \in DOMAIN s.active
      BY <2>3 DEF Leaving, MemberIn
    <3>2. c \in DOMAIN r.active /\ r.active[c] = WithoutParticipant(s.active[c], x)
      BY <1>2, <2>3, <3>1
    <3> QED  BY <1>1, <2>3, <3>1, <3>2 DEF MemberIn
  <2>4. CASE d = c /\ ~Ends(s, c, x) /\ ~MemberIn(s, c, x)
    BY <1>2, <2>4 DEF MemberIn, Leaving
  <2> QED  BY <2>1, <2>2, <2>3, <2>4
<1> QED  BY <1>3 DEF r

\* end_call keeps the rules, whoever calls it on whichever call.
LEMMA EndCallRuled ==
    ASSUME NEW s, Ruled(s), NEW c \in CallIds, NEW x \in Clients
    PROVE  Ruled(AfterEndCall(s, c, x))
<1> DEFINE r == AfterEndCall(s, c, x)
<1>1. Typed(s) /\ Typed(r) /\ BatchesOwned(s)
  BY EndCallTyped DEF Ruled
<1>2. /\ DOMAIN r.ringing = IF Cancels(s, c, x) THEN DOMAIN s.ringing \ {c}
                            ELSE DOMAIN s.ringing
      /\ \A d \in DOMAIN r.ringing : r.ringing[d] = s.ringing[d]
  BY <1>1, EndCallRinging
<1>3. /\ DOMAIN r.active = IF Ends(s, c, x) THEN DOMAIN s.active \ {c}
                           ELSE DOMAIN s.active
      /\ \A d \in DOMAIN r.active :
           r.active[d] = IF d = c /\ MemberIn(s, c, x)
                         THEN WithoutParticipant(s.active[c], x)
                         ELSE s.active[d]
  BY <1>1, EndCallActive
<1>4. \A d, y : MemberIn(r, d, y) <=>
        MemberIn(s, d, y) /\ ~(d = c /\ y \in Leaving(s, c, x))
  BY <1>1, EndCallMembers
<1> HIDE DEF r
<1>5. BatchesOwned(r)
  <2> SUFFICES ASSUME NEW d \in DOMAIN r.ringing
               PROVE  LET call == r.ringing[d]
                      IN  /\ \A t \in DOMAIN call.targets :
                               call.targets[t].source.client_id = call.caller_id
                          /\ d \in DOMAIN r.active =>
                               /\ MemberIn(r, d, call.caller_id)
                               /\ r.active[d].conference_leader
                                    \in {None, call.caller_id}
    BY DEF BatchesOwned
  <2>1. d \in DOMAIN s.ringing /\ r.ringing[d] = s.ringing[d]
    BY <1>2
  <2>2. ASSUME d \in DOMAIN r.active
        PROVE  /\ MemberIn(r, d, s.ringing[d].caller_id)
               /\ r.active[d].conference_leader \in {None, s.ringing[d].caller_id}
    <3>1. d \in DOMAIN s.active
      BY <1>3, <2>2
    <3>2. /\ MemberIn(s, d, s.ringing[d].caller_id)
          /\ s.active[d].conference_leader \in {None, s.ringing[d].caller_id}
      BY <1>1, <3>1, <2>1 DEF BatchesOwned
    <3>3. CASE d # c
      BY <1>3, <1>4, <2>2, <3>2, <3>3
    <3>4. CASE d = c /\ MemberIn(s, c, x)
      <4>1. ~Ends(s, c, x) /\ Leaving(s, c, x) = {x}
        BY <1>3, <2>2, <3>4 DEF Leaving
      <4>2. s.ringing[d].caller_id # x
        BY <1>2, <2>1, <3>4 DEF Cancels, CallerIn
      <4>3. r.active[c].conference_leader \in {None, s.active[c].conference_leader}
        <5>1. IsActiveCallEntry(s.active[c])
          BY <1>1, <3>1, <3>4 DEF Typed
        <5>2. r.active[c] = WithoutParticipant(s.active[c], x)
          BY <1>3, <2>2, <3>4
        <5> QED  BY <5>1, <5>2, DepartedEntry
      <4> QED  BY <1>4, <3>2, <3>4, <4>1, <4>2, <4>3
    <3>5. CASE d = c /\ ~MemberIn(s, c, x)
      <4>1. Leaving(s, c, x) = {}
        BY <3>5 DEF Leaving, Ends
      <4> QED  BY <1>3, <1>4, <2>2, <3>2, <3>5, <4>1
    <3> QED  BY <3>3, <3>4, <3>5
  <2> QED  BY <1>1, <2>1, <2>2 DEF BatchesOwned
<1>6. \A d \in DOMAIN r.active : EntryLed(r.active[d])
  <2> SUFFICES ASSUME NEW d \in DOMAIN r.active PROVE EntryLed(r.active[d])
    OBVIOUS
  <2>1. d \in DOMAIN s.active /\ EntryLed(s.active[d]) /\ IsActiveCallEntry(s.active[d])
    BY <1>1, <1>3 DEF Ruled, Typed
  <2>2. CASE d = c /\ MemberIn(s, c, x)
    <3>1. x \in ParticipantsOf(s.active[c]) /\ ~DepartureEndsCall(s.active[c], x)
      BY <1>3, <2>2 DEF Ends, MemberIn, ParticipantsOf
    <3> QED  BY <1>3, <2>1, <2>2, <3>1, DepartedLed
  <2> QED  BY <1>3, <2>1, <2>2
<1> QED
  BY <1>1, <1>5, <1>6 DEF Ruled, r

-----------------------------------------------------------------------------
(* Steps that take invitations away.                                        *)

\* From s to r batches and targets go and calls stay.
Quieter(s, r) ==
    /\ r.active = s.active
    /\ DOMAIN r.ringing \subseteq DOMAIN s.ringing
    /\ \A c \in DOMAIN r.ringing : SameBatch(s.ringing[c], r.ringing[c])

\* Such a step keeps the rules.
LEMMA QuieterRuled ==
    ASSUME NEW s, Ruled(s), NEW r, Typed(r), Quieter(s, r)
    PROVE  Ruled(r)
<1>1. BatchesOwned(s) /\ r.active = s.active
  BY DEF Ruled, Quieter
<1>2. BatchesOwned(r)
  <2> SUFFICES ASSUME NEW c \in DOMAIN r.ringing
               PROVE  LET call == r.ringing[c]
                      IN  /\ \A t \in DOMAIN call.targets :
                               call.targets[t].source.client_id = call.caller_id
                          /\ c \in DOMAIN r.active =>
                               /\ MemberIn(r, c, call.caller_id)
                               /\ r.active[c].conference_leader
                                    \in {None, call.caller_id}
    BY DEF BatchesOwned
  <2>1. c \in DOMAIN s.ringing /\ SameBatch(s.ringing[c], r.ringing[c])
    BY DEF Quieter
  <2> QED  BY <1>1, <2>1 DEF BatchesOwned, SameBatch, SameTarget, MemberIn
<1> QED  BY <1>1, <1>2 DEF Ruled

\* A batch that keeps its targets is the same batch.
LEMMA KeptBatch ==
    ASSUME NEW call, IsRingingCallEntry(call)
    PROVE  SameBatch(call, call)
BY KeptTarget DEF SameBatch

\* A batch that loses targets is the same batch.
LEMMA TargetsGone ==
    ASSUME NEW call, IsRingingCallEntry(call), NEW ts
    PROVE  SameBatch(call, [call EXCEPT !.targets = Remove(@, ts)])
<1> DEFINE new == [call EXCEPT !.targets = Remove(@, ts)]
<1>1. /\ new \in [caller_id : Clients, targets : {new.targets}]
      /\ new.caller_id = call.caller_id
      /\ new.targets = Remove(call.targets, ts)
  BY DEF IsRingingCallEntry
<1>2. IsMap(new.targets, Targets, RingingTargetEntry)
  BY <1>1, RemoveIsMap DEF IsRingingCallEntry
<1> HIDE DEF new
<1>3. SameBatch(call, new)
  BY <1>1, <1>2, KeptTarget DEF SameBatch, IsRingingCallEntry, Remove, Restrict
<1> QED  BY <1>3 DEF new

\* Replacing or removing one batch is such a step.
LEMMA OneBatchQuieter ==
    ASSUME NEW s, Typed(s), NEW r, r.active = s.active, NEW c \in DOMAIN s.ringing,
           NEW new, SameBatch(s.ringing[c], new),
           r.ringing \in {s.ringing, Remove(s.ringing, {c}), [s.ringing EXCEPT ![c] = new]}
    PROVE  /\ Quieter(s, r)
           /\ r.ringing = [d \in DOMAIN r.ringing |-> r.ringing[d]]
           /\ DOMAIN r.ringing \subseteq CallIds
           /\ \A d \in DOMAIN r.ringing : IsRingingCallEntry(r.ringing[d])
<1>1. /\ \A d \in DOMAIN s.ringing : SameBatch(s.ringing[d], s.ringing[d])
      /\ s.ringing = [d \in DOMAIN s.ringing |-> s.ringing[d]]
      /\ DOMAIN s.ringing \subseteq CallIds
  BY KeptBatch DEF Typed
<1>2. /\ DOMAIN r.ringing \subseteq DOMAIN s.ringing
      /\ r.ringing = [d \in DOMAIN r.ringing |-> r.ringing[d]]
      /\ \A d \in DOMAIN r.ringing : SameBatch(s.ringing[d], r.ringing[d])
  BY <1>1 DEF Remove, Restrict
<1> QED  BY <1>1, <1>2 DEF Quieter, SameBatch

\* The invitee part of cleanup_client_calls is such a step, whatever the
\* client's incoming index says, and frees callers of removed batches.
LEMMA LapseEffect ==
    ASSUME NEW s, Typed(s), NEW x \in Clients, NEW invitations
    PROVE  LET r     == AfterInvitationsLapse(s, x, invitations)
               ended == DOMAIN s.ringing \ DOMAIN r.ringing
               idle  == {y \in {s.ringing[c].caller_id : c \in ended} :
                           \A a \in DOMAIN s.active : y \notin ParticipantsOf(s.active[a])}
           IN  /\ Typed(r)
               /\ Quieter(s, r)
               /\ r.incoming = s.incoming
               /\ r.busy = Remove(s.busy, idle)
<1> DEFINE r     == AfterInvitationsLapse(s, x, invitations)
           rung  == DOMAIN invitations \cap DOMAIN s.ringing
           after == [c \in DOMAIN s.ringing |->
                       IF c \in rung
                       THEN WithoutInvitee(s.ringing[c], x, invitations[c])
                       ELSE s.ringing[c]]
           ended == {c \in rung : AllTargetsFailed(after[c])}
           idle  == {y \in {s.ringing[c].caller_id : c \in ended} :
                       \A a \in DOMAIN s.active :
                         y \notin ParticipantsOf(s.active[a])}
<1>1. /\ r \in [ringing : {r.ringing}, active : {r.active},
                incoming : {r.incoming}, busy : {r.busy}]
      /\ r.ringing = Remove(after, ended)
      /\ r.active = s.active
      /\ r.incoming = s.incoming
      /\ r.busy = Remove(s.busy, idle)
  BY DEF AfterInvitationsLapse, Typed
<1>2. \A c \in DOMAIN s.ringing : SameBatch(s.ringing[c], after[c])
  <2> SUFFICES ASSUME NEW c \in DOMAIN s.ringing
               PROVE  SameBatch(s.ringing[c], after[c])
    OBVIOUS
  <2>1. IsRingingCallEntry(s.ringing[c])
    BY DEF Typed
  <2> QED  BY <2>1, KeptBatch, InviteeGone
<1> HIDE DEF r, after
<1>3. /\ DOMAIN r.ringing = DOMAIN s.ringing \ ended
      /\ r.ringing = [c \in DOMAIN r.ringing |-> r.ringing[c]]
      /\ \A c \in DOMAIN r.ringing : r.ringing[c] = after[c]
  BY <1>1 DEF Remove, Restrict, after
<1>4. Typed(r)
  <2>1. \A c \in DOMAIN r.ringing : IsRingingCallEntry(r.ringing[c])
    BY <1>2, <1>3 DEF SameBatch
  <2>2. IsMap(r.busy, Clients, CallIds)
    BY <1>1, RemoveIsMap DEF Typed
  <2> QED  BY <1>1, <1>3, <2>1, <2>2 DEF Typed
<1>5. Quieter(s, r)
  BY <1>1, <1>2, <1>3 DEF Quieter
<1>6. ended = DOMAIN s.ringing \ DOMAIN r.ringing
  BY <1>3
<1> HIDE DEF ended
<1> QED  BY <1>1, <1>4, <1>5, <1>6 DEF r

-----------------------------------------------------------------------------
(* Steps that change nothing of who takes part.                             *)

\* From s to r at most the incoming index, join orders and link reports change.
Relabelled(s, r) ==
    /\ r \in [ringing : {s.ringing}, active : {r.active},
              incoming : {r.incoming}, busy : {s.busy}]
    /\ r.active = [c \in DOMAIN s.active |-> r.active[c]]
    /\ \A c \in DOMAIN s.active :
         /\ IsActiveCallEntry(r.active[c])
         /\ r.active[c].participants = s.active[c].participants
         /\ r.active[c].conference_leader = s.active[c].conference_leader
    /\ r.incoming = [x \in Clients |-> r.incoming[x]]
    /\ \A x \in Clients : IsMap(r.incoming[x], CallIds, Targets)

\* Such a step moves nobody and keeps the rules.
LEMMA RelabelledRuled ==
    ASSUME NEW s, Ruled(s), NEW r, Relabelled(s, r)
    PROVE  /\ Ruled(r)
           /\ r.ringing = s.ringing /\ r.busy = s.busy
           /\ DOMAIN r.active = DOMAIN s.active
           /\ \A c, y : /\ MemberIn(r, c, y) <=> MemberIn(s, c, y)
                        /\ CallerIn(r, c, y) <=> CallerIn(s, c, y)
                        /\ BusyIn(r, c, y) <=> BusyIn(s, c, y)
<1>1. /\ r.ringing = s.ringing /\ r.busy = s.busy
      /\ DOMAIN r.active = DOMAIN s.active
  BY DEF Relabelled
<1>2. Typed(s) /\ BatchesOwned(s)
  BY DEF Ruled
<1>3. Typed(r)
  BY <1>1, <1>2 DEF Typed, Relabelled
<1>4. \A c, y : /\ MemberIn(r, c, y) <=> MemberIn(s, c, y)
                /\ CallerIn(r, c, y) <=> CallerIn(s, c, y)
                /\ BusyIn(r, c, y) <=> BusyIn(s, c, y)
  BY <1>1 DEF MemberIn, CallerIn, BusyIn, Relabelled
<1>5. BatchesOwned(r)
  BY <1>1, <1>2, <1>4 DEF BatchesOwned, Relabelled
<1>6. \A c \in DOMAIN r.active : EntryLed(r.active[c])
  BY <1>1 DEF Ruled, EntryLed, Relabelled
<1> QED  BY <1>1, <1>3, <1>4, <1>5, <1>6 DEF Ruled

\* Removing incoming entries is such a step.
LEMMA UninvitedRelabelled ==
    ASSUME NEW s, Typed(s), NEW c, NEW xs
    PROVE  Relabelled(s, [s EXCEPT !.incoming = Uninvite(@, c, xs)])
<1> DEFINE r == [s EXCEPT !.incoming = Uninvite(@, c, xs)]
<1>1. /\ r \in [ringing : {s.ringing}, active : {r.active},
                incoming : {r.incoming}, busy : {s.busy}]
      /\ r.active = s.active
      /\ r.incoming = Uninvite(s.incoming, c, xs)
  BY DEF Typed
<1> HIDE DEF r
<1>2. /\ r.incoming = [x \in Clients |-> r.incoming[x]]
      /\ \A x \in Clients : IsMap(r.incoming[x], CallIds, Targets)
  BY <1>1, UninviteTyped DEF Typed
<1>3. /\ r.active = [d \in DOMAIN s.active |-> r.active[d]]
      /\ \A d \in DOMAIN s.active : IsActiveCallEntry(r.active[d])
  BY <1>1 DEF Typed
<1>4. Relabelled(s, r)
  BY <1>1, <1>2, <1>3 DEF Relabelled
<1> QED  BY <1>4 DEF r

\* So is taking out all incoming entries of a client.
LEMMA TakenRelabelled ==
    ASSUME NEW s, Typed(s), NEW x \in Clients
    PROVE  Relabelled(s, [s EXCEPT !.incoming[x] = Empty])
<1> DEFINE r == [s EXCEPT !.incoming[x] = Empty]
<1>1. /\ r \in [ringing : {s.ringing}, active : {r.active},
                incoming : {r.incoming}, busy : {s.busy}]
      /\ r.active = s.active
      /\ r.incoming = [s.incoming EXCEPT ![x] = Empty]
  BY DEF Typed
<1>2. IsMap(Empty, CallIds, Targets)
  BY DEF IsMap, Empty
<1> HIDE DEF r
<1>3. /\ r.incoming = [y \in Clients |-> r.incoming[y]]
      /\ \A y \in Clients : IsMap(r.incoming[y], CallIds, Targets)
  BY <1>1, <1>2 DEF Typed
<1>4. /\ r.active = [d \in DOMAIN s.active |-> r.active[d]]
      /\ \A d \in DOMAIN s.active : IsActiveCallEntry(r.active[d])
  BY <1>1 DEF Typed
<1>5. Relabelled(s, r)
  BY <1>1, <1>3, <1>4 DEF Relabelled
<1> QED  BY <1>5 DEF r

\* Replacing an active call by one with the same participants and leader is such
\* a step.
LEMMA CallRelabelled ==
    ASSUME NEW s, Typed(s), NEW c \in DOMAIN s.active, NEW new,
           IsActiveCallEntry(new),
           new.participants = s.active[c].participants,
           new.conference_leader = s.active[c].conference_leader
    PROVE  Relabelled(s, [s EXCEPT !.active = [@ EXCEPT ![c] = new]])
<1> DEFINE r == [s EXCEPT !.active = [@ EXCEPT ![c] = new]]
<1>1. /\ r \in [ringing : {s.ringing}, active : {r.active},
                incoming : {r.incoming}, busy : {s.busy}]
      /\ r.active = [s.active EXCEPT ![c] = new]
      /\ r.incoming = s.incoming
  BY DEF Typed
<1> HIDE DEF r
<1>2. /\ r.active = [d \in DOMAIN s.active |-> r.active[d]]
      /\ r.active[c] = new
      /\ \A d \in DOMAIN s.active : d # c => r.active[d] = s.active[d]
  BY <1>1 DEF Typed
<1>3. \A d \in DOMAIN s.active :
        /\ IsActiveCallEntry(r.active[d])
        /\ r.active[d].participants = s.active[d].participants
        /\ r.active[d].conference_leader = s.active[d].conference_leader
  BY <1>2 DEF Typed
<1>4. /\ r.incoming = [x \in Clients |-> r.incoming[x]]
      /\ \A x \in Clients : IsMap(r.incoming[x], CallIds, Targets)
  BY <1>1 DEF Typed
<1>5. Relabelled(s, r)
  BY <1>1, <1>2, <1>3, <1>4 DEF Relabelled
<1> QED  BY <1>5 DEF r

-----------------------------------------------------------------------------
(* The actions.                                                             *)

\* The next state as one value.
LEMMA CallsPrimed ==
    Calls' = [ringing |-> ringing_calls', active |-> active_calls',
              incoming |-> client_incoming_calls', busy |-> client_active_calls']
BY DEF Calls

\* The fields of the current and of the next state.
LEMMA CallsFields ==
    /\ Calls.ringing = ringing_calls /\ Calls.active = active_calls
    /\ Calls.incoming = client_incoming_calls /\ Calls.busy = client_active_calls
    /\ Calls'.ringing = ringing_calls' /\ Calls'.active = active_calls'
    /\ Calls'.incoming = client_incoming_calls' /\ Calls'.busy = client_active_calls'
    /\ Calls' \in [ringing : {Calls'.ringing}, active : {Calls'.active},
                   incoming : {Calls'.incoming}, busy : {Calls'.busy}]
BY DEF Calls

\* A step that takes one batch away, or targets and callees out of it.
LEMMA BatchStep ==
    ASSUME Typed(Calls), NEW c \in DOMAIN ringing_calls, NEW STATE new,
           SameBatch(ringing_calls[c], new), active_calls' = active_calls,
           ringing_calls' \in {ringing_calls, Remove(ringing_calls, {c}),
                               [ringing_calls EXCEPT ![c] = new]}
    PROVE  /\ Quieter(Calls, Calls')
           /\ ringing_calls' = [d \in DOMAIN ringing_calls' |-> ringing_calls'[d]]
           /\ DOMAIN ringing_calls' \subseteq CallIds
           /\ \A d \in DOMAIN ringing_calls' : IsRingingCallEntry(ringing_calls'[d])
<1>1. /\ Calls'.active = Calls.active
      /\ c \in DOMAIN Calls.ringing
      /\ SameBatch(Calls.ringing[c], new)
      /\ Calls'.ringing \in {Calls.ringing, Remove(Calls.ringing, {c}),
                             [Calls.ringing EXCEPT ![c] = new]}
  BY CallsFields
<1>2. Calls'.ringing = ringing_calls'
  BY CallsFields
<1> QED  BY <1>1, <1>2, OneBatchQuieter

\* The manager becomes the four maps of a well-typed value.
LEMMA BecomesIs ==
    ASSUME NEW STATE s, Typed(s), Becomes(s)
    PROVE  Calls' = s
<1>1. s \in [ringing : {s.ringing}, active : {s.active},
             incoming : {s.incoming}, busy : {s.busy}]
  BY DEF Typed
<1> QED  BY <1>1, CallsPrimed DEF Becomes

\* The manager becomes a relabelled value.
LEMMA BecomesRelabelled ==
    ASSUME NEW STATE s, Relabelled(Calls, s), Becomes(s)
    PROVE  Relabelled(Calls, Calls')
<1>1. s \in [ringing : {s.ringing}, active : {s.active},
             incoming : {s.incoming}, busy : {s.busy}]
  BY DEF Relabelled
<1>2. Calls' = s
  BY <1>1, CallsPrimed DEF Becomes
<1> QED  BY <1>2

\* Recording a link report moves nobody.
LEMMA ReportRelabelled ==
    ASSUME Typed(Calls), NEW c \in DOMAIN active_calls, NEW x \in Clients, NEW y \in Clients
    PROVE  Relabelled(Calls, [Calls EXCEPT !.active =
                                [@ EXCEPT ![c] = RecordLinkReport(active_calls[c], x, y)]])
<1> DEFINE recorded == RecordLinkReport(active_calls[c], x, y)
<1>1. /\ IsActiveCallEntry(recorded)
      /\ recorded.participants = active_calls[c].participants
      /\ recorded.conference_leader = active_calls[c].conference_leader
  BY RecordedEntry, CallsFields DEF Typed
<1> HIDE DEF recorded
<1>2. Relabelled(Calls, [Calls EXCEPT !.active = [@ EXCEPT ![c] = recorded]])
  BY <1>1, CallRelabelled, CallsFields
<1> QED  BY <1>2 DEF recorded

\* Neither does its expiry.
LEMMA ExpiryRelabelled ==
    ASSUME Typed(Calls), NEW c \in CallIds, NEW pair, LinkReportExpires(c, pair)
    PROVE  Relabelled(Calls, Calls')
<1> DEFINE call    == active_calls[c]
           reports == [call.link_reports EXCEPT ![pair].fresh = FALSE]
           new     == [call EXCEPT !.link_reports = reports]
           r       == [Calls EXCEPT !.active = [@ EXCEPT ![c] = new]]
<1>1. c \in DOMAIN active_calls /\ pair \in DOMAIN call.link_reports
  BY DEF LinkReportExpires, IsActive
<1>2. IsActiveCallEntry(call)
  BY <1>1, CallsFields DEF Typed
<1>3. IsMap(reports, Links, [reporters : SUBSET Clients, fresh : BOOLEAN])
  BY <1>1, <1>2 DEF IsActiveCallEntry, IsMap
<1>4. /\ IsActiveCallEntry(new)
      /\ new.participants = call.participants
      /\ new.conference_leader = call.conference_leader
  BY <1>2, <1>3, ReportsEntry
<1>5. /\ active_calls' = [active_calls EXCEPT ![c] = new]
      /\ UNCHANGED <<ringing_calls, client_incoming_calls, client_active_calls>>
  BY <1>1, <1>2 DEF LinkReportExpires
<1> HIDE DEF new
<1>6. Relabelled(Calls, r)
  BY <1>1, <1>4, CallRelabelled, CallsFields
<1>7. Becomes(r)
  BY <1>5 DEF Becomes, Calls
<1> QED  BY <1>6, <1>7, BecomesRelabelled

\* A participant dropped by the leader leaves as if it had ended the call
\* itself: the drop neither ends the call nor touches the ringing batch.
LEMMA DropJoinedIsLeave ==
    ASSUME Ruled(Calls), NEW c \in CallIds, NEW x \in Clients, NEW t \in Targets,
           NEW reason, DropJoinedParticipant(c, x, t, reason)
    PROVE  \E dropped \in Clients : EndCall(c, dropped)
<1> DEFINE call == active_calls[c]
           P    == ParticipantsOf(call)
<1>1. PICK dropped \in P \ {x} :
        /\ active_calls' = [active_calls EXCEPT ![c] = WithoutParticipant(@, dropped)]
        /\ client_active_calls' = ReleaseBusy(client_active_calls, c, {dropped})
  BY DEF DropJoinedParticipant, ParticipantsWithoutSelf
<1>2. /\ UNCHANGED <<ringing_calls, client_incoming_calls>>
      /\ c \in DOMAIN active_calls
      /\ call.conference_leader = x
      /\ Cardinality(P) > 2
  BY DEF DropJoinedParticipant, Participates, IsActive
<1>3. /\ Typed(Calls) /\ BatchesOwned(Calls)
      /\ Calls.ringing = ringing_calls /\ Calls.active = active_calls
      /\ Calls.busy = client_active_calls /\ Calls.incoming = client_incoming_calls
  BY DEF Ruled, Calls
<1>4. P \subseteq Clients
  BY <1>2, <1>3 DEF Typed, IsActiveCallEntry, IsMap, ParticipantsOf
<1>5. Cardinality(P \ {dropped}) = Cardinality(P) - 1 /\ Cardinality(P) \in Nat
  BY <1>1, <1>4, ClientsAreFinite, FS_Subset, FS_RemoveElement, FS_CardinalityType
<1>6. ~DepartureEndsCall(call, dropped)
  BY <1>1, <1>2, <1>5 DEF DepartureEndsCall, ParticipantsWithoutSelf
<1>7. ~CallerIn(Calls, c, dropped)
  BY <1>1, <1>2, <1>3, NoneIsNoClient DEF BatchesOwned, CallerIn
<1>8. Remove(client_active_calls, {}) = client_active_calls
  BY <1>3 DEF Typed, IsMap, Remove, Restrict
<1>9. AfterEndCall(Calls, c, dropped) =
        [ringing |-> ringing_calls,
         active |-> [active_calls EXCEPT ![c] = WithoutParticipant(@, dropped)],
         incoming |-> client_incoming_calls,
         busy |-> ReleaseBusy(client_active_calls, c, {dropped})]
  BY <1>1, <1>2, <1>3, <1>6, <1>7, <1>8 DEF AfterEndCall, CallerIn
<1>10. EndCall(c, dropped)
  BY <1>1, <1>2, <1>9 DEF EndCall, Becomes
<1> QED  BY <1>1, <1>4, <1>10

\* What accept_call does to the active calls: the acceptor joins its call, the
\* first one together with the caller, any later one under the caller as leader.
LEMMA AcceptJoins ==
    ASSUME Ruled(Calls), NEW c \in CallIds, NEW x \in Clients, AcceptCall(c, x)
    PROVE  LET call   == ringing_calls[c]
               caller == call.caller_id
               new    == active_calls'[c]
               joined == IF IsActive(c) THEN DOMAIN active_calls[c].participants
                         ELSE {caller}
           IN  /\ IsRingingCallEntry(call) /\ caller \in Clients
               /\ IsActive(c) => /\ IsActiveCallEntry(active_calls[c])
                                 /\ EntryLed(active_calls[c])
                                 /\ caller \in DOMAIN active_calls[c].participants
                                 /\ active_calls[c].conference_leader \in {None, caller}
               /\ IsActiveCallEntry(new)
               /\ DOMAIN new.participants = joined \cup {x}
               /\ new.conference_leader = IF IsActive(c) THEN caller ELSE None
               /\ DOMAIN active_calls' = DOMAIN active_calls \cup {c}
               /\ active_calls' = [d \in DOMAIN active_calls' |-> active_calls'[d]]
               /\ \A d \in DOMAIN active_calls' :
                    d # c => active_calls'[d] = active_calls[d]
<1> DEFINE call    == ringing_calls[c]
           caller  == call.caller_id
           answers == {t \in DOMAIN call.targets :
                         x \in call.targets[t].notified_clients}
           new     == active_calls'[c]
           joined  == IF IsActive(c) THEN DOMAIN active_calls[c].participants
                      ELSE {caller}
<1>1. Typed(Calls) /\ BatchesOwned(Calls)
  BY DEF Ruled
<1>2. /\ Calls.ringing = ringing_calls /\ Calls.active = active_calls
      /\ Calls.busy = client_active_calls /\ Calls.incoming = client_incoming_calls
  BY DEF Calls
<1>4. x \notin DOMAIN client_active_calls /\ c \in DOMAIN ringing_calls
  BY DEF AcceptCall, AcceptorIsFree, IsRinging
<1>5. PICK t \in answers, s \in answers :
        active_calls' =
          Put(active_calls, c,
              IF ~IsActive(c)
              THEN Joined(Joined(NewActiveCall, caller, call.targets[s].source.target),
                          x, t)
              ELSE IF Joined(active_calls[c], x, t).conference_leader = None
              THEN [Joined(active_calls[c], x, t) EXCEPT
                      !.conference_leader = call.targets[s].source.client_id]
              ELSE Joined(active_calls[c], x, t))
  BY DEF AcceptCall, AnsweredTargets, LeaderAfter
<1>6. /\ IsRingingCallEntry(call)
      /\ t \in Targets /\ caller \in Clients
      /\ call.targets[s].source.target \in Targets
      /\ call.targets[s].source.client_id = caller
  <2>1. /\ IsRingingCallEntry(call)
        /\ call.targets[s].source.client_id = caller
    BY <1>1, <1>2, <1>4 DEF Typed, BatchesOwned
  <2> QED  BY <2>1 DEF IsRingingCallEntry, IsMap, RingingTargetEntry
<1>8. IsActive(c) => /\ IsActiveCallEntry(active_calls[c])
                     /\ EntryLed(active_calls[c])
                     /\ caller \in DOMAIN active_calls[c].participants
                     /\ active_calls[c].conference_leader \in {None, caller}
  BY <1>1, <1>2, <1>4 DEF IsActive, Typed, Ruled, BatchesOwned, MemberIn
<1>9. /\ IsActiveCallEntry(new)
      /\ DOMAIN new.participants = joined \cup {x}
      /\ new.conference_leader = IF IsActive(c) THEN caller ELSE None
  <2>1. CASE ~IsActive(c)
    <3> DEFINE begun == Joined(NewActiveCall, caller, call.targets[s].source.target)
    <3>1. IsActiveCallEntry(begun) /\ DOMAIN begun.participants = {caller}
          /\ begun.conference_leader = None
      BY <1>6, NewEntry, JoinedEntry
    <3> HIDE DEF begun
    <3>2. new = Joined(begun, x, t)
      BY <1>5, <2>1 DEF Put, begun
    <3> HIDE DEF new
    <3> QED  BY <1>6, <2>1, <3>1, <3>2, JoinedEntry
  <2>2. CASE IsActive(c)
    <3> DEFINE more == Joined(active_calls[c], x, t)
    <3>1. /\ IsActiveCallEntry(more)
          /\ DOMAIN more.participants = joined \cup {x}
          /\ more.conference_leader = active_calls[c].conference_leader
      BY <1>6, <1>8, <2>2, JoinedEntry
    <3> HIDE DEF more
    <3>2. new = IF more.conference_leader = None
                THEN [more EXCEPT !.conference_leader = caller] ELSE more
      BY <1>5, <1>6, <2>2 DEF Put, more
    <3> HIDE DEF new
    <3> QED  BY <1>6, <1>8, <2>2, <3>1, <3>2 DEF IsActiveCallEntry
  <2> QED  BY <2>1, <2>2
<1>11. /\ DOMAIN active_calls' = DOMAIN active_calls \cup {c}
       /\ active_calls' = [d \in DOMAIN active_calls' |-> active_calls'[d]]
       /\ \A d \in DOMAIN active_calls' : d # c => active_calls'[d] = active_calls[d]
  BY <1>5 DEF Put
<1> HIDE DEF new, answers, joined
<1> QED  BY <1>6, <1>8, <1>9, <1>11 DEF new, joined

\* accept_call keeps the rules for an acceptor that is neither in the call nor
\* calling with it.
LEMMA AcceptRuled ==
    ASSUME Ruled(Calls), NEW c \in CallIds, NEW x \in Clients, AcceptCall(c, x),
           ~MemberIn(Calls, c, x), ~CallerIn(Calls, c, x)
    PROVE  /\ Ruled(Calls')
           /\ DOMAIN ringing_calls \ {c} \subseteq DOMAIN ringing_calls'
           /\ DOMAIN ringing_calls' \subseteq DOMAIN ringing_calls
           /\ \A d \in DOMAIN ringing_calls' : SameBatch(ringing_calls[d], ringing_calls'[d])
           /\ \A d, y : MemberIn(Calls', d, y) <=>
                MemberIn(Calls, d, y) \/ (d = c /\ y \in {x, ringing_calls[c].caller_id})
           /\ \A d, y : BusyIn(Calls', d, y) <=> IF y = x THEN d = c ELSE BusyIn(Calls, d, y)
<1> DEFINE call    == ringing_calls[c]
           caller  == call.caller_id
           answers == AnsweredTargets(call, x)
           left    == [call EXCEPT !.targets = Remove(@, answers)]
           new     == active_calls'[c]
           joined  == IF IsActive(c) THEN DOMAIN active_calls[c].participants
                      ELSE {caller}
<1>1. Typed(Calls) /\ BatchesOwned(Calls)
  BY DEF Ruled
<1>2. /\ c \in DOMAIN ringing_calls
      /\ ringing_calls' = IF answers = DOMAIN call.targets
                          THEN Remove(ringing_calls, {c})
                          ELSE [ringing_calls EXCEPT ![c] = left]
      /\ \E rung : client_incoming_calls' = Uninvite(client_incoming_calls, c, rung)
      /\ client_active_calls' = Put(client_active_calls, x, c)
  BY DEF AcceptCall, IsRinging
<1>3. /\ IsRingingCallEntry(call) /\ caller \in Clients
      /\ IsActive(c) => /\ IsActiveCallEntry(active_calls[c])
                        /\ EntryLed(active_calls[c])
                        /\ caller \in DOMAIN active_calls[c].participants
                        /\ active_calls[c].conference_leader \in {None, caller}
      /\ IsActiveCallEntry(new)
      /\ DOMAIN new.participants = joined \cup {x}
      /\ new.conference_leader = IF IsActive(c) THEN caller ELSE None
      /\ DOMAIN active_calls' = DOMAIN active_calls \cup {c}
      /\ active_calls' = [d \in DOMAIN active_calls' |-> active_calls'[d]]
      /\ \A d \in DOMAIN active_calls' : d # c => active_calls'[d] = active_calls[d]
  BY AcceptJoins
<1>4. EntryLed(new)
  <2>1. /\ joined \subseteq Clients /\ x \notin joined
        /\ IsActive(c) => Cardinality(joined) >= 2
        /\ ~IsActive(c) => Cardinality(joined) = 1
        /\ caller \in joined
    <3>1. CASE IsActive(c)
      <4>1. joined \subseteq Clients /\ caller \in joined
        BY <1>3, <3>1 DEF IsActiveCallEntry, IsMap
      <4>2. x \notin joined
        BY <3>1, CallsFields DEF MemberIn, IsActive
      <4> QED  BY <1>3, <3>1, <4>1, <4>2 DEF EntryLed
    <3>2. CASE ~IsActive(c)
      <4>1. x # caller
        BY <1>2, CallsFields DEF CallerIn
      <4> QED  BY <1>3, <3>2, <4>1, FS_Singleton
    <3> QED  BY <3>1, <3>2
  <2>2. caller # None
    BY <1>3, NoneIsNoClient
  <2>3. /\ DOMAIN new.participants = joined \cup {x}
        /\ new.conference_leader = IF IsActive(c) THEN caller ELSE None
    BY <1>3
  <2> HIDE DEF joined, new, caller
  <2>4. IsFiniteSet(joined)
    BY <2>1, ClientsAreFinite, FS_Subset
  <2>5. /\ Cardinality(joined) \in Nat
        /\ Cardinality(joined \cup {x}) = Cardinality(joined) + 1
    BY <2>1, <2>4, FS_AddElement, FS_CardinalityType
  <2> QED  BY <2>1, <2>2, <2>3, <2>5 DEF EntryLed
<1>5. SameBatch(call, left)
  BY <1>3, TargetsGone
<1> HIDE DEF new, left, answers
<1>6. /\ DOMAIN ringing_calls' \subseteq DOMAIN ringing_calls
      /\ DOMAIN ringing_calls \ {c} \subseteq DOMAIN ringing_calls'
      /\ ringing_calls' = [d \in DOMAIN ringing_calls' |-> ringing_calls'[d]]
      /\ \A d \in DOMAIN ringing_calls' :
           SameBatch(ringing_calls[d], ringing_calls'[d])
  <2>1. \A d \in DOMAIN ringing_calls : SameBatch(ringing_calls[d], ringing_calls[d])
    BY <1>1, CallsFields, KeptBatch DEF Typed
  <2>2. ringing_calls = [d \in DOMAIN ringing_calls |-> ringing_calls[d]]
    BY <1>1, CallsFields DEF Typed
  <2> QED  BY <1>2, <1>5, <2>1, <2>2 DEF Remove, Restrict
<1>7. Typed(Calls')
  <2>1. /\ client_incoming_calls' = [y \in Clients |-> client_incoming_calls'[y]]
        /\ \A y \in Clients : IsMap(client_incoming_calls'[y], CallIds, Targets)
    <3>1. \A y \in Clients : IsMap(client_incoming_calls[y], CallIds, Targets)
      BY <1>1, CallsFields DEF Typed
    <3>2. PICK rung : client_incoming_calls' = Uninvite(client_incoming_calls, c, rung)
      BY <1>2
    <3> QED  BY <3>1, <3>2, UninviteTyped
  <2>2. IsMap(client_active_calls', Clients, CallIds)
    BY <1>1, <1>2, CallsFields, PutIsMap DEF Typed
  <2>3. \A d \in DOMAIN ringing_calls' : IsRingingCallEntry(ringing_calls'[d])
    BY <1>6 DEF SameBatch
  <2>4. /\ DOMAIN active_calls' \subseteq CallIds
        /\ \A d \in DOMAIN active_calls' : IsActiveCallEntry(active_calls'[d])
    BY <1>1, <1>3, CallsFields DEF Typed, new
  <2>5. DOMAIN ringing_calls' \subseteq CallIds
    BY <1>1, <1>6, CallsFields DEF Typed
  <2> QED  BY <1>3, <1>6, <2>1, <2>2, <2>3, <2>4, <2>5, CallsFields DEF Typed
<1>8. \A d, y : MemberIn(Calls', d, y) <=>
         MemberIn(Calls, d, y) \/ (d = c /\ y \in {x, caller})
  <2> TAKE d, y
  <2>1. CASE d # c
    BY <1>3, <2>1, CallsFields DEF MemberIn
  <2>2. CASE d = c
    BY <1>3, <2>2, CallsFields DEF MemberIn, new, IsActive
  <2> QED  BY <2>1, <2>2
<1>9. BatchesOwned(Calls')
  <2> SUFFICES ASSUME NEW d \in DOMAIN ringing_calls'
               PROVE  LET b == ringing_calls'[d]
                      IN  /\ \A u \in DOMAIN b.targets :
                               b.targets[u].source.client_id = b.caller_id
                          /\ d \in DOMAIN active_calls' =>
                               /\ MemberIn(Calls', d, b.caller_id)
                               /\ active_calls'[d].conference_leader
                                    \in {None, b.caller_id}
    BY CallsFields DEF BatchesOwned
  <2>1. d \in DOMAIN ringing_calls /\ SameBatch(ringing_calls[d], ringing_calls'[d])
    BY <1>6
  <2>2. \A u \in DOMAIN ringing_calls'[d].targets :
           ringing_calls'[d].targets[u].source.client_id = ringing_calls'[d].caller_id
    BY <1>1, <2>1, CallsFields DEF BatchesOwned, SameBatch, SameTarget
  <2>3. CASE d = c
    BY <1>3, <1>8, <2>1, <2>2, <2>3 DEF SameBatch, new
  <2>4. CASE d # c
    <3>1. d \in DOMAIN active_calls' =>
            /\ MemberIn(Calls, d, ringing_calls[d].caller_id)
            /\ active_calls'[d].conference_leader \in {None, ringing_calls[d].caller_id}
      BY <1>1, <1>3, <2>1, <2>4, CallsFields DEF BatchesOwned
    <3> QED  BY <1>8, <2>1, <2>2, <3>1 DEF SameBatch
  <2> QED  BY <2>3, <2>4
<1>10. \A d \in DOMAIN Calls'.active : EntryLed(Calls'.active[d])
  BY <1>3, <1>4, CallsFields DEF Ruled, new
<1>11. \A d, y : BusyIn(Calls', d, y) <=> IF y = x THEN d = c ELSE BusyIn(Calls, d, y)
  BY <1>2, CallsFields DEF BusyIn, Put
<1>12. Ruled(Calls')
  BY <1>7, <1>9, <1>10 DEF Ruled
<1> QED  BY <1>6, <1>8, <1>11, <1>12

\* attempt_call keeps the rules for a caller that takes part in the call, if
\* the call runs.
LEMMA AttemptRuled ==
    ASSUME Ruled(Calls), NEW c \in CallIds, NEW x \in Clients, NEW t \in Targets,
           NEW st \in Targets, NEW notified \in SUBSET Clients,
           AttemptCall(c, x, [client_id |-> x, target |-> st], t, notified),
           c \in DOMAIN Calls.active => MemberIn(Calls, c, x)
    PROVE  /\ Ruled(Calls')
           /\ \A d, y : /\ MemberIn(Calls', d, y) <=> MemberIn(Calls, d, y)
                        /\ CallerIn(Calls', d, y) <=>
                             IF d = c THEN y = x ELSE CallerIn(Calls, d, y)
                        /\ BusyIn(Calls', d, y) <=>
                             IF y = x THEN d = c ELSE BusyIn(Calls, d, y)
<1> DEFINE source == [client_id |-> x, target |-> st]
           entry  == NewRingingTarget(source, notified)
           opened == [caller_id |-> x, targets |-> Put(Empty, t, entry)]
           grown  == [ringing_calls[c] EXCEPT !.targets = Put(@, t, entry)]
           batch  == IF IsRinging(c) THEN grown ELSE opened
<1>1. Typed(Calls) /\ BatchesOwned(Calls)
  BY DEF Ruled
<1>2. /\ Calls.ringing = ringing_calls /\ Calls.active = active_calls
      /\ Calls.busy = client_active_calls /\ Calls.incoming = client_incoming_calls
  BY DEF Calls
<1>3. /\ Calls' \in [ringing : {Calls'.ringing}, active : {Calls'.active},
                     incoming : {Calls'.incoming}, busy : {Calls'.busy}]
      /\ Calls'.ringing = ringing_calls' /\ Calls'.active = active_calls'
      /\ Calls'.busy = client_active_calls'
      /\ Calls'.incoming = client_incoming_calls'
  BY DEF Calls
<1>4. /\ ringing_calls' = Put(ringing_calls, c, batch)
      /\ client_active_calls' = Put(client_active_calls, x, c)
      /\ client_incoming_calls' =
           [y \in Clients |->
              IF y \in notified THEN Put(client_incoming_calls[y], c, t)
                                ELSE client_incoming_calls[y]]
      /\ active_calls' = active_calls
  BY DEF AttemptCall
<1>5. \/ /\ x \in DOMAIN client_active_calls /\ client_active_calls[x] = c
         /\ c \in DOMAIN active_calls => active_calls[c].conference_leader \in {None, x}
         /\ c \in DOMAIN ringing_calls => ringing_calls[c].caller_id = x
      \/ /\ x \notin DOMAIN client_active_calls
         /\ c \notin DOMAIN active_calls /\ c \notin DOMAIN ringing_calls
  BY DEF AttemptCall, ValidCallAttempt, IsActive, IsRinging
<1>6. entry \in RingingTargetEntry /\ entry.source.client_id = x
  BY DEF NewRingingTarget, RingingTargetEntry
<1> HIDE DEF entry
<1>7. /\ IsRingingCallEntry(batch)
      /\ batch.caller_id = x
      /\ \A u \in DOMAIN batch.targets : batch.targets[u].source.client_id = x
  <2>1. CASE IsRinging(c)
    <3>1. /\ IsRingingCallEntry(ringing_calls[c])
          /\ ringing_calls[c].caller_id = x
          /\ \A u \in DOMAIN ringing_calls[c].targets :
               ringing_calls[c].targets[u].source.client_id = x
      BY <1>1, <1>2, <1>5, <2>1 DEF IsRinging, Typed, BatchesOwned
    <3>2. /\ grown \in [caller_id : Clients, targets : {grown.targets}]
          /\ grown.caller_id = x
          /\ grown.targets = Put(ringing_calls[c].targets, t, entry)
      BY <3>1 DEF IsRingingCallEntry
    <3>3. IsMap(grown.targets, Targets, RingingTargetEntry)
      BY <1>6, <3>1, <3>2, PutIsMap DEF IsRingingCallEntry
    <3>4. \A u \in DOMAIN grown.targets : grown.targets[u].source.client_id = x
      BY <1>6, <3>1, <3>2 DEF Put
    <3> QED  BY <2>1, <3>2, <3>3, <3>4 DEF IsRingingCallEntry
  <2>2. CASE ~IsRinging(c)
    <3>1. IsMap(Empty, Targets, RingingTargetEntry) /\ DOMAIN Empty = {}
      BY DEF Empty, IsMap
    <3>2. IsMap(Put(Empty, t, entry), Targets, RingingTargetEntry)
      BY <1>6, <3>1, PutIsMap
    <3>3. \A u \in DOMAIN Put(Empty, t, entry) :
            Put(Empty, t, entry)[u].source.client_id = x
      BY <1>6, <3>1 DEF Put
    <3> QED  BY <2>2, <3>2, <3>3 DEF IsRingingCallEntry
  <2> QED  BY <2>1, <2>2
<1> HIDE DEF batch
<1>8. /\ DOMAIN ringing_calls' = DOMAIN ringing_calls \cup {c}
      /\ ringing_calls' = [d \in DOMAIN ringing_calls' |-> ringing_calls'[d]]
      /\ \A d \in DOMAIN ringing_calls' :
           ringing_calls'[d] = IF d = c THEN batch ELSE ringing_calls[d]
  BY <1>4 DEF Put
<1>9. Typed(Calls')
  <2>1. /\ client_incoming_calls' = [y \in Clients |-> client_incoming_calls'[y]]
        /\ \A y \in Clients : IsMap(client_incoming_calls'[y], CallIds, Targets)
    <3>1. \A y \in Clients : IsMap(client_incoming_calls[y], CallIds, Targets)
      BY <1>1, <1>2 DEF Typed
    <3>2. \A y \in Clients : IsMap(Put(client_incoming_calls[y], c, t), CallIds, Targets)
      BY <3>1, PutIsMap
    <3> QED  BY <1>4, <3>1, <3>2
  <2>2. IsMap(client_active_calls', Clients, CallIds)
    BY <1>1, <1>2, <1>4, PutIsMap DEF Typed
  <2>3. \A d \in DOMAIN ringing_calls' : IsRingingCallEntry(ringing_calls'[d])
    BY <1>1, <1>2, <1>7, <1>8 DEF Typed
  <2>4. DOMAIN ringing_calls' \subseteq CallIds
    BY <1>1, <1>2, <1>8 DEF Typed
  <2> QED  BY <1>1, <1>2, <1>3, <1>4, <1>8, <2>1, <2>2, <2>3, <2>4 DEF Typed
<1>10. \A d, y : /\ MemberIn(Calls', d, y) <=> MemberIn(Calls, d, y)
                 /\ CallerIn(Calls', d, y) <=>
                      IF d = c THEN y = x ELSE CallerIn(Calls, d, y)
                 /\ BusyIn(Calls', d, y) <=>
                      IF y = x THEN d = c ELSE BusyIn(Calls, d, y)
  <2>1. \A d, y : MemberIn(Calls', d, y) <=> MemberIn(Calls, d, y)
    BY <1>2, <1>3, <1>4 DEF MemberIn
  <2>2. \A d, y : CallerIn(Calls', d, y) <=>
                    IF d = c THEN y = x ELSE CallerIn(Calls, d, y)
    BY <1>2, <1>3, <1>7, <1>8 DEF CallerIn
  <2>3. \A d, y : BusyIn(Calls', d, y) <=>
                    IF y = x THEN d = c ELSE BusyIn(Calls, d, y)
    BY <1>2, <1>3, <1>4 DEF BusyIn, Put
  <2> QED  BY <2>1, <2>2, <2>3
<1>11. BatchesOwned(Calls')
  <2> SUFFICES ASSUME NEW d \in DOMAIN ringing_calls'
               PROVE  LET call == ringing_calls'[d]
                      IN  /\ \A u \in DOMAIN call.targets :
                               call.targets[u].source.client_id = call.caller_id
                          /\ d \in DOMAIN active_calls =>
                               /\ MemberIn(Calls, d, call.caller_id)
                               /\ active_calls[d].conference_leader
                                    \in {None, call.caller_id}
    BY <1>3, <1>4, <1>10 DEF BatchesOwned
  <2>1. CASE d # c
    BY <1>1, <1>2, <1>8, <2>1 DEF BatchesOwned
  <2>2. CASE d = c
    <3>1. c \in DOMAIN active_calls =>
            MemberIn(Calls, c, x) /\ active_calls[c].conference_leader \in {None, x}
      BY <1>2, <1>5
    <3> QED  BY <1>7, <1>8, <2>2, <3>1
  <2> QED  BY <2>1, <2>2
<1>12. \A d \in DOMAIN Calls'.active : EntryLed(Calls'.active[d])
  BY <1>1, <1>2, <1>3, <1>4 DEF Ruled
<1> QED  BY <1>9, <1>10, <1>11, <1>12 DEF Ruled

=============================================================================
