-------------------------- MODULE CallManagerProofs --------------------------
(***************************************************************************)
(* The call manager's type invariant, the exactness of its busy markers    *)
(* and its leadership rule, proved for all values of the constants, and    *)
(* that it implements the abstract Conference.  The inductive invariant    *)
(* adds to the first three that a ringing batch belongs to one participant *)
(* that alone may lead (BatchesOwned of CallProofs).                       *)
(***************************************************************************)
EXTENDS CallProofs

-----------------------------------------------------------------------------
(* The inductive invariant.                                                 *)

\* BusyMarkerIsExact for the four maps as one value.
BusyExact(s) ==
    \A x \in Clients, c \in CallIds :
        BusyIn(s, c, x) <=> MemberIn(s, c, x) \/ CallerIn(s, c, x)

\* The inductive invariant, for the four maps as one value, so that it can be
\* carried through operations that are composed of others.
Inv(s) == Ruled(s) /\ BusyExact(s)

\* end_call preserves the invariant, whoever calls it on whichever call.
LEMMA EndCallInv ==
    ASSUME NEW s, Inv(s), NEW c \in CallIds, NEW x \in Clients
    PROVE  Inv(AfterEndCall(s, c, x))
<1> DEFINE r == AfterEndCall(s, c, x)
<1>1. Typed(s) /\ Typed(r)
  BY EndCallTyped DEF Inv, Ruled
<1>2. /\ DOMAIN r.ringing = IF Cancels(s, c, x) THEN DOMAIN s.ringing \ {c}
                            ELSE DOMAIN s.ringing
      /\ \A d \in DOMAIN r.ringing : r.ringing[d] = s.ringing[d]
  BY <1>1, EndCallRinging
<1>3. \A d, y : MemberIn(r, d, y) <=>
        MemberIn(s, d, y) /\ ~(d = c /\ y \in Leaving(s, c, x))
  BY <1>1, EndCallMembers
<1>4. \A d, y : BusyIn(r, d, y) <=>
        /\ BusyIn(s, d, y)
        /\ ~(CallerIn(s, c, x) /\ y = x)
        /\ ~(d = c /\ y \in Leaving(s, c, x))
  BY <1>1, EndCallBusy
<1> HIDE DEF r
<1>5. \A d, y : CallerIn(r, d, y) <=>
        CallerIn(s, d, y) /\ ~(d = c /\ Cancels(s, c, x))
  BY <1>2 DEF CallerIn, Cancels
<1>6. BusyExact(r)
  <2> SUFFICES ASSUME NEW y \in Clients, NEW d \in CallIds
               PROVE  BusyIn(r, d, y) <=> MemberIn(r, d, y) \/ CallerIn(r, d, y)
    BY DEF BusyExact
  <2>1. /\ BusyIn(s, d, y) <=> MemberIn(s, d, y) \/ CallerIn(s, d, y)
        /\ BusyIn(s, c, y) <=> MemberIn(s, c, y) \/ CallerIn(s, c, y)
        /\ BusyIn(s, c, y) /\ BusyIn(s, d, y) => c = d
    BY DEF Inv, Ruled, BusyExact, BusyIn
  <2>2. CallerIn(s, c, y) /\ c \in DOMAIN s.active => MemberIn(s, c, y)
    BY DEF Inv, Ruled, BatchesOwned, CallerIn
  <2>3. CallerIn(s, c, y) /\ CallerIn(s, c, x) => x = y
    BY DEF CallerIn
  <2>4. /\ Ends(s, c, x) => c \in DOMAIN s.active
        /\ Ends(s, c, x) /\ MemberIn(s, c, y) => y \in Leaving(s, c, x)
        /\ MemberIn(s, c, x) => x \in Leaving(s, c, x)
        /\ y \in Leaving(s, c, x) => MemberIn(s, c, y)
        /\ y \in Leaving(s, c, x) => Ends(s, c, x) \/ y = x
        /\ CallerIn(s, c, y) => c \in DOMAIN s.ringing
    BY DEF Leaving, Ends, MemberIn, CallerIn
  <2> QED
    BY <1>3, <1>4, <1>5, <2>1, <2>2, <2>3, <2>4 DEF Cancels
<1>7. Ruled(r)
  BY EndCallRuled DEF Inv, Ruled, r
<1> QED  BY <1>6, <1>7 DEF Inv, Ruled, r

\* A step that takes batches and targets away preserves the invariant if it
\* frees exactly the callers of removed batches that take part in no call.
LEMMA QuieterInv ==
    ASSUME NEW s, Inv(s), NEW r, Typed(r), Quieter(s, r),
           \A c \in CallIds, y \in Clients :
              BusyIn(r, c, y) <=>
                BusyIn(s, c, y) /\ (MemberIn(s, c, y) \/ c \in DOMAIN r.ringing)
    PROVE  Inv(r)
<1>1. \A c, y : MemberIn(r, c, y) <=> MemberIn(s, c, y)
  BY DEF MemberIn, Quieter
<1>2. \A c, y : CallerIn(r, c, y) <=> CallerIn(s, c, y) /\ c \in DOMAIN r.ringing
  BY DEF CallerIn, SameBatch, Quieter
<1>3. BusyExact(r)
  <2> SUFFICES ASSUME NEW y \in Clients, NEW c \in CallIds
               PROVE  BusyIn(r, c, y) <=> MemberIn(r, c, y) \/ CallerIn(r, c, y)
    BY DEF BusyExact
  <2>1. BusyIn(s, c, y) <=> MemberIn(s, c, y) \/ CallerIn(s, c, y)
    BY DEF Inv, BusyExact
  <2> QED  BY <1>1, <1>2, <2>1
<1> QED  BY <1>3, QuieterRuled DEF Inv

\* The invitee part of cleanup_client_calls preserves the invariant, whatever
\* the client's incoming index says.
LEMMA LapseInv ==
    ASSUME NEW s, Inv(s), NEW x \in Clients, NEW invitations
    PROVE  LET r == AfterInvitationsLapse(s, x, invitations)
           IN  Inv(r) /\ r.active = s.active
<1> DEFINE r     == AfterInvitationsLapse(s, x, invitations)
           ended == DOMAIN s.ringing \ DOMAIN r.ringing
           idle  == {y \in {s.ringing[c].caller_id : c \in ended} :
                       \A a \in DOMAIN s.active :
                         y \notin ParticipantsOf(s.active[a])}
<1>1. Typed(s) /\ BusyExact(s)
  BY DEF Inv, Ruled
<1>2. Typed(r) /\ Quieter(s, r) /\ r.busy = Remove(s.busy, idle)
  BY <1>1, LapseEffect
<1> HIDE DEF r
<1>3. ASSUME NEW c \in CallIds, NEW y \in Clients
      PROVE  BusyIn(r, c, y) <=>
               BusyIn(s, c, y) /\ (MemberIn(s, c, y) \/ c \in DOMAIN r.ringing)
  <2>1. BusyIn(r, c, y) <=> BusyIn(s, c, y) /\ y \notin idle
    BY <1>2 DEF BusyIn, Remove, Restrict
  <2>2. y \in idle <=> (\E e \in ended : CallerIn(s, e, y))
                        /\ (\A a : ~MemberIn(s, a, y))
    BY DEF CallerIn, MemberIn, ParticipantsOf
  <2>3. \A d \in CallIds : BusyIn(s, d, y) <=> MemberIn(s, d, y) \/ CallerIn(s, d, y)
    BY <1>1 DEF BusyExact
  <2>4. \A d : BusyIn(s, c, y) /\ BusyIn(s, d, y) => c = d
    BY DEF BusyIn
  <2>5. /\ ended \subseteq CallIds
        /\ \A d : MemberIn(s, d, y) => d \in CallIds
        /\ CallerIn(s, c, y) => c \in DOMAIN s.ringing
        /\ \A d \in DOMAIN s.ringing : d \in ended <=> d \notin DOMAIN r.ringing
        /\ \A d \in ended : d \notin DOMAIN r.ringing
    BY <1>1 DEF Typed, MemberIn, CallerIn
  <2> HIDE DEF ended, idle
  <2> QED  BY <2>1, <2>2, <2>3, <2>4, <2>5
<1> HIDE DEF ended, idle
<1>4. Inv(r) /\ r.active = s.active
  BY <1>2, <1>3, QuieterInv DEF Quieter
<1> QED  BY <1>4 DEF r

\* The participant part of cleanup_client_calls preserves the invariant.
LEMMA LeavingOwnCallInv ==
    ASSUME NEW s, Inv(s), NEW x \in Clients
    PROVE  Inv(AfterLeavingOwnCall(s, x))
<1>1. CASE x \notin DOMAIN s.busy
  BY <1>1 DEF AfterLeavingOwnCall
<1>2. CASE x \in DOMAIN s.busy
  <2> DEFINE after == AfterEndCall(s, s.busy[x], x)
  <2>1. s.busy[x] \in CallIds
    BY <1>2 DEF Inv, Ruled, Typed, IsMap
  <2>2. Inv(after)
    BY <2>1, EndCallInv
  <2>3. x \notin DOMAIN after.busy
    <3>1. ~BusyIn(after, s.busy[x], x)
      <4>1. BusyIn(s, s.busy[x], x)
        BY <1>2 DEF BusyIn
      <4>2. MemberIn(s, s.busy[x], x) \/ CallerIn(s, s.busy[x], x)
        BY <2>1, <4>1 DEF Inv, Ruled, BusyExact
      <4>3. MemberIn(s, s.busy[x], x) => x \in Leaving(s, s.busy[x], x)
        BY DEF Leaving, MemberIn
      <4> QED  BY <2>1, <4>2, <4>3, EndCallBusy DEF Inv, Ruled
    <3>2. \A d : BusyIn(after, d, x) => BusyIn(s, d, x)
      BY <2>1, EndCallBusy DEF Inv, Ruled
    <3> HIDE DEF after
    <3> QED  BY <3>1, <3>2 DEF BusyIn
  <2>4. IsMap(after.busy, Clients, CallIds)
    BY <2>2 DEF Inv, Ruled, Typed
  <2>5. Remove(after.busy, {x}) = after.busy
    BY <2>3, <2>4 DEF Remove, Restrict, IsMap
  <2>6. AfterLeavingOwnCall(s, x) = after
    BY <1>2, <2>2, <2>5 DEF AfterLeavingOwnCall, Inv, Ruled, Typed
  <2> QED  BY <2>2, <2>6
<1> QED  BY <1>1, <1>2

-----------------------------------------------------------------------------
(* The actions.                                                             *)

\* The inductive invariant of the call manager.
IndInv == Inv(Calls)

\* The invariant depends neither on the incoming index nor on join order and
\* link reports.
LEMMA RelabelledInv ==
    ASSUME NEW s, Inv(s), NEW r, Relabelled(s, r)
    PROVE  Inv(r)
<1>1. Ruled(r) /\ \A c, y : /\ MemberIn(r, c, y) <=> MemberIn(s, c, y)
                            /\ CallerIn(r, c, y) <=> CallerIn(s, c, y)
                            /\ BusyIn(r, c, y) <=> BusyIn(s, c, y)
  BY RelabelledRuled DEF Inv
<1>2. BusyExact(r)
  BY <1>1 DEF Inv, BusyExact
<1> QED  BY <1>1, <1>2 DEF Inv

\* An empty call manager satisfies the invariant (CallManager::new).
LEMMA InitInv == Init => IndInv
<1> SUFFICES ASSUME Init PROVE Inv(Calls)
  BY DEF IndInv
<1>1. /\ Calls \in [ringing : {Calls.ringing}, active : {Calls.active},
                    incoming : {Calls.incoming}, busy : {Calls.busy}]
      /\ Calls.ringing = Empty /\ Calls.active = Empty /\ Calls.busy = Empty
      /\ Calls.incoming = [x \in Clients |-> Empty]
  BY DEF Calls, Init
<1>2. DOMAIN Empty = {} /\ Empty = [c \in DOMAIN Empty |-> Empty[c]]
      /\ \A K, V : IsMap(Empty, K, V)
  BY DEF Empty, IsMap
<1> HIDE DEF Empty
<1>3. Typed(Calls)
  BY <1>1, <1>2 DEF Typed
<1>4. BusyExact(Calls) /\ BatchesOwned(Calls)
  BY <1>1, <1>2 DEF BusyExact, BusyIn, MemberIn, CallerIn, BatchesOwned
<1> QED  BY <1>1, <1>2, <1>3, <1>4 DEF Inv, Ruled

\* A step to a state with the invariant preserves it.
LEMMA BecomesInv ==
    ASSUME NEW STATE s, Inv(s), Becomes(s)
    PROVE  IndInv'
<1>1. Calls' = s
  BY BecomesIs DEF Inv, Ruled
<1> QED  BY <1>1 DEF IndInv

\* The action EndCall preserves the invariant.
LEMMA EndCallKeeps ==
    ASSUME IndInv, NEW c \in CallIds, NEW x \in Clients, EndCall(c, x)
    PROVE  IndInv'
<1>1. Inv(AfterEndCall(Calls, c, x))
  BY EndCallInv DEF IndInv
<1> QED  BY <1>1, BecomesInv DEF EndCall

\* Removing incoming entries preserves the invariant.
LEMMA UninvitedInv ==
    ASSUME NEW s, Inv(s), NEW c, NEW xs
    PROVE  Inv([s EXCEPT !.incoming = Uninvite(@, c, xs)])
BY UninvitedRelabelled, RelabelledInv DEF Inv, Ruled

\* A disconnect (cleanup_client_calls) preserves the invariant.
LEMMA CleanupKeeps ==
    ASSUME IndInv, NEW x \in Clients, CleanupClientCalls(x)
    PROVE  IndInv'
<1> DEFINE left == AfterLeavingOwnCall(Calls, x)
           gone == [left EXCEPT !.incoming[x] = Empty]
<1>1. Inv(left)
  BY LeavingOwnCallInv DEF IndInv
<1>2. Inv(gone)
  <2> HIDE DEF left
  <2>1. Relabelled(left, gone)
    BY <1>1, TakenRelabelled DEF Inv, Ruled
  <2> QED  BY <1>1, <2>1, RelabelledInv
<1>3. Inv(AfterInvitationsLapse(gone, x, left.incoming[x]))
  BY <1>2, LapseInv
<1>4. Becomes(AfterInvitationsLapse(gone, x, left.incoming[x]))
  BY DEF CleanupClientCalls
<1> QED  BY <1>3, <1>4, BecomesInv

\* A callee that rejects or fails (mark_client_within_ringing_calls) preserves
\* the invariant.
LEMMA MarkKeeps ==
    ASSUME IndInv, NEW c \in CallIds, NEW x \in Clients,
           IsRinging(c), MarkClientWithinRingingCalls(c, x)
    PROVE  IndInv'
<1> DEFINE call   == ringing_calls[c]
           caller == call.caller_id
           left   == TargetsAfterFailure(call, x)
           new    == [call EXCEPT !.targets = left]
           ended  == DOMAIN left = {}
<1>1. Inv(Calls) /\ Typed(Calls) /\ BusyExact(Calls) /\ c \in DOMAIN ringing_calls
  BY DEF IndInv, Inv, Ruled, IsRinging
<1>2. SameBatch(call, new)
  BY <1>1, CallsFields, ClientFailed DEF Typed
<1>3. /\ ringing_calls' = IF ended THEN Remove(ringing_calls, {c})
                          ELSE [ringing_calls EXCEPT ![c] = new]
      /\ active_calls' = active_calls
      /\ client_incoming_calls' = Uninvite(client_incoming_calls, c, {x})
      /\ client_active_calls' =
             IF ended /\ ~InAnyActiveCall(caller)
             THEN Remove(client_active_calls, {caller})
             ELSE client_active_calls
  BY DEF MarkClientWithinRingingCalls
<1> HIDE DEF ended, left, new
<1>4. /\ Quieter(Calls, Calls')
      /\ ringing_calls' = [d \in DOMAIN ringing_calls' |-> ringing_calls'[d]]
      /\ DOMAIN ringing_calls' \subseteq CallIds
      /\ \A d \in DOMAIN ringing_calls' : IsRingingCallEntry(ringing_calls'[d])
  BY <1>1, <1>2, <1>3, BatchStep
<1>5. DOMAIN ringing_calls' = IF ended THEN DOMAIN ringing_calls \ {c}
                              ELSE DOMAIN ringing_calls
  BY <1>3 DEF Remove, Restrict
<1>6. Typed(Calls')
  <2>1. /\ client_incoming_calls' = [y \in Clients |-> client_incoming_calls'[y]]
        /\ \A y \in Clients : IsMap(client_incoming_calls'[y], CallIds, Targets)
    <3>1. \A y \in Clients : IsMap(client_incoming_calls[y], CallIds, Targets)
      BY <1>1, CallsFields DEF Typed
    <3>2. client_incoming_calls' = Uninvite(client_incoming_calls, c, {x})
      BY <1>3
    <3> QED  BY <3>1, <3>2, UninviteTyped
  <2>2. IsMap(client_active_calls', Clients, CallIds)
    BY <1>1, <1>3, CallsFields, RemoveIsMap DEF Typed
  <2> QED  BY <1>1, <1>3, <1>4, <2>1, <2>2, CallsFields DEF Typed
<1>7. ASSUME NEW d \in CallIds, NEW y \in Clients
      PROVE  BusyIn(Calls', d, y) <=>
               /\ BusyIn(Calls, d, y)
               /\ MemberIn(Calls, d, y) \/ d \in DOMAIN Calls'.ringing
  <2>1. BusyIn(Calls', d, y) <=>
          BusyIn(Calls, d, y) /\ ~(ended /\ ~InAnyActiveCall(caller) /\ y = caller)
    BY <1>3, CallsFields DEF BusyIn, Remove, Restrict
  <2>2. \A e \in CallIds :
          BusyIn(Calls, e, y) <=> MemberIn(Calls, e, y) \/ CallerIn(Calls, e, y)
    BY <1>1 DEF BusyExact
  <2>3. \A e : BusyIn(Calls, d, y) /\ BusyIn(Calls, e, y) => d = e
    BY DEF BusyIn
  <2>4. InAnyActiveCall(y) <=> \E e \in CallIds : MemberIn(Calls, e, y)
    BY <1>1, CallsFields DEF InAnyActiveCall, Participates, IsActive, MemberIn,
                             ParticipantsOf, Typed
  <2>5. /\ CallerIn(Calls, c, y) <=> y = caller
        /\ CallerIn(Calls, d, y) => d \in DOMAIN ringing_calls
    BY <1>1, CallsFields DEF CallerIn
  <2>6. Calls'.ringing = ringing_calls'
    BY CallsFields
  <2> HIDE DEF caller
  <2> QED  BY <1>5, <2>1, <2>2, <2>3, <2>4, <2>5, <2>6
<1>8. Inv(Calls')
  BY <1>1, <1>4, <1>6, <1>7, QuieterInv
<1> QED  BY <1>8 DEF IndInv

\* Dropping a ringing target preserves the invariant.
LEMMA DropRingingKeeps ==
    ASSUME IndInv, NEW c \in CallIds, NEW x \in Clients, NEW t \in Targets,
           DropRingingTarget(c, x, t)
    PROVE  IndInv'
<1> DEFINE call   == ringing_calls[c]
           caller == call.caller_id
           ended  == DOMAIN call.targets = {t}
           new    == [call EXCEPT !.targets = Remove(@, {t})]
<1>1. Inv(Calls) /\ Typed(Calls) /\ BusyExact(Calls) /\ c \in DOMAIN ringing_calls
  BY DEF IndInv, Inv, Ruled, DropRingingTarget, IsRinging
<1>2. SameBatch(call, new)
  BY <1>1, CallsFields, TargetsGone DEF Typed
<1>3. /\ ringing_calls' = IF ended THEN Remove(ringing_calls, {c})
                          ELSE [ringing_calls EXCEPT ![c] = new]
      /\ active_calls' = active_calls
      /\ client_incoming_calls' =
           Uninvite(client_incoming_calls, c, call.targets[t].notified_clients)
      /\ client_active_calls' =
           IF ended /\ ~Participates(c, caller)
           THEN ReleaseBusy(client_active_calls, c, {caller})
           ELSE client_active_calls
  BY DEF DropRingingTarget
<1> HIDE DEF ended, new
<1>4. /\ Quieter(Calls, Calls')
      /\ ringing_calls' = [d \in DOMAIN ringing_calls' |-> ringing_calls'[d]]
      /\ DOMAIN ringing_calls' \subseteq CallIds
      /\ \A d \in DOMAIN ringing_calls' : IsRingingCallEntry(ringing_calls'[d])
  BY <1>1, <1>2, <1>3, BatchStep
<1>5. DOMAIN ringing_calls' = IF ended THEN DOMAIN ringing_calls \ {c}
                              ELSE DOMAIN ringing_calls
  BY <1>3 DEF Remove, Restrict
<1>6. Typed(Calls')
  <2>1. /\ client_incoming_calls' = [y \in Clients |-> client_incoming_calls'[y]]
        /\ \A y \in Clients : IsMap(client_incoming_calls'[y], CallIds, Targets)
    <3>1. \A y \in Clients : IsMap(client_incoming_calls[y], CallIds, Targets)
      BY <1>1, CallsFields DEF Typed
    <3> QED  BY <1>3, <3>1, UninviteTyped
  <2>2. IsMap(client_active_calls', Clients, CallIds)
    BY <1>1, <1>3, CallsFields, RemoveIsMap DEF Typed, ReleaseBusy
  <2> QED  BY <1>1, <1>3, <1>4, <2>1, <2>2, CallsFields DEF Typed
<1>7. ASSUME NEW d \in CallIds, NEW y \in Clients
      PROVE  BusyIn(Calls', d, y) <=>
               /\ BusyIn(Calls, d, y)
               /\ MemberIn(Calls, d, y) \/ d \in DOMAIN Calls'.ringing
  <2>1. BusyIn(Calls', d, y) <=>
          /\ BusyIn(Calls, d, y)
          /\ ~(ended /\ ~Participates(c, caller) /\ y = caller /\ d = c)
    BY <1>3, CallsFields DEF BusyIn, Remove, Restrict, ReleaseBusy
  <2>2. BusyIn(Calls, d, y) <=> MemberIn(Calls, d, y) \/ CallerIn(Calls, d, y)
    BY <1>1 DEF BusyExact
  <2>3. Participates(c, y) <=> MemberIn(Calls, c, y)
    BY CallsFields DEF Participates, IsActive, MemberIn, ParticipantsOf
  <2>4. /\ CallerIn(Calls, c, y) <=> y = caller
        /\ CallerIn(Calls, d, y) => d \in DOMAIN ringing_calls
    BY <1>1, CallsFields DEF CallerIn
  <2>5. Calls'.ringing = ringing_calls'
    BY CallsFields
  <2> HIDE DEF caller
  <2> QED  BY <1>5, <2>1, <2>2, <2>3, <2>4, <2>5
<1>8. Inv(Calls')
  BY <1>1, <1>4, <1>6, <1>7, QuieterInv
<1> QED  BY <1>8 DEF IndInv

\* attempt_call preserves the invariant.
LEMMA AttemptKeeps ==
    ASSUME IndInv, NEW c \in CallIds, NEW x \in Clients, NEW t \in Targets,
           NEW st \in Targets, NEW notified \in SUBSET Clients,
           AttemptCall(c, x, [client_id |-> x, target |-> st], t, notified)
    PROVE  IndInv'
<1>1. Ruled(Calls) /\ BusyExact(Calls) /\ BatchesOwned(Calls)
  BY DEF IndInv, Inv, Ruled
<1>2. \/ BusyIn(Calls, c, x) /\ (c \in DOMAIN Calls.ringing => CallerIn(Calls, c, x))
      \/ /\ x \notin DOMAIN Calls.busy
         /\ c \notin DOMAIN Calls.active /\ c \notin DOMAIN Calls.ringing
  BY CallsFields DEF AttemptCall, ValidCallAttempt, IsActive, IsRinging, BusyIn, CallerIn
<1>3. c \in DOMAIN Calls.active => MemberIn(Calls, c, x)
  <2>1. CallerIn(Calls, c, x) /\ c \in DOMAIN Calls.active => MemberIn(Calls, c, x)
    BY <1>1 DEF BatchesOwned, CallerIn
  <2> QED  BY <1>1, <1>2, <2>1 DEF BusyExact
<1>4. /\ Ruled(Calls')
      /\ \A d, y : /\ MemberIn(Calls', d, y) <=> MemberIn(Calls, d, y)
                   /\ CallerIn(Calls', d, y) <=> IF d = c THEN y = x ELSE CallerIn(Calls, d, y)
                   /\ BusyIn(Calls', d, y) <=> IF y = x THEN d = c ELSE BusyIn(Calls, d, y)
  BY <1>1, <1>3, AttemptRuled
<1>5. BusyExact(Calls')
  <2> SUFFICES ASSUME NEW y \in Clients, NEW d \in CallIds
               PROVE  BusyIn(Calls', d, y) <=>
                        MemberIn(Calls', d, y) \/ CallerIn(Calls', d, y)
    BY DEF BusyExact
  <2>1. BusyIn(Calls, d, y) <=> MemberIn(Calls, d, y) \/ CallerIn(Calls, d, y)
    BY <1>1 DEF BusyExact
  <2>2. BusyIn(Calls, d, x) => d = c
    BY <1>2 DEF BusyIn
  <2>3. CallerIn(Calls, c, y) => y = x
    BY <1>2 DEF CallerIn
  <2> QED  BY <1>4, <2>1, <2>2, <2>3
<1> QED  BY <1>4, <1>5 DEF IndInv, Inv

\* Whoever accepts a call is free: it is in no call and calls with none.
LEMMA AcceptorUninvolved ==
    ASSUME IndInv, NEW c \in CallIds, NEW x \in Clients, AcceptCall(c, x)
    PROVE  \A d \in CallIds : ~MemberIn(Calls, d, x) /\ ~CallerIn(Calls, d, x)
<1>1. x \notin DOMAIN Calls.busy
  BY CallsFields DEF AcceptCall, AcceptorIsFree
<1> QED  BY <1>1 DEF IndInv, Inv, BusyExact, BusyIn

\* accept_call preserves the invariant.
LEMMA AcceptKeeps ==
    ASSUME IndInv, NEW c \in CallIds, NEW x \in Clients, AcceptCall(c, x)
    PROVE  IndInv'
<1> DEFINE caller == ringing_calls[c].caller_id
<1>1. Ruled(Calls) /\ BusyExact(Calls)
  BY DEF IndInv, Inv
<1>2. \A d \in CallIds : ~MemberIn(Calls, d, x) /\ ~CallerIn(Calls, d, x)
  BY AcceptorUninvolved
<1>3. /\ Ruled(Calls')
      /\ DOMAIN ringing_calls \ {c} \subseteq DOMAIN ringing_calls'
      /\ DOMAIN ringing_calls' \subseteq DOMAIN ringing_calls
      /\ \A d \in DOMAIN ringing_calls' : SameBatch(ringing_calls[d], ringing_calls'[d])
      /\ \A d, y : MemberIn(Calls', d, y) <=>
           MemberIn(Calls, d, y) \/ (d = c /\ y \in {x, caller})
      /\ \A d, y : BusyIn(Calls', d, y) <=> IF y = x THEN d = c ELSE BusyIn(Calls, d, y)
  BY <1>1, <1>2, AcceptRuled
<1>4. BusyExact(Calls')
  <2> SUFFICES ASSUME NEW y \in Clients, NEW d \in CallIds
               PROVE  BusyIn(Calls', d, y) <=>
                        MemberIn(Calls', d, y) \/ CallerIn(Calls', d, y)
    BY DEF BusyExact
  <2>1. BusyIn(Calls, d, y) <=> MemberIn(Calls, d, y) \/ CallerIn(Calls, d, y)
    BY <1>1 DEF BusyExact
  <2>2. CallerIn(Calls', d, y) => CallerIn(Calls, d, y)
    BY <1>3, CallsFields DEF CallerIn, SameBatch
  <2>3. CallerIn(Calls, d, y) => CallerIn(Calls', d, y) \/ d = c
    BY <1>3, CallsFields DEF CallerIn, SameBatch
  <2>4. CallerIn(Calls, c, y) <=> y = caller
    BY CallsFields DEF CallerIn, AcceptCall, IsRinging
  <2> HIDE DEF caller
  <2> QED  BY <1>2, <1>3, <2>1, <2>2, <2>3, <2>4
<1> QED  BY <1>3, <1>4 DEF IndInv, Inv

\* Replacing an active call by one with the same participants and leader
\* preserves the invariant.
LEMMA RelabelledCallInv ==
    ASSUME NEW s, Inv(s), NEW c \in DOMAIN s.active, NEW new,
           IsActiveCallEntry(new),
           new.participants = s.active[c].participants,
           new.conference_leader = s.active[c].conference_leader
    PROVE  Inv([s EXCEPT !.active = [@ EXCEPT ![c] = new]])
BY CallRelabelled, RelabelledInv DEF Inv, Ruled

\* report_link_failure preserves the invariant, evicting or not.
LEMMA ReportKeeps ==
    ASSUME IndInv, NEW c \in CallIds, NEW x \in Clients, NEW y \in Clients,
           ReportLinkFailure(c, x, y)
    PROVE  IndInv'
<1> DEFINE recorded == RecordLinkReport(active_calls[c], x, y)
           reported == [Calls EXCEPT !.active[c] = recorded]
           evicted  == LaterJoiner(recorded, x, y)
<1>1. Inv(Calls) /\ Typed(Calls) /\ Calls.active = active_calls
  BY DEF IndInv, Inv, Ruled, Calls
<1>2. c \in DOMAIN active_calls
  BY DEF ReportLinkFailure, Participates, IsActive
<1>3. Inv(reported)
  <2>1. Relabelled(Calls, reported)
    BY <1>1, <1>2, ReportRelabelled
  <2> QED  BY <1>1, <2>1, RelabelledInv
<1>4. evicted \in Clients
  BY DEF LaterJoiner
<1>5. Inv(AfterEndCall(reported, c, evicted))
  BY <1>3, <1>4, EndCallInv
<1>6. \/ Becomes(AfterEndCall(reported, c, evicted))
      \/ Becomes(reported)
  BY DEF ReportLinkFailure
<1>7. CASE Becomes(AfterEndCall(reported, c, evicted))
  BY <1>5, <1>7, BecomesInv
<1>8. CASE Becomes(reported)
  BY <1>3, <1>8, BecomesInv
<1> QED  BY <1>6, <1>7, <1>8

\* The expiry of a link report preserves the invariant.
LEMMA ExpiryKeeps ==
    ASSUME IndInv, NEW c \in CallIds, NEW pair, LinkReportExpires(c, pair)
    PROVE  IndInv'
<1>1. Inv(Calls) /\ Relabelled(Calls, Calls')
  BY ExpiryRelabelled DEF IndInv, Inv, Ruled
<1>2. Inv(Calls')
  BY <1>1, RelabelledInv
<1> QED  BY <1>2 DEF IndInv

\* reject_call and fail_ringing_recipient preserve the invariant.
LEMMA RejectKeeps ==
    ASSUME IndInv, NEW c \in CallIds, NEW x \in Clients,
           RejectCall(c, x)
    PROVE  IndInv'
<1>1. CASE RingsFor(c, x)
  BY <1>1, MarkKeeps DEF RejectCall, RingsFor
<1>2. CASE ~RingsFor(c, x)
  <2> DEFINE r == [Calls EXCEPT !.incoming = Uninvite(@, c, {x})]
  <2>1. Inv(r)
    BY UninvitedInv DEF IndInv
  <2>2. Becomes(r)
    BY <1>2 DEF RejectCall, Becomes, Calls
  <2> QED  BY <2>1, <2>2, BecomesInv
<1> QED  BY <1>1, <1>2

\* call_error preserves the invariant.
LEMMA ErrorKeeps ==
    ASSUME IndInv, NEW c \in CallIds, NEW x \in Clients,
           CallError(c, x)
    PROVE  IndInv'
<1>1. CASE RingsFor(c, x)
  BY <1>1, MarkKeeps DEF CallError, RingsFor
<1>2. CASE ~RingsFor(c, x)
  <2> DEFINE s == [Calls EXCEPT !.incoming = Uninvite(@, c, {x})]
  <2>1. Inv(s)
    BY UninvitedInv DEF IndInv
  <2>2. Inv(AfterEndCall(s, c, x))
    BY <2>1, EndCallInv
  <2>3. Becomes(AfterEndCall(s, c, x))
    BY <1>2 DEF CallError
  <2> QED  BY <2>2, <2>3, BecomesInv
<1> QED  BY <1>1, <1>2

-----------------------------------------------------------------------------
(* The theorems.                                                            *)

\* Every step of the call manager preserves the invariant.
LEMMA NextInv == IndInv /\ [Next]_vars => IndInv'
<1> SUFFICES ASSUME IndInv, [Next]_vars PROVE IndInv'
  OBVIOUS
<1>1. ASSUME NEW c \in CallIds, NEW x \in Clients, NEW t \in Targets,
             NEW st \in SourceTargets[x], NEW resolved \in Resolves[t],
             AttemptCall(c, x, [client_id |-> x, target |-> st], t, resolved \ {x})
      PROVE  IndInv'
  <2>1. st \in Targets /\ resolved \ {x} \in SUBSET Clients
    BY ResolutionTypes
  <2> QED  BY <1>1, <2>1, AttemptKeeps
<1>2. ASSUME NEW c \in CallIds, NEW x \in Clients, NEW t \in Targets,
             NEW reason \in DropReasons, DropTarget(c, x, t, reason)
      PROVE  IndInv'
  <2>1. CASE DropRingingTarget(c, x, t)
    BY <2>1, DropRingingKeeps
  <2>2. CASE DropJoinedParticipant(c, x, t, reason)
    BY <2>2, DropJoinedIsLeave, EndCallKeeps DEF IndInv, Inv
  <2> QED  BY <1>2, <2>1, <2>2 DEF DropTarget
<1>3. ASSUME NEW c \in CallIds, NEW x \in Clients,
             AcceptCall(c, x) \/ RejectCall(c, x) \/ CallError(c, x) \/ EndCall(c, x)
      PROVE  IndInv'
  BY <1>3, AcceptKeeps, RejectKeeps, ErrorKeeps, EndCallKeeps
<1>4. ASSUME NEW c \in CallIds, NEW pair \in FlakyLinks, NEW x \in pair, NEW y \in pair,
             ReportLinkFailure(c, x, y)
      PROVE  IndInv'
  <2>1. x \in Clients /\ y \in Clients
    BY ResolutionTypes
  <2> QED  BY <1>4, <2>1, ReportKeeps
<1>5. ASSUME NEW c \in CallIds, NEW pair \in FlakyLinks, LinkReportExpires(c, pair)
      PROVE  IndInv'
  BY <1>5, ExpiryKeeps
<1>6. ASSUME NEW x \in Clients, CleanupClientCalls(x)
      PROVE  IndInv'
  BY <1>6, CleanupKeeps
<1>7. CASE UNCHANGED vars
  <2>1. Calls' = Calls
    BY <1>7 DEF vars, Calls
  <2> QED  BY <2>1 DEF IndInv
<1> QED
  BY <1>1, <1>2, <1>3, <1>4, <1>5, <1>6, <1>7 DEF Next

\* The invariant holds in every reachable state of the call manager, for any
\* number of clients, targets and calls, any resolution of targets, any
\* max_conf_size and any pattern of dead links.
THEOREM InductiveInvariant == Spec => []IndInv
BY InitInv, NextInv, PTL DEF Spec

\* The invariant implies TypeOK.
LEMMA IndInvTyped == IndInv => TypeOK
<1> SUFFICES ASSUME Typed(Calls) PROVE TypeOK
  BY DEF IndInv, Inv, Ruled
<1>1. /\ Calls.ringing = ringing_calls /\ Calls.active = active_calls
      /\ Calls.busy = client_active_calls /\ Calls.incoming = client_incoming_calls
  BY DEF Calls
<1>2. /\ IsMap(ringing_calls, CallIds, Range(ringing_calls))
      /\ \A call \in Range(ringing_calls) : IsRingingCallEntry(call)
  BY <1>1 DEF Typed, IsMap, Range
<1>3. /\ IsMap(active_calls, CallIds, Range(active_calls))
      /\ \A call \in Range(active_calls) : IsActiveCallEntry(call)
  BY <1>1 DEF Typed, IsMap, Range
<1>4. /\ client_incoming_calls \in [Clients -> Range(client_incoming_calls)]
      /\ \A calls \in Range(client_incoming_calls) : IsMap(calls, CallIds, Targets)
  BY <1>1 DEF Typed, Range
<1> QED  BY <1>1, <1>2, <1>3, <1>4 DEF TypeOK, Typed

\* The four maps of the call manager always hold values of their Rust types.
THEOREM TypeCorrect == Spec => []TypeOK
BY InductiveInvariant, IndInvTyped, PTL

\* The invariant implies BusyMarkerIsExact.
LEMMA IndInvBusy == IndInv => BusyMarkerIsExact
BY DEF IndInv, Inv, Ruled, BusyExact, BusyIn, MemberIn, CallerIn, Calls,
       BusyMarkerIsExact, Participates, IsActive, IsCaller, IsRinging, ParticipantsOf

\* A client is marked busy with a call exactly while it takes part in it or
\* has opened a ringing batch for it: attempt_call, accept_call and every
\* teardown keep client_active_calls in step with the call maps.
THEOREM BusyMarkersAreExact == Spec => []BusyMarkerIsExact
BY InductiveInvariant, IndInvBusy, PTL

\* The invariant implies LeaderOnlyInConference.
LEMMA IndInvLed == IndInv => LeaderOnlyInConference
BY DEF IndInv, Inv, Ruled, EntryLed, Calls, LeaderOnlyInConference, ParticipantsOf

\* A call always has two or more participants, and a leader among them exactly
\* while they are three or more (accept_call and the departures).
THEOREM LeadersLeadConferences == Spec => []LeaderOnlyInConference
BY InductiveInvariant, IndInvLed, PTL

-----------------------------------------------------------------------------
(* The refinement: every operation starts a call, adds one invited client   *)
(* to it, removes one participant, ends the call as a whole, or is          *)
(* invisible to the Conference.                                             *)

\* Who takes part in each call of the state s, and who leads it.
Members(s) == [c \in CallIds |->
    IF c \in DOMAIN s.active THEN DOMAIN s.active[c].participants ELSE {}]

Leaders(s) == [c \in CallIds |->
    IF c \in DOMAIN s.active THEN s.active[c].conference_leader ELSE None]

\* From s to r, x left call c, or the call ended, or nothing visible happened.
Departure(s, r, c, x) ==
    \/ Members(r) = Members(s) /\ Leaders(r) = Leaders(s)
    \/ /\ x \in Members(s)[c] /\ x # Leaders(s)[c]
       /\ Cardinality(Members(s)[c]) >= 3
       /\ Members(r) = [Members(s) EXCEPT ![c] = @ \ {x}]
       /\ Leaders(r) = [Leaders(s) EXCEPT
                          ![c] = IF Cardinality(Members(s)[c] \ {x}) <= 2
                                 THEN None ELSE @]
    \/ /\ Members(s)[c] # {}
       /\ Members(r) = [Members(s) EXCEPT ![c] = {}]
       /\ Leaders(r) = [Leaders(s) EXCEPT ![c] = None]

\* Whatever end_call does, clients see at most one departure.
LEMMA EndCallDeparture ==
    ASSUME NEW s, Inv(s), NEW c \in CallIds, NEW x \in Clients
    PROVE  Departure(s, AfterEndCall(s, c, x), c, x)
<1> DEFINE r == AfterEndCall(s, c, x)
           P == DOMAIN s.active[c].participants
<1>1. Typed(s)
  BY DEF Inv, Ruled
<1>2. /\ DOMAIN r.active = IF Ends(s, c, x) THEN DOMAIN s.active \ {c}
                           ELSE DOMAIN s.active
      /\ \A d \in DOMAIN r.active :
           r.active[d] = IF d = c /\ MemberIn(s, c, x)
                         THEN WithoutParticipant(s.active[c], x)
                         ELSE s.active[d]
  BY <1>1, EndCallActive
<1> SUFFICES Departure(s, r, c, x)
  OBVIOUS
<1> HIDE DEF r
<1>3. CASE ~MemberIn(s, c, x)
  BY <1>2, <1>3 DEF Departure, Members, Leaders, Ends
<1>4. CASE Ends(s, c, x)
  BY <1>2, <1>4 DEF Departure, Members, Leaders, Ends, MemberIn
<1>5. CASE MemberIn(s, c, x) /\ ~Ends(s, c, x)
  <2>1. /\ c \in DOMAIN s.active /\ x \in P
        /\ IsActiveCallEntry(s.active[c]) /\ EntryLed(s.active[c])
        /\ ~DepartureEndsCall(s.active[c], x)
    BY <1>1, <1>5 DEF MemberIn, Ends, Typed, Inv, Ruled
  <2>2. /\ DOMAIN WithoutParticipant(s.active[c], x).participants = P \ {x}
        /\ WithoutParticipant(s.active[c], x).conference_leader =
             IF Cardinality(P \ {x}) <= 2
             THEN None ELSE s.active[c].conference_leader
    BY <2>1, DepartedEntry DEF ParticipantsOf
  <2>3. P \subseteq Clients
    BY <2>1 DEF IsActiveCallEntry, IsMap
  <2>4. Cardinality(P) \in Nat /\ Cardinality(P \ {x}) = Cardinality(P) - 1
    BY <2>1, <2>3, ClientsAreFinite, FS_Subset, FS_RemoveElement, FS_CardinalityType
  <2>5. Cardinality(P) >= 3 /\ x # s.active[c].conference_leader
    BY <2>1, <2>4 DEF DepartureEndsCall, ParticipantsWithoutSelf, ParticipantsOf
  <2>6. Members(s)[c] = P /\ Leaders(s)[c] = s.active[c].conference_leader
    BY <2>1 DEF Members, Leaders
  <2>7. /\ c \in DOMAIN r.active
        /\ DOMAIN r.active[c].participants = P \ {x}
        /\ r.active[c].conference_leader =
             IF Cardinality(P \ {x}) <= 2
             THEN None ELSE s.active[c].conference_leader
        /\ \A d \in CallIds : d # c =>
             /\ d \in DOMAIN r.active <=> d \in DOMAIN s.active
             /\ d \in DOMAIN r.active => r.active[d] = s.active[d]
    BY <1>2, <1>5, <2>1, <2>2
  <2>8. Members(r) = [Members(s) EXCEPT ![c] = P \ {x}]
    BY <2>7 DEF Members
  <2>9. Leaders(r) = [Leaders(s) EXCEPT
                        ![c] = IF Cardinality(P \ {x}) <= 2
                               THEN None ELSE s.active[c].conference_leader]
    BY <2>7 DEF Leaders
  <2> HIDE DEF P
  <2> QED  BY <2>1, <2>5, <2>6, <2>8, <2>9 DEF Departure
<1> QED  BY <1>3, <1>4, <1>5

\* The refinement mapping is Members and Leaders of the current state.
LEMMA CallsView ==
    /\ members = Members(Calls) /\ leader = Leaders(Calls)
    /\ members' = Members(Calls') /\ leader' = Leaders(Calls')
BY DEF members, leader, Members, Leaders, Calls, IsActive, ParticipantsOf

\* The Conference counts participants as the manager does.
LEMMA SameCardinality == \A S : Ideal!Cardinality(S) = Cardinality(S)
BY Zenon DEF Ideal!Cardinality, Cardinality

\* A departure is a Leave or an End of the conference, or a stutter.
LEMMA DepartureIsAllowed ==
    ASSUME NEW c \in CallIds, NEW x \in Clients, Departure(Calls, Calls', c, x)
    PROVE  [Ideal!Next]_<<members, leader>>
<1>1. /\ members = Members(Calls) /\ leader = Leaders(Calls)
      /\ members' = Members(Calls') /\ leader' = Leaders(Calls')
  BY CallsView
<1>2. CASE Members(Calls') = Members(Calls) /\ Leaders(Calls') = Leaders(Calls)
  BY <1>1, <1>2
<1>3. CASE /\ x \in Members(Calls)[c] /\ x # Leaders(Calls)[c]
           /\ Cardinality(Members(Calls)[c]) >= 3
           /\ Members(Calls') = [Members(Calls) EXCEPT ![c] = @ \ {x}]
           /\ Leaders(Calls') = [Leaders(Calls) EXCEPT
                          ![c] = IF Cardinality(Members(Calls)[c] \ {x}) <= 2
                                 THEN None ELSE @]
  <2>1. members'[c] = members[c] \ {x}
    BY <1>1, <1>3 DEF Members
  <2>2. Ideal!Leave(c, x)
    BY <1>1, <1>3, <2>1, SameCardinality DEF Ideal!Leave
  <2> QED  BY <2>2 DEF Ideal!Next
<1>4. CASE /\ Members(Calls)[c] # {}
           /\ Members(Calls') = [Members(Calls) EXCEPT ![c] = {}]
           /\ Leaders(Calls') = [Leaders(Calls) EXCEPT ![c] = None]
  <2>1. Ideal!End(c)
    BY <1>1, <1>4 DEF Ideal!End
  <2> QED  BY <2>1 DEF Ideal!Next
<1> QED  BY <1>2, <1>3, <1>4 DEF Departure

\* An operation that leaves the active calls alone is invisible.
LEMMA Invisible ==
    ASSUME UNCHANGED active_calls
    PROVE  [Ideal!Next]_<<members, leader>>
BY DEF members, leader, IsActive, ParticipantsOf

\* An operation that runs end_call for x, on a state that looks like the
\* current one, is a departure.
LEMMA LeavingIsAllowed ==
    ASSUME NEW STATE s, Inv(s), NEW c \in CallIds, NEW x \in Clients,
           Members(s) = Members(Calls), Leaders(s) = Leaders(Calls),
           active_calls' = AfterEndCall(s, c, x).active
    PROVE  [Ideal!Next]_<<members, leader>>
<1> DEFINE r == AfterEndCall(s, c, x)
<1>1. Departure(s, r, c, x)
  BY EndCallDeparture
<1>2. Calls'.active = r.active
  BY DEF Calls
<1> HIDE DEF r
<1>3. Members(Calls') = Members(r) /\ Leaders(Calls') = Leaders(r)
  BY <1>2 DEF Members, Leaders
<1>4. Departure(Calls, Calls', c, x)
  BY <1>1, <1>3 DEF Departure
<1> QED  BY <1>4, DepartureIsAllowed

\* Replacing an active call by one with the same participants and leader is
\* invisible: a link report that is recorded, or that expires.
LEMMA SameRoster ==
    ASSUME NEW s, NEW r, NEW c \in DOMAIN s.active, NEW new,
           r.active = [s.active EXCEPT ![c] = new],
           new.participants = s.active[c].participants,
           new.conference_leader = s.active[c].conference_leader
    PROVE  Members(r) = Members(s) /\ Leaders(r) = Leaders(s)
<1>1. \A d \in CallIds :
        /\ d \in DOMAIN r.active <=> d \in DOMAIN s.active
        /\ d \in DOMAIN s.active =>
             /\ r.active[d].participants = s.active[d].participants
             /\ r.active[d].conference_leader = s.active[d].conference_leader
  OBVIOUS
<1> QED  BY <1>1 DEF Members, Leaders

\* accept_call starts a call or adds the acceptor to it.
LEMMA AcceptIsAllowed ==
    ASSUME IndInv, NEW c \in CallIds, NEW x \in Clients, AcceptCall(c, x)
    PROVE  [Ideal!Next]_<<members, leader>>
<1> DEFINE caller == ringing_calls[c].caller_id
           new    == active_calls'[c]
           joined == IF IsActive(c) THEN DOMAIN active_calls[c].participants
                     ELSE {caller}
<1>1. /\ caller \in Clients
      /\ \A d \in CallIds : ~MemberIn(Calls, d, x) /\ ~CallerIn(Calls, d, x)
      /\ IsActive(c) => /\ caller \in DOMAIN active_calls[c].participants
                        /\ active_calls[c].conference_leader \in {None, caller}
      /\ DOMAIN new.participants = joined \cup {x}
      /\ new.conference_leader = IF IsActive(c) THEN caller ELSE None
      /\ DOMAIN active_calls' = DOMAIN active_calls \cup {c}
      /\ \A d \in DOMAIN active_calls' : d # c => active_calls'[d] = active_calls[d]
  BY AcceptJoins, AcceptorUninvolved DEF IndInv, Inv, Ruled
<1>2. IsRinging(c)
  BY DEF AcceptCall
<1> HIDE DEF new
<1>3. /\ members' = [members EXCEPT ![c] = joined \cup {x}]
      /\ leader' = [leader EXCEPT ![c] = IF IsActive(c) THEN caller ELSE None]
  BY <1>1 DEF members, leader, IsActive, ParticipantsOf, new
<1>4. Ideal!Free(x)
  BY <1>1 DEF Ideal!Free, members, MemberIn, Calls, IsActive, ParticipantsOf
<1>5. CASE IsActive(c)
  <2>1. /\ members[c] = joined /\ leader[c] = active_calls[c].conference_leader
    BY <1>5 DEF members, leader, ParticipantsOf
  <2>2. Ideal!Join(c, x, caller)
    BY <1>1, <1>3, <1>4, <1>5, <2>1 DEF Ideal!Join
  <2> QED  BY <1>1, <2>2 DEF Ideal!Next
<1>6. CASE ~IsActive(c)
  <2>1. members[c] = {} /\ leader[c] = None
    BY <1>6 DEF members, leader
  <2>2. CallerIn(Calls, c, caller) /\ caller # x
    BY <1>1, <1>2 DEF CallerIn, Calls, IsRinging
  <2>3. Ideal!Free(caller)
    <3>1. BusyExact(Calls)
      BY DEF IndInv, Inv, Ruled
    <3>2. \A d \in CallIds : MemberIn(Calls, d, caller) => d = c
      BY <1>1, <2>2, <3>1 DEF BusyExact, BusyIn
    <3> QED  BY <1>6, <3>2 DEF Ideal!Free, members, MemberIn, Calls, IsActive, ParticipantsOf
  <2>4. UNCHANGED leader
    BY <1>3, <1>6, <2>1 DEF leader
  <2>5. Ideal!Start(c, caller, x)
    BY <1>3, <1>4, <1>6, <2>1, <2>2, <2>3, <2>4 DEF Ideal!Start
  <2> QED  BY <1>1, <2>5 DEF Ideal!Next
<1> QED  BY <1>5, <1>6

\* report_link_failure removes the later joiner or is invisible.
LEMMA ReportIsAllowed ==
    ASSUME IndInv, NEW c \in CallIds, NEW x \in Clients, NEW y \in Clients,
           ReportLinkFailure(c, x, y)
    PROVE  [Ideal!Next]_<<members, leader>>
<1> DEFINE recorded == RecordLinkReport(active_calls[c], x, y)
           reported == [Calls EXCEPT !.active[c] = recorded]
           evicted  == LaterJoiner(recorded, x, y)
<1>1. Inv(Calls) /\ Typed(Calls) /\ Calls.active = active_calls
  BY DEF IndInv, Inv, Ruled, Calls
<1>2. c \in DOMAIN active_calls
  BY DEF ReportLinkFailure, Participates, IsActive
<1>3. /\ IsActiveCallEntry(recorded)
      /\ recorded.participants = active_calls[c].participants
      /\ recorded.conference_leader = active_calls[c].conference_leader
  BY <1>1, <1>2, RecordedEntry DEF Typed
<1>4. /\ reported = [Calls EXCEPT !.active = [@ EXCEPT ![c] = recorded]]
      /\ reported.active = [active_calls EXCEPT ![c] = recorded]
  BY DEF Calls
<1>5. evicted \in Clients
  BY DEF LaterJoiner
<1>6. \/ active_calls' = AfterEndCall(reported, c, evicted).active
      \/ active_calls' = reported.active
  BY DEF ReportLinkFailure, Becomes
<1> HIDE DEF recorded, reported, evicted
<1>7. Inv(reported)
  BY <1>1, <1>2, <1>3, <1>4, RelabelledCallInv
<1>8. Members(reported) = Members(Calls) /\ Leaders(reported) = Leaders(Calls)
  <2>1. /\ c \in DOMAIN Calls.active
        /\ reported.active = [Calls.active EXCEPT ![c] = recorded]
        /\ recorded.participants = Calls.active[c].participants
        /\ recorded.conference_leader = Calls.active[c].conference_leader
    BY <1>1, <1>2, <1>3, <1>4
  <2> QED  BY <2>1, SameRoster
<1>9. CASE active_calls' = AfterEndCall(reported, c, evicted).active
  BY <1>5, <1>7, <1>8, <1>9, LeavingIsAllowed
<1>10. CASE active_calls' = reported.active
  <2>1. Calls'.active = reported.active
    BY <1>10 DEF Calls
  <2>2. Members(Calls') = Members(Calls) /\ Leaders(Calls') = Leaders(Calls)
    BY <1>8, <2>1 DEF Members, Leaders
  <2> QED  BY <2>2, CallsView
<1> QED  BY <1>6, <1>9, <1>10

\* The expiry of a link report is invisible.
LEMMA ExpiryIsAllowed ==
    ASSUME IndInv, NEW c \in CallIds, NEW pair, LinkReportExpires(c, pair)
    PROVE  [Ideal!Next]_<<members, leader>>
<1> DEFINE call == active_calls[c]
           new  == [call EXCEPT !.link_reports =
                      [call.link_reports EXCEPT ![pair].fresh = FALSE]]
<1>1. Typed(Calls) /\ Calls.active = active_calls /\ Calls'.active = active_calls'
  BY DEF IndInv, Inv, Ruled, Calls
<1>2. c \in DOMAIN active_calls
  BY DEF LinkReportExpires, IsActive
<1>3. IsActiveCallEntry(call)
  BY <1>1, <1>2 DEF Typed
<1>4. /\ new.participants = call.participants
      /\ new.conference_leader = call.conference_leader
  BY <1>3 DEF IsActiveCallEntry
<1>5. active_calls' = [active_calls EXCEPT ![c] = new]
  BY <1>2, <1>3 DEF LinkReportExpires
<1> HIDE DEF new
<1>6. Members(Calls') = Members(Calls) /\ Leaders(Calls') = Leaders(Calls)
  <2>1. /\ c \in DOMAIN Calls.active
        /\ Calls'.active = [Calls.active EXCEPT ![c] = new]
        /\ new.participants = Calls.active[c].participants
        /\ new.conference_leader = Calls.active[c].conference_leader
    BY <1>1, <1>2, <1>4, <1>5
  <2> HIDE DEF call
  <2> QED  BY <2>1, SameRoster
<1> QED  BY <1>6, CallsView

\* A disconnect is a departure from the client's own call; its lapsing
\* invitations are invisible.
LEMMA CleanupIsAllowed ==
    ASSUME IndInv, NEW x \in Clients, CleanupClientCalls(x)
    PROVE  [Ideal!Next]_<<members, leader>>
<1> DEFINE left == AfterLeavingOwnCall(Calls, x)
           gone == [left EXCEPT !.incoming[x] = Empty]
<1>1. Inv(Calls) /\ Typed(Calls)
  BY DEF IndInv, Inv, Ruled
<1>2. active_calls' = left.active
  <2>1. active_calls' = AfterInvitationsLapse(gone, x, left.incoming[x]).active
    BY DEF CleanupClientCalls, Becomes
  <2>2. Inv(left)
    BY <1>1, LeavingOwnCallInv
  <2>3. gone.active = left.active
    BY <2>2 DEF Inv, Ruled, Typed
  <2>4. AfterInvitationsLapse(gone, x, left.incoming[x]).active = gone.active
    BY <2>2 DEF AfterInvitationsLapse, Inv, Ruled, Typed
  <2> QED  BY <2>1, <2>3, <2>4
<1>3. CASE x \notin DOMAIN Calls.busy
  <2>1. active_calls' = active_calls
    BY <1>2, <1>3 DEF AfterLeavingOwnCall, Calls
  <2> QED  BY <2>1, Invisible
<1>4. CASE x \in DOMAIN Calls.busy
  <2>1. Calls.busy[x] \in CallIds
    BY <1>1, <1>4 DEF Typed, IsMap
  <2>2. left.active = AfterEndCall(Calls, Calls.busy[x], x).active
    BY <1>4 DEF AfterLeavingOwnCall, AfterEndCall
  <2> QED  BY <1>1, <1>2, <2>1, <2>2, LeavingIsAllowed
<1> QED  BY <1>3, <1>4

\* reject_call and call_error are invisible, or a departure.
LEMMA FailureIsAllowed ==
    ASSUME IndInv, NEW c \in CallIds, NEW x \in Clients,
           RejectCall(c, x) \/ CallError(c, x)
    PROVE  [Ideal!Next]_<<members, leader>>
<1> DEFINE s == [Calls EXCEPT !.incoming = Uninvite(@, c, {x})]
<1>1. \/ UNCHANGED active_calls
      \/ active_calls' = AfterEndCall(s, c, x).active
  BY DEF RejectCall, CallError, MarkClientWithinRingingCalls, Becomes
<1>2. Inv(s) /\ s.active = Calls.active
  BY UninvitedInv DEF IndInv, Calls
<1> HIDE DEF s
<1>3. Members(s) = Members(Calls) /\ Leaders(s) = Leaders(Calls)
  BY <1>2 DEF Members, Leaders
<1> QED  BY <1>1, <1>2, <1>3, Invisible, LeavingIsAllowed

\* end_call is a departure or invisible.
LEMMA EndIsAllowed ==
    ASSUME IndInv, NEW c \in CallIds, NEW x \in Clients, EndCall(c, x)
    PROVE  [Ideal!Next]_<<members, leader>>
<1>1. Inv(Calls) /\ active_calls' = AfterEndCall(Calls, c, x).active
  BY DEF IndInv, EndCall, Becomes
<1> QED  BY <1>1, LeavingIsAllowed

\* Every step of the manager is a step of the Conference or invisible to it.
LEMMA NextIsAllowed == IndInv /\ [Next]_vars => [Ideal!Next]_<<members, leader>>
<1> SUFFICES ASSUME IndInv, [Next]_vars
             PROVE  [Ideal!Next]_<<members, leader>>
  OBVIOUS
<1>1. ASSUME NEW c \in CallIds, NEW x \in Clients, NEW t \in Targets,
             NEW source, NEW notified, AttemptCall(c, x, source, t, notified)
      PROVE  [Ideal!Next]_<<members, leader>>
  <2>1. UNCHANGED active_calls
    BY <1>1 DEF AttemptCall
  <2> QED  BY <2>1, Invisible
<1>2. ASSUME NEW c \in CallIds, NEW x \in Clients, NEW t \in Targets,
             NEW reason \in DropReasons, DropTarget(c, x, t, reason)
      PROVE  [Ideal!Next]_<<members, leader>>
  <2>1. CASE DropRingingTarget(c, x, t)
    <3>1. UNCHANGED active_calls
      BY <2>1 DEF DropRingingTarget
    <3> QED  BY <3>1, Invisible
  <2>2. CASE DropJoinedParticipant(c, x, t, reason)
    BY <2>2, DropJoinedIsLeave, EndIsAllowed DEF IndInv, Inv, Ruled
  <2> QED  BY <1>2, <2>1, <2>2 DEF DropTarget
<1>3. ASSUME NEW c \in CallIds, NEW x \in Clients,
             AcceptCall(c, x) \/ RejectCall(c, x) \/ CallError(c, x) \/ EndCall(c, x)
      PROVE  [Ideal!Next]_<<members, leader>>
  BY <1>3, AcceptIsAllowed, FailureIsAllowed, EndIsAllowed
<1>4. ASSUME NEW c \in CallIds, NEW pair \in FlakyLinks, NEW x \in pair, NEW y \in pair,
             ReportLinkFailure(c, x, y)
      PROVE  [Ideal!Next]_<<members, leader>>
  <2>1. x \in Clients /\ y \in Clients
    BY ResolutionTypes
  <2> QED  BY <1>4, <2>1, ReportIsAllowed
<1>5. ASSUME NEW c \in CallIds, NEW pair \in FlakyLinks, LinkReportExpires(c, pair)
      PROVE  [Ideal!Next]_<<members, leader>>
  BY <1>5, ExpiryIsAllowed
<1>6. ASSUME NEW x \in Clients, CleanupClientCalls(x)
      PROVE  [Ideal!Next]_<<members, leader>>
  BY <1>6, CleanupIsAllowed
<1>7. CASE UNCHANGED vars
  BY <1>7, Invisible DEF vars
<1> QED
  BY <1>1, <1>2, <1>3, <1>4, <1>5, <1>6, <1>7 DEF Next

\* The manager starts with no calls, as the Conference does.
LEMMA InitIsAllowed == Init => Ideal!Init
BY DEF Init, Ideal!Init, members, leader, IsActive, Empty

\* The call manager implements the Conference, for any number of clients,
\* targets and calls, any resolution of targets and any pattern of dead links.
THEOREM Refinement == Spec => ImplementsConference
<1>1. Spec => []IndInv
  BY InductiveInvariant
<1> QED
  BY <1>1, InitIsAllowed, NextIsAllowed, PTL DEF Spec, ImplementsConference, Ideal!Spec

\* What the Conference allows to happen to the leader of a call.
LEMMA LeaderStays ==
    ASSUME IndInv, IndInv', [Ideal!Next]_<<members, leader>>,
           NEW c \in DOMAIN active_calls \cap DOMAIN active_calls',
           active_calls[c].conference_leader # None
    PROVE  /\ active_calls[c].conference_leader \in ParticipantsOf(active_calls'[c])
           /\ active_calls'[c].conference_leader \in
                {active_calls[c].conference_leader, None}
<1>1. /\ c \in CallIds
      /\ active_calls[c].conference_leader \in DOMAIN active_calls[c].participants
  BY DEF IndInv, Inv, Ruled, Typed, Calls, EntryLed
<1>2. /\ members[c] = DOMAIN active_calls[c].participants
      /\ leader[c] = active_calls[c].conference_leader
      /\ members'[c] = DOMAIN active_calls'[c].participants
      /\ leader'[c] = active_calls'[c].conference_leader
      /\ members = [d \in CallIds |-> members[d]]
      /\ leader = [d \in CallIds |-> leader[d]]
  BY <1>1 DEF members, leader, IsActive, ParticipantsOf
<1>3. leader[c] \in members'[c] /\ leader'[c] \in {leader[c], None}
  <2>1. CASE UNCHANGED <<members, leader>>
    BY <1>1, <1>2, <2>1
  <2>2. ASSUME NEW d \in CallIds, NEW x \in Clients, NEW y \in Clients,
               Ideal!Start(d, x, y)
        PROVE  leader[c] \in members'[c] /\ leader'[c] \in {leader[c], None}
    BY <1>1, <1>2, <2>2 DEF Ideal!Start
  <2>3. ASSUME NEW d \in CallIds, NEW x \in Clients, NEW y \in Clients,
               Ideal!Join(d, x, y)
        PROVE  leader[c] \in members'[c] /\ leader'[c] \in {leader[c], None}
    BY <1>1, <1>2, <2>3 DEF Ideal!Join
  <2>4. ASSUME NEW d \in CallIds, NEW x \in Clients, Ideal!Leave(d, x)
        PROVE  leader[c] \in members'[c] /\ leader'[c] \in {leader[c], None}
    BY <1>1, <1>2, <2>4 DEF Ideal!Leave
  <2>5. ASSUME NEW d \in CallIds, Ideal!End(d)
        PROVE  leader[c] \in members'[c] /\ leader'[c] \in {leader[c], None}
    <3>1. DOMAIN active_calls'[c].participants # {}
      <4>1. EntryLed(active_calls'[c])
        BY DEF IndInv, Inv, Ruled, Calls
      <4> QED  BY <4>1, FS_EmptySet DEF EntryLed, ParticipantsOf
    <3>2. c # d
      BY <1>2, <2>5, <3>1 DEF Ideal!End
    <3> QED  BY <1>1, <1>2, <2>5, <3>2 DEF Ideal!End
  <2> QED  BY <2>1, <2>2, <2>3, <2>4, <2>5 DEF Ideal!Next
<1> QED  BY <1>2, <1>3 DEF ParticipantsOf

\* Leadership never transfers: follows from the refinement, since no step of
\* the Conference moves it.
THEOREM LeadershipStays == Spec => LeadershipNeverTransfers
<1> DEFINE Stays ==
      \A c \in DOMAIN active_calls \cap DOMAIN active_calls' :
        LET old == active_calls[c].conference_leader
            new == active_calls'[c].conference_leader
        IN  old # None =>
              /\ old \in ParticipantsOf(active_calls'[c])
              /\ new \in {old, None}
<1>1. IndInv /\ IndInv' /\ [Ideal!Next]_<<members, leader>> => Stays
  BY LeaderStays
<1> HIDE DEF Stays
<1>2. IndInv /\ IndInv' /\ [Next]_vars => [Stays]_vars
  BY <1>1, NextIsAllowed
<1>3. Spec => [][Stays]_vars
  BY <1>2, InductiveInvariant, PTL DEF Spec
<1> QED  BY <1>3, PTL DEF Stays, LeadershipNeverTransfers

=============================================================================
