-------------------------- MODULE InvitationProofs --------------------------
(***************************************************************************)
(* The invitations of the call manager, proved for all values of the        *)
(* constants: the index by which a client finds the calls that ring it is    *)
(* exact, and whoever rings can still answer.  The two hold together only:   *)
(* a disconnect finds the invitations it must take away in the index, and    *)
(* the index names one target per call because nobody is rung by two.        *)
(***************************************************************************)
EXTENDS CallManagerProofs

\* Target t of call c rings client x in the state s.
RungIn(s, c, t, x) ==
    /\ c \in DOMAIN s.ringing
    /\ t \in DOMAIN s.ringing[c].targets
    /\ x \in s.ringing[c].targets[t].notified_clients

\* The index of client x names target t for call c in s.
IndexIn(s, c, t, x) == c \in DOMAIN s.incoming[x] /\ s.incoming[x][c] = t

\* IncomingIndexIsExact for the four maps as one value.
IndexExact(s) ==
    \A x \in Clients, c \in CallIds, t \in Targets : IndexIn(s, c, t, x) <=> RungIn(s, c, t, x)

\* A batch has targets, and each of them somebody to answer it who has not failed, did not
\* open the batch and is not in the call.
BatchAnswerable(call) ==
    /\ DOMAIN call.targets # {}
    /\ \A t \in DOMAIN call.targets :
         /\ call.targets[t].notified_clients # {}
         /\ call.targets[t].notified_clients \cap call.targets[t].failed_clients = {}
         /\ call.caller_id \notin call.targets[t].notified_clients

Answerable(s) ==
    /\ \A c \in DOMAIN s.ringing : BatchAnswerable(s.ringing[c])
    /\ \A c, t, x : RungIn(s, c, t, x) => ~MemberIn(s, c, x)

\* The inductive invariant.
Sound(s) == Inv(s) /\ IndexExact(s) /\ Answerable(s)

-----------------------------------------------------------------------------
(* The index. *)

\* remove_client_incoming_call removes what it is told and nothing else.
LEMMA UninviteIndex ==
    ASSUME NEW f, NEW c, NEW xs, NEW y \in Clients, NEW d, NEW t
    PROVE  (d \in DOMAIN Uninvite(f, c, xs)[y] /\ Uninvite(f, c, xs)[y][d] = t) <=>
             (d \in DOMAIN f[y] /\ f[y][d] = t /\ ~(d = c /\ y \in xs))
BY DEF Uninvite, Remove, Restrict

\* Rung clients and targets are of their types.
LEMMA RungTypes ==
    ASSUME NEW s, Typed(s), NEW c, NEW t, NEW x, RungIn(s, c, t, x)
    PROVE  c \in CallIds /\ t \in Targets /\ x \in Clients
BY DEF Typed, RungIn, IsRingingCallEntry, IsMap, RingingTargetEntry

\* Nobody is rung by two targets of one call.
LEMMA RungOnce ==
    ASSUME NEW s, Typed(s), IndexExact(s), NEW c, NEW t, NEW u, NEW x,
           RungIn(s, c, t, x), RungIn(s, c, u, x)
    PROVE  t = u
<1>1. c \in CallIds /\ t \in Targets /\ u \in Targets /\ x \in Clients
  BY RungTypes
<1> QED  BY <1>1 DEF IndexExact, IndexIn

-----------------------------------------------------------------------------
(* end_call. *)

LEMMA EndCallSound ==
    ASSUME NEW s, Sound(s), NEW c \in CallIds, NEW x \in Clients
    PROVE  Sound(AfterEndCall(s, c, x))
<1> DEFINE r == AfterEndCall(s, c, x)
<1>1. Inv(s) /\ Typed(s) /\ IndexExact(s) /\ Answerable(s) /\ Inv(r)
  BY EndCallInv DEF Sound, Inv, Ruled
<1>2. /\ DOMAIN r.ringing = IF Cancels(s, c, x) THEN DOMAIN s.ringing \ {c} ELSE DOMAIN s.ringing
      /\ \A d \in DOMAIN r.ringing : r.ringing[d] = s.ringing[d]
  BY <1>1, EndCallRinging
<1>3. r.incoming = IF Cancels(s, c, x)
                   THEN Uninvite(s.incoming, c, InvitedClients(s.ringing[c])) ELSE s.incoming
  BY DEF AfterEndCall, Cancels, Ends, CallerIn, MemberIn, ParticipantsOf
<1>4. \A d, y : MemberIn(r, d, y) => MemberIn(s, d, y)
  BY <1>1, EndCallMembers
<1> HIDE DEF r
<1>5. \A d, t, y : RungIn(r, d, t, y) <=> RungIn(s, d, t, y) /\ ~(d = c /\ Cancels(s, c, x))
  BY <1>2 DEF RungIn
<1>6. \A t, y : RungIn(s, c, t, y) => y \in InvitedClients(s.ringing[c])
  BY DEF RungIn, InvitedClients
<1>7. IndexExact(r)
  <2> SUFFICES ASSUME NEW y \in Clients, NEW d \in CallIds, NEW t \in Targets
               PROVE  IndexIn(r, d, t, y) <=> RungIn(r, d, t, y)
    BY DEF IndexExact
  <2>1. IndexIn(s, d, t, y) <=> RungIn(s, d, t, y)
    BY <1>1 DEF IndexExact
  <2>2. CASE Cancels(s, c, x)
    <3>1. r.incoming = Uninvite(s.incoming, c, InvitedClients(s.ringing[c]))
      BY <1>3, <2>2
    <3>2. IndexIn(r, d, t, y) <=> IndexIn(s, d, t, y) /\ ~(d = c /\ y \in InvitedClients(s.ringing[c]))
      BY <3>1 DEF IndexIn, Uninvite, Remove, Restrict
    <3> QED  BY <1>5, <1>6, <2>1, <2>2, <3>2
  <2>3. CASE ~Cancels(s, c, x)
    BY <1>3, <1>5, <2>1, <2>3 DEF IndexIn
  <2> QED  BY <2>2, <2>3
<1>8. Answerable(r)
  BY <1>1, <1>2, <1>4, <1>5 DEF Answerable
<1> QED  BY <1>1, <1>7, <1>8 DEF Sound, r

-----------------------------------------------------------------------------
(* The other steps that take invitations away. *)

\* A callee that fails is rung no longer, everybody else still is, and the targets that are
\* left have somebody to answer them (the retain loop of mark_client_within_ringing_calls).
LEMMA FailureLeaves ==
    ASSUME NEW call, IsRingingCallEntry(call), BatchAnswerable(call), NEW x \in Clients
    PROVE  LET left == TargetsAfterFailure(call, x)
           IN  /\ \A t, y : (t \in DOMAIN left /\ y \in left[t].notified_clients) <=>
                    (t \in DOMAIN call.targets /\ y \in call.targets[t].notified_clients /\ y # x)
               /\ \A t \in DOMAIN left :
                    /\ left[t].notified_clients # {}
                    /\ left[t].notified_clients \cap left[t].failed_clients = {}
<1> DEFINE marked == RingingTargetsOf(call, x)
           after == [t \in DOMAIN call.targets |->
                       IF t \in marked THEN MarkFailed(call.targets[t], x) ELSE call.targets[t]]
           gone == {t \in marked : AllRejectedOrErrored(after[t])}
           left == TargetsAfterFailure(call, x)
<1>1. marked = {t \in DOMAIN call.targets : x \in call.targets[t].notified_clients}
  BY DEF RingingTargetsOf, BatchAnswerable
<1>2. ASSUME NEW t \in DOMAIN call.targets
      PROVE  /\ after[t].notified_clients = call.targets[t].notified_clients \ {x}
             /\ after[t].notified_clients \cap after[t].failed_clients = {}
  <2>1. call.targets[t] \in RingingTargetEntry
    BY DEF IsRingingCallEntry, IsMap
  <2>2. call.targets[t].notified_clients \cap call.targets[t].failed_clients = {}
    BY DEF BatchAnswerable
  <2>3. CASE t \in marked
    BY <1>1, <2>1, <2>2, <2>3 DEF MarkFailed, RingingTargetEntry
  <2>4. CASE t \notin marked
    BY <1>1, <2>2, <2>4
  <2> QED  BY <2>3, <2>4
<1>3. left = Remove(after, gone)
  BY DEF TargetsAfterFailure
<1>4. DOMAIN after = DOMAIN call.targets
  OBVIOUS
<1>5. \A t \in DOMAIN call.targets : t \in gone <=> t \in marked /\ after[t].notified_clients = {}
  BY DEF AllRejectedOrErrored
<1> HIDE DEF after, marked, gone, left
<1>6. /\ DOMAIN left = DOMAIN call.targets \ gone
      /\ \A t \in DOMAIN left : left[t] = after[t]
  BY <1>3, <1>4 DEF Remove, Restrict
<1>7. \A t \in DOMAIN left : left[t].notified_clients # {}
  BY <1>1, <1>2, <1>5, <1>6 DEF BatchAnswerable
<1>8. \A t, y : (t \in DOMAIN left /\ y \in left[t].notified_clients) <=>
        (t \in DOMAIN call.targets /\ y \in call.targets[t].notified_clients /\ y # x)
  BY <1>1, <1>2, <1>5, <1>6
<1> QED  BY <1>2, <1>6, <1>7, <1>8 DEF left

\* Taking away every invitation of one client in a call keeps the invitations sound, if the
\* index of that client forgets the call.
LEMMA ClientUnrungSound ==
    ASSUME NEW s, Sound(s), NEW r, Inv(r), NEW c \in CallIds, NEW x \in Clients,
           r.active = s.active,
           r.incoming = Uninvite(s.incoming, c, {x}),
           \A d \in DOMAIN r.ringing : BatchAnswerable(r.ringing[d]),
           \A d, t, y : RungIn(r, d, t, y) <=> RungIn(s, d, t, y) /\ ~(d = c /\ y = x)
    PROVE  Sound(r)
<1>1. IndexExact(r)
  <2> SUFFICES ASSUME NEW y \in Clients, NEW d \in CallIds, NEW t \in Targets
               PROVE  IndexIn(r, d, t, y) <=> RungIn(r, d, t, y)
    BY DEF IndexExact
  <2>1. IndexIn(s, d, t, y) <=> RungIn(s, d, t, y)
    BY DEF Sound, IndexExact
  <2>2. IndexIn(r, d, t, y) <=> IndexIn(s, d, t, y) /\ ~(d = c /\ y = x)
    BY DEF IndexIn, Uninvite, Remove, Restrict
  <2> QED  BY <2>1, <2>2
<1>2. Answerable(r)
  BY DEF Sound, Answerable, MemberIn
<1> QED  BY <1>1, <1>2 DEF Sound

\* The action of a callee that rejects or fails.
LEMMA MarkSound ==
    ASSUME Sound(Calls), NEW c \in CallIds, NEW x \in Clients,
           IsRinging(c), MarkClientWithinRingingCalls(c, x)
    PROVE  Sound(Calls')
<1> DEFINE call == ringing_calls[c]
           left == TargetsAfterFailure(call, x)
<1>1. Inv(Calls) /\ Typed(Calls) /\ Answerable(Calls)
  BY DEF Sound, Inv, Ruled
<1>2. Inv(Calls')
  BY <1>1, MarkKeeps DEF IndInv
<1>3. /\ Calls.ringing = ringing_calls /\ Calls.active = active_calls /\ Calls.incoming = client_incoming_calls
      /\ Calls'.ringing = ringing_calls' /\ Calls'.active = active_calls' /\ Calls'.incoming = client_incoming_calls'
  BY DEF Calls
<1>4. /\ ringing_calls' = IF DOMAIN left = {} THEN Remove(ringing_calls, {c})
                          ELSE [ringing_calls EXCEPT ![c] = [call EXCEPT !.targets = left]]
      /\ active_calls' = active_calls
      /\ client_incoming_calls' = Uninvite(client_incoming_calls, c, {x})
  BY DEF MarkClientWithinRingingCalls
<1>5. c \in DOMAIN ringing_calls /\ IsRingingCallEntry(call) /\ BatchAnswerable(call)
  BY <1>1, <1>3 DEF IsRinging, Typed, Answerable
<1>6. /\ \A t, y : (t \in DOMAIN left /\ y \in left[t].notified_clients) <=>
           (t \in DOMAIN call.targets /\ y \in call.targets[t].notified_clients /\ y # x)
      /\ \A t \in DOMAIN left : /\ left[t].notified_clients # {}
                                /\ left[t].notified_clients \cap left[t].failed_clients = {}
  BY <1>5, FailureLeaves
<1>7. LET new == [call EXCEPT !.targets = left]
      IN  new.targets = left /\ new.caller_id = call.caller_id
  BY <1>5 DEF IsRingingCallEntry
<1> HIDE DEF left
<1>8. \A d : d \in DOMAIN ringing_calls' <=> d \in DOMAIN ringing_calls /\ ~(d = c /\ DOMAIN left = {})
  BY <1>4, <1>5 DEF Remove, Restrict
<1>9. \A d \in DOMAIN ringing_calls' :
        ringing_calls'[d] = IF d = c THEN [call EXCEPT !.targets = left] ELSE ringing_calls[d]
  BY <1>4, <1>5, <1>8 DEF Remove, Restrict
<1>10. \A d \in DOMAIN ringing_calls' : BatchAnswerable(ringing_calls'[d])
  <2> SUFFICES ASSUME NEW d \in DOMAIN ringing_calls' PROVE BatchAnswerable(ringing_calls'[d])
    OBVIOUS
  <2>1. CASE d = c
    BY <1>5, <1>6, <1>7, <1>8, <1>9, <2>1 DEF BatchAnswerable
  <2>2. CASE d # c
    BY <1>1, <1>3, <1>8, <1>9, <2>2 DEF Answerable
  <2> QED  BY <2>1, <2>2
<1>11. \A d, t, y : RungIn(Calls', d, t, y) <=> RungIn(Calls, d, t, y) /\ ~(d = c /\ y = x)
  <2> SUFFICES ASSUME NEW d, NEW t, NEW y
               PROVE  RungIn(Calls', d, t, y) <=> RungIn(Calls, d, t, y) /\ ~(d = c /\ y = x)
    OBVIOUS
  <2>1. CASE d = c
    BY <1>3, <1>5, <1>6, <1>7, <1>8, <1>9, <2>1 DEF RungIn
  <2>2. CASE d # c
    BY <1>3, <1>8, <1>9, <2>2 DEF RungIn
  <2> QED  BY <2>1, <2>2
<1>12. /\ Calls'.active = Calls.active
       /\ Calls'.incoming = Uninvite(Calls.incoming, c, {x})
       /\ \A d \in DOMAIN Calls'.ringing : BatchAnswerable(Calls'.ringing[d])
  BY <1>3, <1>4, <1>10
<1> QED  BY <1>2, <1>11, <1>12, ClientUnrungSound

\* Taking targets of a call away keeps the invitations sound, if everybody they rang forgets
\* the call and nobody who is still rung has joined.
LEMMA TargetsGoneSound ==
    ASSUME NEW s, Sound(s), NEW r, Inv(r), NEW c \in DOMAIN s.ringing,
           NEW ts \in SUBSET DOMAIN s.ringing[c].targets,
           DOMAIN r.ringing = IF ts = DOMAIN s.ringing[c].targets THEN DOMAIN s.ringing \ {c}
                              ELSE DOMAIN s.ringing,
           \A d \in DOMAIN r.ringing : d # c => r.ringing[d] = s.ringing[d],
           c \in DOMAIN r.ringing =>
              /\ r.ringing[c].caller_id = s.ringing[c].caller_id
              /\ r.ringing[c].targets = Remove(s.ringing[c].targets, ts),
           NEW rung, \A y : y \in rung <=> \E t \in ts : RungIn(s, c, t, y),
           r.incoming = Uninvite(s.incoming, c, rung),
           \A d, t, y : RungIn(r, d, t, y) => ~MemberIn(r, d, y)
    PROVE  Sound(r)
<1>1. Inv(s) /\ Typed(s) /\ IndexExact(s) /\ Answerable(s)
  BY DEF Sound, Inv, Ruled
<1>2. c \in DOMAIN r.ringing =>
        /\ DOMAIN r.ringing[c].targets = DOMAIN s.ringing[c].targets \ ts
        /\ \A t \in DOMAIN r.ringing[c].targets : r.ringing[c].targets[t] = s.ringing[c].targets[t]
  BY DEF Remove, Restrict
<1>3. \A d, t, y : RungIn(r, d, t, y) <=> RungIn(s, d, t, y) /\ ~(d = c /\ t \in ts)
  <2> SUFFICES ASSUME NEW d, NEW t, NEW y
               PROVE  RungIn(r, d, t, y) <=> RungIn(s, d, t, y) /\ ~(d = c /\ t \in ts)
    OBVIOUS
  <2>1. CASE d = c
    BY <1>2, <2>1 DEF RungIn
  <2>2. CASE d # c
    BY <2>2 DEF RungIn
  <2> QED  BY <2>1, <2>2
<1>4. IndexExact(r)
  <2> SUFFICES ASSUME NEW y \in Clients, NEW d \in CallIds, NEW t \in Targets
               PROVE  IndexIn(r, d, t, y) <=> RungIn(r, d, t, y)
    BY DEF IndexExact
  <2>1. IndexIn(s, d, t, y) <=> RungIn(s, d, t, y)
    BY <1>1 DEF IndexExact
  <2>2. IndexIn(r, d, t, y) <=> IndexIn(s, d, t, y) /\ ~(d = c /\ y \in rung)
    <3>1. r.incoming = Uninvite(s.incoming, c, rung)
      OBVIOUS
    <3>2. (d \in DOMAIN Uninvite(s.incoming, c, rung)[y] /\ Uninvite(s.incoming, c, rung)[y][d] = t) <=>
            (d \in DOMAIN s.incoming[y] /\ s.incoming[y][d] = t /\ ~(d = c /\ y \in rung))
      BY ONLY UninviteIndex, y \in Clients
    <3> QED  BY ONLY <3>1, <3>2 DEF IndexIn
  <2>3. RungIn(s, c, t, y) => (y \in rung <=> t \in ts)
    BY <1>1, RungOnce
  <2> QED  BY <1>3, <2>1, <2>2, <2>3
<1>5. \A d \in DOMAIN r.ringing : BatchAnswerable(r.ringing[d])
  <2> SUFFICES ASSUME NEW d \in DOMAIN r.ringing PROVE BatchAnswerable(r.ringing[d])
    OBVIOUS
  <2>1. CASE d = c
    <3>1. BatchAnswerable(s.ringing[c])
      BY <1>1 DEF Answerable
    <3> QED  BY <1>2, <2>1, <3>1 DEF BatchAnswerable
  <2>2. CASE d # c
    BY <1>1, <2>2 DEF Answerable
  <2> QED  BY <2>1, <2>2
<1> QED  BY <1>4, <1>5 DEF Sound, Answerable

\* The action of a caller that takes an invitation back (drop_ringing_target).
LEMMA DropRingingSound ==
    ASSUME Sound(Calls), NEW c \in CallIds, NEW x \in Clients, NEW t \in Targets,
           DropRingingTarget(c, x, t)
    PROVE  Sound(Calls')
<1> DEFINE call == ringing_calls[c]
<1>1. Inv(Calls) /\ Typed(Calls) /\ Answerable(Calls)
  BY DEF Sound, Inv, Ruled
<1>2. Inv(Calls')
  BY <1>1, DropRingingKeeps DEF IndInv
<1>3. /\ Calls.ringing = ringing_calls /\ Calls.active = active_calls /\ Calls.incoming = client_incoming_calls
      /\ Calls'.ringing = ringing_calls' /\ Calls'.active = active_calls' /\ Calls'.incoming = client_incoming_calls'
  BY DEF Calls
<1>4. /\ c \in DOMAIN ringing_calls /\ t \in DOMAIN call.targets
      /\ ringing_calls' = IF DOMAIN call.targets = {t} THEN Remove(ringing_calls, {c})
                          ELSE [ringing_calls EXCEPT ![c] = [call EXCEPT !.targets = Remove(@, {t})]]
      /\ active_calls' = active_calls
      /\ client_incoming_calls' = Uninvite(client_incoming_calls, c, call.targets[t].notified_clients)
  BY DEF DropRingingTarget, IsRinging
<1>5. IsRingingCallEntry(call)
  BY <1>1, <1>3, <1>4 DEF Typed
<1>6. LET new == [call EXCEPT !.targets = Remove(@, {t})]
      IN  new.targets = Remove(call.targets, {t}) /\ new.caller_id = call.caller_id
  BY <1>5 DEF IsRingingCallEntry
<1>7. /\ DOMAIN ringing_calls' = IF {t} = DOMAIN call.targets THEN DOMAIN ringing_calls \ {c}
                                 ELSE DOMAIN ringing_calls
      /\ \A d \in DOMAIN ringing_calls' : d # c => ringing_calls'[d] = ringing_calls[d]
      /\ c \in DOMAIN ringing_calls' =>
           /\ ringing_calls'[c].caller_id = call.caller_id
           /\ ringing_calls'[c].targets = Remove(call.targets, {t})
  BY <1>4, <1>6 DEF Remove, Restrict
<1>8. \A d, u, y : RungIn(Calls', d, u, y) => ~MemberIn(Calls', d, y)
  <2> SUFFICES ASSUME NEW d, NEW u, NEW y, RungIn(Calls', d, u, y) PROVE ~MemberIn(Calls', d, y)
    OBVIOUS
  <2>1. RungIn(Calls, d, u, y)
    <3>1. CASE d = c
      BY <1>3, <1>4, <1>7, <3>1 DEF RungIn, Remove, Restrict
    <3>2. CASE d # c
      BY <1>3, <1>7, <3>2 DEF RungIn
    <3> QED  BY <3>1, <3>2
  <2> QED  BY <1>1, <1>3, <1>4, <2>1 DEF Answerable, MemberIn
<1>9. \A y : y \in call.targets[t].notified_clients <=> \E u \in {t} : RungIn(Calls, c, u, y)
  BY <1>3, <1>4 DEF RungIn
<1>10. /\ c \in DOMAIN Calls.ringing
       /\ {t} \in SUBSET DOMAIN Calls.ringing[c].targets
       /\ DOMAIN Calls'.ringing = IF {t} = DOMAIN Calls.ringing[c].targets THEN DOMAIN Calls.ringing \ {c}
                                  ELSE DOMAIN Calls.ringing
       /\ \A d \in DOMAIN Calls'.ringing : d # c => Calls'.ringing[d] = Calls.ringing[d]
       /\ c \in DOMAIN Calls'.ringing =>
            /\ Calls'.ringing[c].caller_id = Calls.ringing[c].caller_id
            /\ Calls'.ringing[c].targets = Remove(Calls.ringing[c].targets, {t})
       /\ Calls'.incoming = Uninvite(Calls.incoming, c, call.targets[t].notified_clients)
  BY <1>3, <1>4, <1>7
<1> HIDE DEF call
<1> QED  BY <1>2, <1>8, <1>9, <1>10, TargetsGoneSound

\* The action of a callee that accepts: the targets it answers go, with everybody they rang.
LEMMA AcceptSound ==
    ASSUME Sound(Calls), NEW c \in CallIds, NEW x \in Clients, AcceptCall(c, x)
    PROVE  Sound(Calls')
<1> DEFINE call    == ringing_calls[c]
           caller  == call.caller_id
           answers == AnsweredTargets(call, x)
           rung    == UNION {call.targets[t].notified_clients : t \in answers}
<1>1. Inv(Calls) /\ IndInv /\ Typed(Calls) /\ Answerable(Calls)
  BY DEF Sound, Inv, Ruled, IndInv
<1>2. Inv(Calls')
  BY <1>1, AcceptKeeps DEF IndInv
<1>3. /\ Calls.ringing = ringing_calls /\ Calls.active = active_calls /\ Calls.incoming = client_incoming_calls
      /\ Calls'.ringing = ringing_calls' /\ Calls'.active = active_calls' /\ Calls'.incoming = client_incoming_calls'
  BY DEF Calls
<1>4. /\ c \in DOMAIN ringing_calls
      /\ ringing_calls' = IF answers = DOMAIN call.targets THEN Remove(ringing_calls, {c})
                          ELSE [ringing_calls EXCEPT ![c] = [call EXCEPT !.targets = Remove(@, answers)]]
      /\ client_incoming_calls' = Uninvite(client_incoming_calls, c, rung)
  BY DEF AcceptCall, IsRinging
<1>5. IsRingingCallEntry(call)
  BY <1>1, <1>3, <1>4 DEF Typed
<1>6. LET new == [call EXCEPT !.targets = Remove(@, answers)]
      IN  new.targets = Remove(call.targets, answers) /\ new.caller_id = call.caller_id
  BY <1>5 DEF IsRingingCallEntry
<1>7. answers = {t \in DOMAIN call.targets : x \in call.targets[t].notified_clients}
  BY DEF AnsweredTargets
<1>8. \A y : y \in rung <=> \E t \in answers : RungIn(Calls, c, t, y)
  BY <1>3, <1>4, <1>7 DEF RungIn
<1> HIDE DEF answers, rung
<1>9. /\ c \in DOMAIN Calls.ringing
      /\ answers \in SUBSET DOMAIN Calls.ringing[c].targets
      /\ DOMAIN Calls'.ringing = IF answers = DOMAIN Calls.ringing[c].targets THEN DOMAIN Calls.ringing \ {c}
                                 ELSE DOMAIN Calls.ringing
      /\ \A d \in DOMAIN Calls'.ringing : d # c => Calls'.ringing[d] = Calls.ringing[d]
      /\ c \in DOMAIN Calls'.ringing =>
           /\ Calls'.ringing[c].caller_id = Calls.ringing[c].caller_id
           /\ Calls'.ringing[c].targets = Remove(Calls.ringing[c].targets, answers)
      /\ Calls'.incoming = Uninvite(Calls.incoming, c, rung)
  BY <1>3, <1>4, <1>6, <1>7 DEF Remove, Restrict
<1>10. \A d, y : MemberIn(Calls', d, y) => MemberIn(Calls, d, y) \/ (d = c /\ y \in {x, caller})
  <2> SUFFICES ASSUME NEW d, NEW y, MemberIn(Calls', d, y)
               PROVE  MemberIn(Calls, d, y) \/ (d = c /\ y \in {x, caller})
    OBVIOUS
  <2>1. /\ DOMAIN active_calls'[c].participants =
             (IF IsActive(c) THEN DOMAIN active_calls[c].participants ELSE {caller}) \cup {x}
        /\ DOMAIN active_calls' = DOMAIN active_calls \cup {c}
        /\ \A e \in DOMAIN active_calls' : e # c => active_calls'[e] = active_calls[e]
    BY <1>1, AcceptJoins, AcceptorUninvolved DEF IndInv, Inv, Ruled
  <2>2. CASE d = c
    BY <1>3, <2>1, <2>2 DEF MemberIn, IsActive
  <2>3. CASE d # c
    BY <1>3, <2>1, <2>3 DEF MemberIn
  <2> QED  BY <2>2, <2>3
<1>11. \A d, t, y : RungIn(Calls', d, t, y) => ~MemberIn(Calls', d, y)
  <2> SUFFICES ASSUME NEW d, NEW t, NEW y, RungIn(Calls', d, t, y) PROVE ~MemberIn(Calls', d, y)
    OBVIOUS
  <2>1. RungIn(Calls, d, t, y) /\ ~(d = c /\ t \in answers)
    <3>1. CASE d = c
      BY <1>9, <3>1 DEF RungIn, Remove, Restrict
    <3>2. CASE d # c
      BY <1>9, <3>2 DEF RungIn
    <3> QED  BY <3>1, <3>2
  <2>2. ~MemberIn(Calls, d, y)
    BY <1>1, <2>1 DEF Answerable
  <2>3. d = c => y # x /\ y # caller
    <3> SUFFICES ASSUME d = c PROVE y # x /\ y # caller
      OBVIOUS
    <3>1. t \in DOMAIN call.targets /\ y \in call.targets[t].notified_clients
      BY <1>3, <2>1 DEF RungIn
    <3>2. BatchAnswerable(call)
      BY <1>1, <1>3, <1>4 DEF Answerable
    <3> QED  BY <1>7, <2>1, <3>1, <3>2 DEF BatchAnswerable
  <2> QED  BY <1>10, <2>2, <2>3
<1> HIDE DEF call
<1> QED  BY <1>2, <1>8, <1>9, <1>11, TargetsGoneSound

-----------------------------------------------------------------------------
(* New invitations. *)

\* The action of a caller that invites: those it rings were rung by no target of the call.
LEMMA AttemptSound ==
    ASSUME Sound(Calls), NEW c \in CallIds, NEW x \in Clients, NEW t \in Targets, NEW st \in Targets,
           NEW notified \in SUBSET Clients, notified # {}, x \notin notified,
           AttemptCall(c, x, [client_id |-> x, target |-> st], t, notified)
    PROVE  Sound(Calls')
<1> DEFINE entry == NewRingingTarget([client_id |-> x, target |-> st], notified)
           batch == IF IsRinging(c) THEN [ringing_calls[c] EXCEPT !.targets = Put(@, t, entry)]
                    ELSE [caller_id |-> x, targets |-> Put(Empty, t, entry)]
<1>1. Inv(Calls) /\ Typed(Calls) /\ IndexExact(Calls) /\ Answerable(Calls)
  BY DEF Sound, Inv, Ruled
<1>2. Inv(Calls')
  BY <1>1, AttemptKeeps DEF IndInv
<1>3. /\ Calls.ringing = ringing_calls /\ Calls.active = active_calls /\ Calls.incoming = client_incoming_calls
      /\ Calls'.ringing = ringing_calls' /\ Calls'.active = active_calls' /\ Calls'.incoming = client_incoming_calls'
  BY DEF Calls
<1>4. /\ ringing_calls' = Put(ringing_calls, c, batch)
      /\ client_incoming_calls' = [y \in Clients |->
                                     IF y \in notified THEN Put(client_incoming_calls[y], c, t)
                                                       ELSE client_incoming_calls[y]]
      /\ active_calls' = active_calls
  BY DEF AttemptCall
<1>5. /\ IsRinging(c) => /\ ringing_calls[c].caller_id = x
                         /\ t \notin DOMAIN ringing_calls[c].targets
                         /\ InvitedClients(ringing_calls[c]) \cap notified = {}
      /\ IsActive(c) => ParticipantsOf(active_calls[c]) \cap notified = {}
  BY DEF AttemptCall, ValidCallAttempt
<1>6. entry.notified_clients = notified /\ entry.failed_clients = {}
  BY DEF NewRingingTarget
<1> HIDE DEF entry
<1>7. IsRinging(c) => IsRingingCallEntry(ringing_calls[c]) /\ BatchAnswerable(ringing_calls[c])
  BY <1>1, <1>3 DEF IsRinging, Typed, Answerable
<1>8. /\ batch.caller_id = x
      /\ DOMAIN batch.targets = (IF IsRinging(c) THEN DOMAIN ringing_calls[c].targets ELSE {}) \cup {t}
      /\ batch.targets[t] = entry
      /\ \A u \in DOMAIN batch.targets : u # t => batch.targets[u] = ringing_calls[c].targets[u]
  <2>1. CASE IsRinging(c)
    BY <1>5, <1>7, <2>1 DEF Put, IsRingingCallEntry
  <2>2. CASE ~IsRinging(c)
    BY <2>2 DEF Put, Empty
  <2> QED  BY <2>1, <2>2
<1>9. BatchAnswerable(batch)
  BY <1>5, <1>6, <1>7, <1>8 DEF BatchAnswerable
<1> HIDE DEF batch
<1>10. /\ DOMAIN ringing_calls' = DOMAIN ringing_calls \cup {c}
       /\ \A d \in DOMAIN ringing_calls' : ringing_calls'[d] = IF d = c THEN batch ELSE ringing_calls[d]
  BY <1>4 DEF Put
<1>11. \A d, u, y : RungIn(Calls', d, u, y) <=> RungIn(Calls, d, u, y) \/ (d = c /\ u = t /\ y \in notified)
  <2> SUFFICES ASSUME NEW d, NEW u, NEW y
               PROVE  RungIn(Calls', d, u, y) <=> RungIn(Calls, d, u, y) \/ (d = c /\ u = t /\ y \in notified)
    OBVIOUS
  <2>1. CASE d # c
    BY <1>3, <1>10, <2>1 DEF RungIn
  <2>2. CASE d = c
    BY <1>3, <1>5, <1>6, <1>8, <1>10, <2>2 DEF RungIn, IsRinging
  <2> QED  BY <2>1, <2>2
<1>12. IndexExact(Calls')
  <2> SUFFICES ASSUME NEW y \in Clients, NEW d \in CallIds, NEW u \in Targets
               PROVE  IndexIn(Calls', d, u, y) <=> RungIn(Calls', d, u, y)
    BY DEF IndexExact
  <2>1. IndexIn(Calls, d, u, y) <=> RungIn(Calls, d, u, y)
    BY <1>1 DEF IndexExact
  <2>2. IndexIn(Calls', d, u, y) <=> IF d = c /\ y \in notified THEN u = t ELSE IndexIn(Calls, d, u, y)
    BY <1>3, <1>4 DEF IndexIn, Put
  <2>3. y \in notified => ~RungIn(Calls, c, u, y)
    BY <1>3, <1>5 DEF RungIn, InvitedClients, IsRinging
  <2> QED  BY <1>11, <2>1, <2>2, <2>3
<1>13. Answerable(Calls')
  <2>1. \A d \in DOMAIN ringing_calls' : BatchAnswerable(ringing_calls'[d])
    BY <1>1, <1>3, <1>9, <1>10 DEF Answerable
  <2>2. \A d, y : MemberIn(Calls', d, y) <=> MemberIn(Calls, d, y)
    BY <1>3, <1>4 DEF MemberIn
  <2>3. \A y \in notified : ~MemberIn(Calls, c, y)
    BY <1>3, <1>5 DEF MemberIn, IsActive, ParticipantsOf
  <2>4. \A d, u, y : RungIn(Calls, d, u, y) => ~MemberIn(Calls, d, y)
    BY <1>1 DEF Answerable
  <2> QED  BY <1>3, <1>11, <2>1, <2>2, <2>3, <2>4 DEF Answerable
<1> QED  BY <1>2, <1>12, <1>13 DEF Sound

-----------------------------------------------------------------------------
(* Steps that leave the invitations as they are. *)

\* The invitations stay sound while they and the index stay the same and nobody joins.
LEMMA RelabelledSound ==
    ASSUME NEW s, Sound(s), NEW r, Inv(r), r.ringing = s.ringing,
           \A y \in Clients, d \in CallIds, t \in Targets : IndexIn(r, d, t, y) <=> IndexIn(s, d, t, y),
           \A d, y : MemberIn(r, d, y) => MemberIn(s, d, y)
    PROVE  Sound(r)
<1>1. \A d, t, y : RungIn(r, d, t, y) <=> RungIn(s, d, t, y)
  BY DEF RungIn
<1>2. IndexExact(r)
  BY <1>1 DEF Sound, IndexExact
<1>3. Answerable(r)
  BY <1>1 DEF Sound, Answerable
<1> QED  BY <1>2, <1>3 DEF Sound

\* A client that a call does not ring has no entry for it in its index, so removing the entry
\* changes nothing (reject_call and call_error remove it before they look for the call).
LEMMA UnrungSound ==
    ASSUME NEW s, Sound(s), NEW c \in CallIds, NEW x \in Clients, \A t : ~RungIn(s, c, t, x)
    PROVE  Sound([s EXCEPT !.incoming = Uninvite(@, c, {x})])
<1> DEFINE r == [s EXCEPT !.incoming = Uninvite(@, c, {x})]
<1>1. Inv(s) /\ Typed(s) /\ IndexExact(s)
  BY DEF Sound, Inv, Ruled
<1>2. Inv(r)
  BY <1>1, UninvitedInv
<1>3. r.ringing = s.ringing /\ r.active = s.active /\ r.incoming = Uninvite(s.incoming, c, {x})
  BY <1>1 DEF Typed
<1> HIDE DEF r
<1>4. \A y \in Clients, d \in CallIds, t \in Targets : IndexIn(r, d, t, y) <=> IndexIn(s, d, t, y)
  <2> SUFFICES ASSUME NEW y \in Clients, NEW d \in CallIds, NEW t \in Targets
               PROVE  IndexIn(r, d, t, y) <=> IndexIn(s, d, t, y)
    OBVIOUS
  <2>1. IndexIn(r, d, t, y) <=> IndexIn(s, d, t, y) /\ ~(d = c /\ y = x)
    BY <1>3 DEF IndexIn, Uninvite, Remove, Restrict
  <2>2. ~IndexIn(s, c, t, x)
    BY <1>1 DEF IndexExact
  <2> QED  BY <2>1, <2>2
<1>5. \A d, y : MemberIn(r, d, y) => MemberIn(s, d, y)
  BY <1>3 DEF MemberIn
<1>6. Sound(r)
  BY <1>2, <1>3, <1>4, <1>5, RelabelledSound
<1> QED  BY <1>6 DEF r

\* A client for whom mark_client_within_ringing_calls finds nothing to mark is not rung.
LEMMA NotMarkedNotRung ==
    ASSUME Sound(Calls), NEW c \in CallIds, NEW x \in Clients, ~RingsFor(c, x)
    PROVE  \A t : ~RungIn(Calls, c, t, x)
<1> SUFFICES ASSUME NEW t, RungIn(Calls, c, t, x) PROVE FALSE
  OBVIOUS
<1>1. Calls.ringing = ringing_calls
  BY DEF Calls
<1>2. c \in DOMAIN ringing_calls /\ BatchAnswerable(ringing_calls[c])
  BY <1>1 DEF RungIn, Sound, Answerable
<1>3. t \in DOMAIN ringing_calls[c].targets /\ x \in ringing_calls[c].targets[t].notified_clients
  BY <1>1 DEF RungIn
<1>4. t \in RingingTargetsOf(ringing_calls[c], x) /\ ringing_calls[c].caller_id # x
  BY <1>2, <1>3 DEF BatchAnswerable, RingingTargetsOf
<1> QED  BY <1>2, <1>4 DEF RingsFor, IsRinging

\* A step to a state with the invariant preserves it.
LEMMA BecomesSound ==
    ASSUME NEW STATE s, Sound(s), Becomes(s)
    PROVE  Sound(Calls')
<1>1. s \in [ringing : {s.ringing}, active : {s.active}, incoming : {s.incoming}, busy : {s.busy}]
  BY DEF Sound, Inv, Ruled, Typed
<1>2. Calls' = s
  BY <1>1, CallsPrimed DEF Becomes
<1> QED  BY <1>2

\* reject_call and fail_ringing_recipient.
LEMMA RejectSound ==
    ASSUME Sound(Calls), NEW c \in CallIds, NEW x \in Clients, RejectCall(c, x)
    PROVE  Sound(Calls')
<1>1. CASE RingsFor(c, x)
  BY <1>1, MarkSound DEF RejectCall, RingsFor
<1>2. CASE ~RingsFor(c, x)
  <2> DEFINE r == [Calls EXCEPT !.incoming = Uninvite(@, c, {x})]
  <2>1. Sound(r)
    BY <1>2, NotMarkedNotRung, UnrungSound
  <2>2. Becomes(r)
    BY <1>2 DEF RejectCall, Becomes, Calls
  <2> QED  BY <2>1, <2>2, BecomesSound
<1> QED  BY <1>1, <1>2

\* call_error.
LEMMA ErrorSound ==
    ASSUME Sound(Calls), NEW c \in CallIds, NEW x \in Clients, CallError(c, x)
    PROVE  Sound(Calls')
<1>1. CASE RingsFor(c, x)
  BY <1>1, MarkSound DEF CallError, RingsFor
<1>2. CASE ~RingsFor(c, x)
  <2> DEFINE s == [Calls EXCEPT !.incoming = Uninvite(@, c, {x})]
  <2>1. Sound(s)
    BY <1>2, NotMarkedNotRung, UnrungSound
  <2>2. Sound(AfterEndCall(s, c, x))
    BY <2>1, EndCallSound
  <2>3. Becomes(AfterEndCall(s, c, x))
    BY <1>2 DEF CallError
  <2> QED  BY <2>2, <2>3, BecomesSound
<1> QED  BY <1>1, <1>2

\* A call with the same participants rings the same clients.
LEMMA RelabelledCallSound ==
    ASSUME NEW s, Sound(s), NEW c \in DOMAIN s.active, NEW new, IsActiveCallEntry(new),
           new.participants = s.active[c].participants,
           new.conference_leader = s.active[c].conference_leader
    PROVE  Sound([s EXCEPT !.active = [@ EXCEPT ![c] = new]])
<1> DEFINE r == [s EXCEPT !.active = [@ EXCEPT ![c] = new]]
<1>1. Inv(s) /\ Typed(s)
  BY DEF Sound, Inv, Ruled
<1>2. Inv(r)
  BY <1>1, RelabelledCallInv
<1>3. r.ringing = s.ringing /\ r.incoming = s.incoming /\ r.active = [s.active EXCEPT ![c] = new]
  BY <1>1 DEF Typed
<1> HIDE DEF r
<1>4. \A d, y : MemberIn(r, d, y) => MemberIn(s, d, y)
  BY <1>1, <1>3 DEF MemberIn, Typed
<1>5. \A y \in Clients, d \in CallIds, t \in Targets : IndexIn(r, d, t, y) <=> IndexIn(s, d, t, y)
  BY <1>3 DEF IndexIn
<1>6. Sound(r)
  BY <1>2, <1>3, <1>4, <1>5, RelabelledSound
<1> QED  BY <1>6 DEF r

\* report_link_failure, evicting or not.
LEMMA ReportSound ==
    ASSUME Sound(Calls), NEW c \in CallIds, NEW x \in Clients, NEW y \in Clients,
           ReportLinkFailure(c, x, y)
    PROVE  Sound(Calls')
<1> DEFINE recorded == RecordLinkReport(active_calls[c], x, y)
           reported == [Calls EXCEPT !.active[c] = recorded]
           evicted  == LaterJoiner(recorded, x, y)
<1>1. Typed(Calls) /\ Calls.active = active_calls
  BY DEF Sound, Inv, Ruled, Calls
<1>2. c \in DOMAIN active_calls
  BY DEF ReportLinkFailure, Participates, IsActive
<1>3. /\ IsActiveCallEntry(recorded)
      /\ recorded.participants = active_calls[c].participants
      /\ recorded.conference_leader = active_calls[c].conference_leader
  BY <1>1, <1>2, RecordedEntry DEF Typed
<1>4. reported = [Calls EXCEPT !.active = [@ EXCEPT ![c] = recorded]]
  OBVIOUS
<1>5. Sound(reported)
  <2> HIDE DEF recorded, reported
  <2> QED  BY <1>1, <1>2, <1>3, <1>4, RelabelledCallSound
<1>6. evicted \in Clients
  BY DEF LaterJoiner
<1>7. Sound(AfterEndCall(reported, c, evicted))
  BY <1>5, <1>6, EndCallSound
<1>8. Becomes(AfterEndCall(reported, c, evicted)) \/ Becomes(reported)
  BY DEF ReportLinkFailure
<1>9. CASE Becomes(AfterEndCall(reported, c, evicted))
  BY <1>7, <1>9, BecomesSound
<1>10. CASE Becomes(reported)
  BY <1>5, <1>10, BecomesSound
<1> QED  BY <1>8, <1>9, <1>10

\* The expiry of a link report.
LEMMA ExpirySound ==
    ASSUME Sound(Calls), NEW c \in CallIds, NEW pair, LinkReportExpires(c, pair)
    PROVE  Sound(Calls')
<1>1. Inv(Calls) /\ Typed(Calls)
  BY DEF Sound, Inv, Ruled
<1>2. Inv(Calls')
  BY <1>1, ExpiryKeeps DEF IndInv
<1>3. /\ Calls.ringing = ringing_calls /\ Calls.active = active_calls /\ Calls.incoming = client_incoming_calls
      /\ Calls'.ringing = ringing_calls' /\ Calls'.active = active_calls' /\ Calls'.incoming = client_incoming_calls'
  BY DEF Calls
<1>4. /\ active_calls' = [active_calls EXCEPT ![c].link_reports[pair].fresh = FALSE]
      /\ c \in DOMAIN active_calls
      /\ UNCHANGED <<ringing_calls, client_incoming_calls>>
  BY DEF LinkReportExpires, IsActive
<1>5. IsActiveCallEntry(active_calls[c])
  BY <1>1, <1>3, <1>4 DEF Typed
<1>6. \A d, y : MemberIn(Calls', d, y) => MemberIn(Calls, d, y)
  BY <1>3, <1>4, <1>5 DEF MemberIn, IsActiveCallEntry
<1>7. \A y \in Clients, d \in CallIds, t \in Targets : IndexIn(Calls', d, t, y) <=> IndexIn(Calls, d, t, y)
  BY <1>3, <1>4 DEF IndexIn
<1> QED  BY <1>2, <1>3, <1>4, <1>6, <1>7, RelabelledSound

-----------------------------------------------------------------------------
(* A disconnect. *)

\* The participant part of cleanup_client_calls.
LEMMA LeavingOwnCallSound ==
    ASSUME NEW s, Sound(s), NEW x \in Clients
    PROVE  Sound(AfterLeavingOwnCall(s, x))
<1> DEFINE after == AfterEndCall(s, s.busy[x], x)
           r     == AfterLeavingOwnCall(s, x)
<1>1. CASE x \notin DOMAIN s.busy
  BY <1>1 DEF AfterLeavingOwnCall
<1>2. CASE x \in DOMAIN s.busy
  <2>1. s.busy[x] \in CallIds
    BY <1>2 DEF Sound, Inv, Ruled, Typed, IsMap
  <2>2. Sound(after)
    BY <2>1, EndCallSound
  <2>3. Inv(r)
    BY LeavingOwnCallInv DEF Sound
  <2>4. r = [after EXCEPT !.busy = Remove(@, {x})]
    BY <1>2 DEF AfterLeavingOwnCall
  <2> HIDE DEF after, r
  <2>5. r.ringing = after.ringing /\ r.active = after.active /\ r.incoming = after.incoming
    BY <2>2, <2>4 DEF Sound, Inv, Ruled, Typed
  <2>6. /\ \A y \in Clients, d \in CallIds, t \in Targets : IndexIn(r, d, t, y) <=> IndexIn(after, d, t, y)
        /\ \A d, y : MemberIn(r, d, y) => MemberIn(after, d, y)
    BY <2>5 DEF IndexIn, MemberIn
  <2>7. Sound(r)
    BY <2>2, <2>3, <2>5, <2>6, RelabelledSound
  <2> QED  BY <2>7 DEF r
<1> QED  BY <1>1, <1>2

\* A client rung through one target of a batch is rung no longer, everybody else still is,
\* and the targets that are left have somebody to answer them.
LEMMA InviteeLeaves ==
    ASSUME NEW call, IsRingingCallEntry(call), BatchAnswerable(call), NEW x \in Clients,
           NEW t \in DOMAIN call.targets,
           \A u \in DOMAIN call.targets : x \in call.targets[u].notified_clients => u = t
    PROVE  LET left == WithoutInvitee(call, x, t)
           IN  /\ left.caller_id = call.caller_id
               /\ \A u, y : (u \in DOMAIN left.targets /\ y \in left.targets[u].notified_clients) <=>
                    (u \in DOMAIN call.targets /\ y \in call.targets[u].notified_clients /\ y # x)
               /\ AllTargetsFailed(left) <=> DOMAIN left.targets = {}
               /\ DOMAIN left.targets # {} => BatchAnswerable(left)
<1> DEFINE entry == [call.targets[t] EXCEPT !.notified_clients = @ \ {x}, !.failed_clients = @ \ {x}]
           gone  == entry.notified_clients = {}
           left  == WithoutInvitee(call, x, t)
<1>1. call.targets[t] \in RingingTargetEntry
  BY DEF IsRingingCallEntry, IsMap
<1>2. /\ entry.notified_clients = call.targets[t].notified_clients \ {x}
      /\ entry.failed_clients = call.targets[t].failed_clients \ {x}
  BY <1>1 DEF RingingTargetEntry
<1>3. left = IF gone THEN [call EXCEPT !.targets = Remove(@, {t})] ELSE [call EXCEPT !.targets = Put(@, t, entry)]
  BY DEF WithoutInvitee, AllRejectedOrErrored
<1> HIDE DEF entry, left
<1>4. /\ left.caller_id = call.caller_id
      /\ left.targets = IF gone THEN Remove(call.targets, {t}) ELSE Put(call.targets, t, entry)
  BY <1>3 DEF IsRingingCallEntry
<1>5. /\ DOMAIN left.targets = IF gone THEN DOMAIN call.targets \ {t} ELSE DOMAIN call.targets
      /\ \A u \in DOMAIN left.targets : left.targets[u] = IF u = t THEN entry ELSE call.targets[u]
  BY <1>4 DEF Remove, Restrict, Put
<1>6. \A u, y : (u \in DOMAIN left.targets /\ y \in left.targets[u].notified_clients) <=>
        (u \in DOMAIN call.targets /\ y \in call.targets[u].notified_clients /\ y # x)
  BY <1>2, <1>5
<1>7. \A u \in DOMAIN left.targets : /\ left.targets[u].notified_clients # {}
                                     /\ left.targets[u].notified_clients \cap left.targets[u].failed_clients = {}
  BY <1>2, <1>5 DEF BatchAnswerable
<1>8. AllTargetsFailed(left) <=> DOMAIN left.targets = {}
  BY <1>7 DEF AllTargetsFailed, AllRejectedOrErrored
<1>9. DOMAIN left.targets # {} => BatchAnswerable(left)
  BY <1>4, <1>6, <1>7 DEF BatchAnswerable
<1> QED  BY <1>4, <1>6, <1>8, <1>9 DEF left

\* The invitee part of cleanup_client_calls, for a client whose index is exact: every target
\* that rings it is found, and no other is touched.
LEMMA LapseSound ==
    ASSUME NEW s, Sound(s), NEW x \in Clients
    PROVE  LET gone == [s EXCEPT !.incoming[x] = Empty]
               r    == AfterInvitationsLapse(gone, x, s.incoming[x])
           IN  Inv(r) => Sound(r)
<1> DEFINE gone  == [s EXCEPT !.incoming[x] = Empty]
           found == s.incoming[x]
           r     == AfterInvitationsLapse(gone, x, found)
           rung  == DOMAIN found \cap DOMAIN s.ringing
           after == [c \in DOMAIN s.ringing |->
                       IF c \in rung THEN WithoutInvitee(s.ringing[c], x, found[c]) ELSE s.ringing[c]]
           ended == {c \in rung : AllTargetsFailed(after[c])}
<1> SUFFICES ASSUME Inv(r) PROVE Sound(r)
  OBVIOUS
<1>1. Typed(s) /\ IndexExact(s) /\ Answerable(s)
  BY DEF Sound, Inv, Ruled
<1>2. /\ gone.ringing = s.ringing /\ gone.active = s.active
      /\ gone.incoming = [s.incoming EXCEPT ![x] = Empty]
  BY <1>1 DEF Typed
<1>3. /\ gone = [ringing |-> s.ringing, active |-> s.active, incoming |-> gone.incoming, busy |-> s.busy]
  BY <1>1 DEF Typed
<1> HIDE DEF gone
<1>4. r.ringing = Remove(after, ended) /\ r.active = s.active /\ r.incoming = gone.incoming
  BY <1>2, <1>3 DEF AfterInvitationsLapse
<1>5. DOMAIN after = DOMAIN s.ringing
  OBVIOUS
<1>6. ASSUME NEW c \in DOMAIN s.ringing
      PROVE  /\ \A u, y : (u \in DOMAIN after[c].targets /\ y \in after[c].targets[u].notified_clients) <=>
                  RungIn(s, c, u, y) /\ y # x
             /\ c \in ended <=> DOMAIN after[c].targets = {}
             /\ c \notin ended => BatchAnswerable(after[c])
  <2>1. c \in CallIds /\ IsRingingCallEntry(s.ringing[c]) /\ BatchAnswerable(s.ringing[c])
    BY <1>1 DEF Typed, Answerable
  <2>2. CASE c \in DOMAIN found
    <3> DEFINE t == found[c]
    <3>1. t \in Targets
      BY <1>1, <2>2 DEF Typed, IsMap
    <3>2. RungIn(s, c, t, x)
      BY <1>1, <2>1, <2>2, <3>1 DEF IndexExact, IndexIn
    <3>3. \A u \in DOMAIN s.ringing[c].targets : x \in s.ringing[c].targets[u].notified_clients => u = t
      BY <1>1, <3>2, RungOnce DEF RungIn
    <3>4. t \in DOMAIN s.ringing[c].targets
      BY <3>2 DEF RungIn
    <3>5. after[c] = WithoutInvitee(s.ringing[c], x, t) /\ (c \in ended <=> AllTargetsFailed(after[c]))
      BY <2>2
    <3> HIDE DEF after, ended, t
    <3> QED  BY <2>1, <3>3, <3>4, <3>5, InviteeLeaves DEF RungIn
  <2>3. CASE c \notin DOMAIN found
    <3>1. after[c] = s.ringing[c] /\ c \notin ended
      BY <2>3
    <3>2. \A u : ~RungIn(s, c, u, x)
      BY <1>1, <2>1, <2>3, RungTypes DEF IndexExact, IndexIn
    <3> HIDE DEF after, ended
    <3> QED  BY <2>1, <3>1, <3>2 DEF RungIn, BatchAnswerable
  <2> QED  BY <2>2, <2>3
<1> HIDE DEF after, ended
<1>7. DOMAIN r.ringing = DOMAIN s.ringing \ ended /\ \A d \in DOMAIN r.ringing : r.ringing[d] = after[d]
  BY <1>4, <1>5 DEF Remove, Restrict
<1> HIDE DEF r
<1>8. \A d, u, y : RungIn(r, d, u, y) <=> RungIn(s, d, u, y) /\ y # x
  <2> SUFFICES ASSUME NEW d, NEW u, NEW y PROVE RungIn(r, d, u, y) <=> RungIn(s, d, u, y) /\ y # x
    OBVIOUS
  <2>1. CASE d \in DOMAIN s.ringing
    BY <1>6, <1>7, <2>1 DEF RungIn
  <2>2. CASE d \notin DOMAIN s.ringing
    BY <1>7, <2>2 DEF RungIn
  <2> QED  BY <2>1, <2>2
<1>9. IndexExact(r)
  <2> SUFFICES ASSUME NEW y \in Clients, NEW d \in CallIds, NEW t \in Targets
               PROVE  IndexIn(r, d, t, y) <=> RungIn(r, d, t, y)
    BY DEF IndexExact
  <2>1. IndexIn(s, d, t, y) <=> RungIn(s, d, t, y)
    BY <1>1 DEF IndexExact
  <2>2. y # x => r.incoming[y] = s.incoming[y]
    BY <1>1, <1>2, <1>4 DEF Typed
  <2>3. DOMAIN r.incoming[x] = {}
    BY <1>1, <1>2, <1>4 DEF Typed, Empty
  <2> QED  BY <1>8, <2>1, <2>2, <2>3 DEF IndexIn
<1>10. Answerable(r)
  <2>1. \A d \in DOMAIN r.ringing : BatchAnswerable(r.ringing[d])
    BY <1>6, <1>7
  <2>2. \A d, y : MemberIn(r, d, y) <=> MemberIn(s, d, y)
    BY <1>4 DEF MemberIn
  <2>3. \A d, u, y : RungIn(s, d, u, y) => ~MemberIn(s, d, y)
    BY <1>1 DEF Answerable
  <2> QED  BY <1>8, <2>1, <2>2, <2>3 DEF Answerable
<1> QED  BY <1>9, <1>10 DEF Sound

\* cleanup_client_calls.
LEMMA CleanupSound ==
    ASSUME Sound(Calls), NEW x \in Clients, CleanupClientCalls(x)
    PROVE  Sound(Calls')
<1> DEFINE left == AfterLeavingOwnCall(Calls, x)
           r    == AfterInvitationsLapse([left EXCEPT !.incoming[x] = Empty], x, left.incoming[x])
<1>1. Sound(left)
  BY LeavingOwnCallSound
<1>2. Becomes(r)
  BY DEF CleanupClientCalls
<1>3. Inv(Calls')
  BY CleanupKeeps DEF IndInv, Sound
<1>4. Calls' = [ringing |-> r.ringing, active |-> r.active, incoming |-> r.incoming, busy |-> r.busy]
  BY <1>2, CallsPrimed DEF Becomes
<1>5. Calls' = r
  <2>1. left \in [ringing : {left.ringing}, active : {left.active}, incoming : {left.incoming}, busy : {left.busy}]
    BY <1>1 DEF Sound, Inv, Ruled, Typed
  <2> DEFINE gone == [left EXCEPT !.incoming[x] = Empty]
  <2> HIDE DEF left
  <2>2. gone \in [ringing : {gone.ringing}, active : {gone.active}, incoming : {gone.incoming}, busy : {gone.busy}]
    BY <2>1
  <2> HIDE DEF gone
  <2>3. PICK f, g : r = [gone EXCEPT !.ringing = f, !.busy = g]
    BY DEF AfterInvitationsLapse, gone
  <2> HIDE DEF r
  <2>4. r \in [ringing : {f}, active : {gone.active}, incoming : {gone.incoming}, busy : {g}]
    BY <2>2, <2>3
  <2> QED  BY <1>4, <2>4
<1> HIDE DEF left
<1> QED  BY <1>1, <1>3, <1>5, LapseSound

-----------------------------------------------------------------------------
(* The theorems. *)

\* The invariant of the call manager's own state.
SoundInv == Sound(Calls)

\* A new call manager rings nobody.
LEMMA InitSound == Init => SoundInv
<1> SUFFICES ASSUME Init PROVE Sound(Calls)
  BY DEF SoundInv
<1>1. Inv(Calls)
  BY InitInv DEF IndInv
<1>2. DOMAIN Calls.ringing = {} /\ \A x \in Clients : DOMAIN Calls.incoming[x] = {}
  BY DEF Init, Calls, Empty
<1> QED  BY <1>1, <1>2 DEF Sound, IndexExact, IndexIn, RungIn, Answerable

\* Every step of the call manager keeps the invitations sound.
LEMMA NextSound == SoundInv /\ [Next]_vars => SoundInv'
<1> SUFFICES ASSUME Sound(Calls), [Next]_vars PROVE Sound(Calls')
  BY DEF SoundInv
<1>1. ASSUME NEW c \in CallIds, NEW x \in Clients, NEW t \in Targets,
             NEW st \in SourceTargets[x], NEW resolved \in Resolves[t], resolved \ {x} # {},
             AttemptCall(c, x, [client_id |-> x, target |-> st], t, resolved \ {x})
      PROVE  Sound(Calls')
  <2>1. st \in Targets /\ resolved \ {x} \in SUBSET Clients /\ x \notin resolved \ {x}
    BY ResolutionTypes
  <2> QED  BY <1>1, <2>1, AttemptSound
<1>2. ASSUME NEW c \in CallIds, NEW x \in Clients, EndCall(c, x)
      PROVE  Sound(Calls')
  BY <1>2, EndCallSound, BecomesSound DEF EndCall
<1>3. ASSUME NEW c \in CallIds, NEW x \in Clients, NEW t \in Targets,
             NEW reason \in DropReasons, DropTarget(c, x, t, reason)
      PROVE  Sound(Calls')
  <2>1. CASE DropRingingTarget(c, x, t)
    BY <2>1, DropRingingSound
  <2>2. CASE DropJoinedParticipant(c, x, t, reason)
    <3>1. PICK dropped \in Clients : EndCall(c, dropped)
      BY <2>2, DropJoinedIsLeave DEF Sound, Inv, Ruled
    <3> QED  BY <1>2, <3>1
  <2> QED  BY <1>3, <2>1, <2>2 DEF DropTarget
<1>4. ASSUME NEW c \in CallIds, NEW x \in Clients,
             AcceptCall(c, x) \/ RejectCall(c, x) \/ CallError(c, x)
      PROVE  Sound(Calls')
  BY <1>4, AcceptSound, RejectSound, ErrorSound
<1>5. ASSUME NEW c \in CallIds, NEW pair \in FlakyLinks, NEW x \in pair, NEW y \in pair,
             ReportLinkFailure(c, x, y)
      PROVE  Sound(Calls')
  <2>1. x \in Clients /\ y \in Clients
    BY ResolutionTypes
  <2> QED  BY <1>5, <2>1, ReportSound
<1>6. ASSUME NEW c \in CallIds, NEW pair \in FlakyLinks, LinkReportExpires(c, pair)
      PROVE  Sound(Calls')
  BY <1>6, ExpirySound
<1>7. ASSUME NEW x \in Clients, CleanupClientCalls(x)
      PROVE  Sound(Calls')
  BY <1>7, CleanupSound
<1>8. CASE UNCHANGED vars
  <2>1. Calls' = Calls
    BY <1>8 DEF vars, Calls
  <2> QED  BY <2>1
<1> QED  BY <1>1, <1>2, <1>3, <1>4, <1>5, <1>6, <1>7, <1>8 DEF Next

\* The invitations are sound in every reachable state of the call manager.
THEOREM InvitationInvariant == Spec => []SoundInv
BY InitSound, NextSound, PTL DEF Spec

\* The invariant implies IncomingIndexIsExact.
LEMMA SoundIndexed == SoundInv => IncomingIndexIsExact
BY DEF SoundInv, Sound, IndexExact, IndexIn, RungIn, Calls, IncomingIndexIsExact, IsRinging

\* A client's index names a call and a target exactly while that target rings it, whichever
\* way the invitation began and ended: attempt_call, accept_call, reject_call, call_error,
\* drop_target, end_call and cleanup_client_calls keep client_incoming_calls in step.
THEOREM IncomingIndicesAreExact == Spec => []IncomingIndexIsExact
BY InvitationInvariant, SoundIndexed, PTL

\* The invariant implies PendingInvitationsAreSound.
LEMMA SoundPending == SoundInv => PendingInvitationsAreSound
<1> SUFFICES ASSUME Sound(Calls), NEW c \in DOMAIN ringing_calls
             PROVE  LET call == ringing_calls[c]
                        T    == DOMAIN call.targets
                    IN  /\ T # {}
                        /\ IsActive(c) => /\ Participates(c, call.caller_id)
                                          /\ active_calls[c].conference_leader \in {None, call.caller_id}
                        /\ \A t \in T :
                             /\ call.targets[t].source.client_id = call.caller_id
                             /\ call.targets[t].notified_clients # {}
                             /\ call.targets[t].notified_clients \cap call.targets[t].failed_clients = {}
                             /\ call.caller_id \notin call.targets[t].notified_clients
                             /\ \A x \in call.targets[t].notified_clients : ~Participates(c, x)
                        /\ \A t, u \in T : t # u =>
                             call.targets[t].notified_clients \cap call.targets[u].notified_clients = {}
  BY DEF PendingInvitationsAreSound, SoundInv
<1>1. Typed(Calls) /\ BatchesOwned(Calls) /\ IndexExact(Calls) /\ Answerable(Calls)
  BY DEF Sound, Inv, Ruled
<1>2. Calls.ringing = ringing_calls /\ Calls.active = active_calls
  BY DEF Calls
<1>3. BatchAnswerable(ringing_calls[c])
  BY <1>1, <1>2 DEF Answerable
<1>4. /\ \A t \in DOMAIN ringing_calls[c].targets :
           ringing_calls[c].targets[t].source.client_id = ringing_calls[c].caller_id
      /\ IsActive(c) => /\ Participates(c, ringing_calls[c].caller_id)
                        /\ active_calls[c].conference_leader \in {None, ringing_calls[c].caller_id}
  BY <1>1, <1>2 DEF BatchesOwned, MemberIn, IsActive, Participates, ParticipantsOf
<1>5. \A t \in DOMAIN ringing_calls[c].targets : \A x \in ringing_calls[c].targets[t].notified_clients :
        RungIn(Calls, c, t, x)
  BY <1>2 DEF RungIn
<1>6. \A t \in DOMAIN ringing_calls[c].targets : \A x \in ringing_calls[c].targets[t].notified_clients :
        ~Participates(c, x)
  BY <1>1, <1>2, <1>5 DEF Answerable, MemberIn, Participates, IsActive, ParticipantsOf
<1>7. \A t, u \in DOMAIN ringing_calls[c].targets : t # u =>
        ringing_calls[c].targets[t].notified_clients \cap ringing_calls[c].targets[u].notified_clients = {}
  BY <1>1, <1>5, RungOnce
<1> QED  BY <1>3, <1>4, <1>6, <1>7 DEF BatchAnswerable

\* No invitation outlives its inviter, rings somebody who is in the call or rings one client
\* twice, and no target keeps ringing with nobody left to answer it.
THEOREM InvitationsAreSound == Spec => []PendingInvitationsAreSound
BY InvitationInvariant, SoundPending, PTL

=============================================================================
