---------------------------- MODULE FrontendCalls ----------------------------
(***************************************************************************)
(* The call store of one frontend (vacs-client/frontend/src/stores:        *)
(* call-store.ts, blink-store.ts, call-list-store.ts), the keys that act   *)
(* on it, and the backend it talks to.  Events of the backend arrive in    *)
(* order; the reply to a command takes another way and may come before or  *)
(* after events that are older or newer.  The store is a record, and each  *)
(* of its actions a function from the store before it to the store after.  *)
(* A target is the client behind it, lists of targets are sets, and cpl    *)
(* stands for everything outside the store that blinks (CPL, a paused      *)
(* playback).                                                              *)
(***************************************************************************)
EXTENDS Naturals, Sequences, FiniteSets, TLC

CONSTANTS Me, Peers, Calls, None,
          MaxConferenceSize,  \* the size the server reported
          EndActive,          \* the setting endActiveCallOnAccept
          Prompt,             \* nothing else happens while a command is under way
          LateAnswers,        \* the last target may answer while it is given up
          Prios,              \* priorities a call may be started with
          MaxServer,          \* bound on what the server and the links do
          MaxUser,            \* bound on clicks
          MaxFails,           \* bound on commands that fail
          MaxAsked            \* bound on commands under way at once

VARIABLES store,   \* the stores of the frontend
          cur,     \* the backend's current call
          rings,   \* the backend's incoming calls
          events,  \* emitted, not yet handled
          asked,   \* commands under way
          used,    \* the ids of calls so far
          left     \* what is left of the bounds

vars == <<store, cur, rings, events, asked, used, left>>

Empty == [x \in {} |-> x]
Put(f, x, v) == (x :> v) @@ f
Without(f, xs) == [x \in DOMAIN f \ xs |-> f[x]]

\* CallDisplay, and its absence.
NoDisplay ==
    [type |-> "none", id |-> None, source |-> Me, target |-> Me, invited |-> {}, joined |-> Empty,
     own |-> {}, leader |-> "none", prio |-> {}, rejected |-> {}, errored |-> {}]

NoCall == [id |-> None, source |-> Me, invited |-> {}, joined |-> {}, leader |-> "none", owed |-> {}]

\* isTerminalCallDisplay
Terminal(d) == d.type \in {"rejected", "error"}
Live(d) == d.type \in {"outgoing", "accepted"}

\* The parties of a display, and otherPartyCount.
Parties(d) == d.invited \cup DOMAIN d.joined
ParticipantCount(joined) == Cardinality(joined)
OtherPartyCount(invited, joined) ==
    Cardinality(invited) + (IF joined = {} THEN 0 ELSE ParticipantCount(joined) - 1)
Others(d) == OtherPartyCount(d.invited, DOMAIN d.joined)

-----------------------------------------------------------------------------
(* blink-store.ts                                                           *)

\* prioTargetRinging
PrioTargetRinging(d) == d.prio \cap d.invited # {}

ShouldStopBlinking(s) ==
    LET d == s.display
    IN  /\ ~s.cpl
        /\ DOMAIN s.incoming = {}
        /\ s.conf # "modify"
        /\ \/ d.type = "none"
           \/ /\ ~PrioTargetRinging(d)
              /\ d.type = "outgoing" \/ (d.type = "accepted" /\ d.rejected = {} /\ d.errored = {})

StartBlink(s) == [s EXCEPT !.blink = TRUE]

\* tryStopBlink: seen is the store with the values the caller passes.
TryStopBlink(s, seen) == IF ShouldStopBlinking(seen) THEN [s EXCEPT !.blink = FALSE] ELSE s

-----------------------------------------------------------------------------
(* call-list-store.ts                                                       *)

\* addIncomingCallListEntry, addOutgoingCallListEntry
AddListEntry(s, c, targets) ==
    [s EXCEPT !.list = Put(@, c, [targets |-> targets, answered |-> "open"])]

\* updateCallListEntry: an empty list of targets leaves the old one.
UpdateListEntry(s, c, targets, answered) ==
    IF c \notin DOMAIN s.list THEN s
    ELSE [s EXCEPT !.list[c] =
            [targets |-> IF targets = {} THEN @.targets ELSE targets,
             answered |-> IF answered = "open" THEN @.answered ELSE answered]]

\* rejectCallListEntryIfUnanswered
RejectCallListEntryIfUnanswered(s, c) ==
    IF c \in DOMAIN s.list /\ s.list[c].answered = "yes" THEN s ELSE UpdateListEntry(s, c, {}, "no")

\* addTargetsToCallListEntry, removeTargetsFromCallListEntry
ExtendListEntry(s, c, targets) ==
    IF c \in DOMAIN s.list THEN UpdateListEntry(s, c, s.list[c].targets \cup targets, "open") ELSE s
ShortenListEntry(s, c, targets) ==
    IF c \in DOMAIN s.list THEN UpdateListEntry(s, c, s.list[c].targets \ targets, "open") ELSE s

\* callListTargets
CallListTargets(u) == (u.joined \ {Me}) \cup u.invited

-----------------------------------------------------------------------------
(* The actions of call-store.ts.                                            *)

\* setOutgoingCall
SetOutgoingCall(s, e) ==
    [(IF e.prio THEN StartBlink(s) ELSE s) EXCEPT !.display =
        [NoDisplay EXCEPT !.type = "outgoing", !.id = e.id, !.target = CHOOSE t \in e.targets : TRUE,
            !.invited = e.targets, !.own = e.targets,
            !.leader = IF Cardinality(e.targets) > 1 THEN "me" ELSE "none",
            !.prio = IF e.prio THEN e.targets ELSE {}]]

\* addInvitedTargets
AddInvitedTargets(s, targets, prio) ==
    LET added == IF prio THEN targets \ s.display.prio ELSE {}
        t == [s EXCEPT !.conf = "active",
                !.display.invited = @ \cup targets, !.display.own = @ \cup targets,
                !.display.leader = "me", !.display.prio = @ \cup added,
                !.display.rejected = @ \ targets, !.display.errored = @ \ targets]
        l == ExtendListEntry(t, s.display.id, targets)
    IN  IF added # {} THEN StartBlink(l) ELSE l

ApplyOutgoingCall(s, e) ==
    IF s.display.id = e.id
    THEN IF Terminal(s.display) THEN s ELSE AddInvitedTargets(s, e.targets, e.prio)
    ELSE AddListEntry(SetOutgoingCall(s, e), e.id, e.targets)

\* The accepted call of an invitation.
AcceptedDisplay(c, call) ==
    [NoDisplay EXCEPT !.type = "accepted", !.id = c, !.source = call.source, !.invited = call.invited,
        !.joined = Put([p \in call.joined |-> "connecting"], Me, "connected"),
        !.leader = call.leader, !.prio = IF call.prio THEN {call.source} ELSE {}]

AcceptIncomingCall(s, c) ==
    LET rest == Without(s.incoming, {c})
        t == TryStopBlink(s, [s EXCEPT !.incoming = rest])
    IN  IF c \notin DOMAIN s.incoming THEN s
        ELSE [UpdateListEntry(t, c, {}, "yes") EXCEPT !.incoming = rest,
                !.display = AcceptedDisplay(c, s.incoming[c])]

EndCall(s) ==
    LET t == [s EXCEPT !.display = NoDisplay, !.conf = "inactive"] IN TryStopBlink(t, t)

AddIncomingCall(s, c, call) == [StartBlink(s) EXCEPT !.incoming = Put(@, c, call)]

\* The source and the target of a display are replaced when they are gone from
\* the call: by somebody who rings, else by somebody who joined.
KeepTarget(d, u) == d.target
NextTarget(d, u) ==
    LET here == u.invited \cup u.joined
    IN  IF d.target \in here THEN d.target
        ELSE IF u.invited # {} THEN CHOOSE t \in u.invited : TRUE
        ELSE IF u.joined \ {Me} # {} THEN CHOOSE t \in u.joined \ {Me} : TRUE
        ELSE d.target
NextSource(d, u) ==
    IF d.source \in u.invited \cup u.joined \/ u.joined \ {Me} = {} THEN d.source
    ELSE CHOOSE p \in u.joined \ {Me} : TRUE

\* The display an update leaves.
UpdatedDisplay(d, u) ==
    LET here == u.invited \cup u.joined
    IN  [d EXCEPT
          !.type = IF u.joined # {} THEN "accepted" ELSE @,
          !.source = NextSource(d, u), !.target = NextTarget(d, u), !.invited = u.invited,
          !.joined = [p \in u.joined |-> IF p \in DOMAIN @ THEN @[p]
                                         ELSE IF p = Me THEN "connected" ELSE "connecting"],
          !.leader = u.leader, !.prio = @ \cap here, !.rejected = @ \ here, !.errored = @ \ here]

UpdateCall(s, u) ==
    LET rung == [s EXCEPT !.incoming[u.id] = [@ EXCEPT !.invited = u.invited, !.joined = u.joined,
                                                       !.leader = u.leader]]
        t == [s EXCEPT !.display = UpdatedDisplay(s.display, u),
                       !.conf = IF OtherPartyCount(u.invited, u.joined) < 2 THEN "inactive" ELSE @]
        accepted == s.display.type = "outgoing" /\ u.joined # {}
        l == UpdateListEntry(t, u.id, CallListTargets(u), IF accepted THEN "yes" ELSE "open")
    IN  IF u.id \in DOMAIN s.incoming THEN UpdateListEntry(rung, u.id, CallListTargets(u), "open")
        ELSE IF s.display.id # u.id \/ Terminal(s.display) THEN s
        ELSE TryStopBlink(l, l)

RemoveCall(s, c, callEnd) ==
    LET ends == /\ s.display.id = c
                /\ ~Terminal(s.display)
                /\ ~callEnd \/ s.display.type # "outgoing"
        t == [s EXCEPT !.incoming = Without(@, {c}),
                       !.display = IF ends THEN NoDisplay ELSE @,
                       !.conf = IF ends THEN "inactive" ELSE @]
    IN  TryStopBlink(RejectCallListEntryIfUnanswered(t, c), t)

\* The targets that are gone from a display take their priority along.
Trimmed(d) == [d EXCEPT !.prio = @ \cap Parties(d)]

\* A conference of one other party is none.
SettleConference(s) == IF Others(s.display) < 2 THEN [s EXCEPT !.conf = "inactive"] ELSE s

CancelInvitedTarget(s, c, t) ==
    LET u == SettleConference([s EXCEPT !.display = Trimmed([@ EXCEPT !.invited = @ \ {t}])])
    IN  IF s.display.id # c \/ Terminal(s.display) THEN s ELSE TryStopBlink(u, u)

\* What is left of a call after some of its targets failed: if nobody is, the
\* display tells how the call ended until it is dismissed.
AfterLoss(s, d, how) ==
    LET over == Others(d) = 0
        t == SettleConference([s EXCEPT !.display = [d EXCEPT !.type = IF over THEN how ELSE @]])
    IN  StartBlink(IF over THEN RejectCallListEntryIfUnanswered(t, d.id) ELSE t)

RejectTargets(s, c, all) ==
    LET targets == all \ DOMAIN s.display.joined
        d == Trimmed([s.display EXCEPT !.invited = @ \ targets, !.rejected = @ \cup targets])
    IN  IF s.display.id # c THEN RemoveCall(s, c, FALSE)
        ELSE IF Terminal(s.display) \/ targets = {} THEN s
        ELSE AfterLoss(s, d, "rejected")

\* The targets an error is about: all, some that have not joined, or the one of
\* a client that has.
Blamed(d, e) ==
    CASE e.origin = "call"    -> Parties(d) \ {Me}
      [] e.origin = "targets" -> e.targets \ DOMAIN d.joined
      [] e.origin = "client"  -> e.targets \cap DOMAIN d.joined

ErrorTargets(s, e) ==
    LET d == s.display
        targets == Blamed(d, e)
        over == e.origin = "call" \/ e.ended
        next == Trimmed([d EXCEPT
                   !.invited = IF over THEN {} ELSE @ \ targets,
                   !.joined = IF over THEN Empty ELSE Without(@, targets),
                   !.errored = @ \cup targets])
    IN  IF d.id # e.id THEN RemoveCall(s, e.id, FALSE)
        ELSE IF Terminal(d) \/ (e.origin # "call" /\ targets = {}) THEN s
        ELSE AfterLoss(s, next, "error")

\* dismissRejectedCall, dismissErrorCall
DismissCall(s) == LET t == [s EXCEPT !.display = NoDisplay] IN TryStopBlink(t, t)

\* setDismissedDisplay, after dismissRejectedTarget or dismissErrorTarget
SetDismissedDisplay(s, d) ==
    LET cleared == Terminal(d) /\ d.rejected = {} /\ d.errored = {}
        t == IF cleared THEN [s EXCEPT !.display = NoDisplay, !.conf = "inactive"]
             ELSE [s EXCEPT !.display = d]
    IN  TryStopBlink(t, t)
DismissTarget(s, t) ==
    SetDismissedDisplay(s, IF t \in s.display.rejected THEN [s.display EXCEPT !.rejected = @ \ {t}]
                           ELSE [s.display EXCEPT !.errored = @ \ {t}])

SetConnectionState(s, c, p, state) ==
    IF s.display.id # c \/ Terminal(s.display) \/ p \notin DOMAIN s.display.joined THEN s
    ELSE [s EXCEPT !.display.joined[p] = state]

SetConferenceState(s, state) ==
    LET t == IF state = "modify" THEN StartBlink(s)
             ELSE TryStopBlink(s, [s EXCEPT !.conf = "inactive"])
    IN  [t EXCEPT !.conf = state]

\* reset and clearCallList, when the connection to the server is gone
Reset(s) ==
    LET t == [s EXCEPT !.display = NoDisplay, !.incoming = Empty, !.conf = "inactive", !.list = Empty]
    IN  TryStopBlink(t, t)

RollBackInvite(s, snap, targets, conf) ==
    LET t == [s EXCEPT !.conf = conf,
                !.display = [@ EXCEPT
                   !.invited = @ \ targets, !.own = @ \ targets,
                   !.leader = IF @ = "me" /\ snap.leader # "me" THEN snap.leader ELSE @,
                   !.prio = @ \ targets,
                   !.rejected = @ \cup (snap.rejected \cap targets),
                   !.errored = @ \cup (snap.errored \cap targets)]]
        l == ShortenListEntry(t, snap.id, targets)
    IN  IF s.display.id # snap.id THEN s ELSE TryStopBlink(l, l)

\* The listeners: what the frontend does on an event.
Handle(s, e) ==
    CASE e.k = "add-incoming-to-call-list" -> AddListEntry(s, e.id, {e.source})
      [] e.k = "call-invitation"      -> AddIncomingCall(s, e.id, e.call)
      [] e.k = "outgoing-call"        -> ApplyOutgoingCall(s, e)
      [] e.k = "accept-incoming-call" -> AcceptIncomingCall(s, e.id)
      [] e.k = "call-update"          -> UpdateCall(s, e)
      [] e.k = "call-end"             -> RemoveCall(s, e.id, TRUE)
      [] e.k = "force-call-end"       -> RemoveCall(s, e.id, FALSE)
      [] e.k = "call-reject"          -> RejectTargets(s, e.id, e.targets)
      [] e.k = "call-error"           -> ErrorTargets(s, e)
      [] e.k = "call-connected"       -> SetConnectionState(s, e.id, e.peer, "connected")
      [] e.k = "call-reconnecting"    -> SetConnectionState(s, e.id, e.peer, "connecting")
      [] e.k = "disconnected"         -> Reset(s)

HandleEvent ==
    /\ events # <<>>
    /\ store' = Handle(store, Head(events))
    /\ events' = Tail(events)
    /\ UNCHANGED <<cur, rings, asked, used, left>>

-----------------------------------------------------------------------------
(* The backend: its calls and the events it emits (app/state/signaling.rs,  *)
(* app/state/webrtc.rs).                                                    *)

Event(k, c) == [k |-> k, id |-> c]
Update(r) == [k |-> "call-update", id |-> r.id, invited |-> r.invited, joined |-> r.joined,
              leader |-> r.leader]
Failure(c, origin, targets, ended) ==
    [k |-> "call-error", id |-> c, origin |-> origin, targets |-> targets, ended |-> ended]

Spend(what) == left[what] > 0 /\ left' = [left EXCEPT ![what] = @ - 1]

\* Something the server or a link does; it waits its turn in a prompt system.
ServerStep(emitted) ==
    /\ Prompt => asked = {} /\ events = <<>>
    /\ Spend("server")
    /\ events' = events \o emitted
    /\ UNCHANGED <<store, asked>>

\* CallInvitation
RingUp(c, p, prio) ==
    LET call == [source |-> p, invited |-> {}, joined |-> {}, leader |-> "none", prio |-> prio]
    IN  /\ c \notin used
        /\ p # cur.source /\ p \notin cur.invited \cup cur.joined
        /\ used' = used \cup {c}
        /\ rings' = Put(rings, c, call)
        /\ ServerStep(<<[k |-> "add-incoming-to-call-list", id |-> c, source |-> p],
                        [k |-> "call-invitation", id |-> c, call |-> call]>>)
        /\ UNCHANGED cur

\* CallUpdate of a call that rings: somebody else has answered it.
UpdateRinging(c, p) ==
    /\ c \in DOMAIN rings /\ p \notin rings[c].joined \cup {rings[c].source}
    /\ rings' = [rings EXCEPT ![c].joined = @ \cup {p, rings[c].source}, ![c].leader = "other"]
    /\ ServerStep(<<Update([rings[c] EXCEPT !.joined = @ \cup {p, rings[c].source}, !.leader = "other"]
                             @@ [id |-> c])>>)
    /\ UNCHANGED <<cur, used>>

\* CallCancelled or CallEnd of a call that rings.
CancelRinging(c) ==
    /\ c \in DOMAIN rings
    /\ rings' = Without(rings, {c})
    /\ ServerStep(<<Event("call-end", c)>>)
    /\ UNCHANGED <<cur, used>>

\* The calls the server may report next: a target joins (the acceptance of an
\* incoming call brings its caller), somebody leaves or is no longer rung,
\* somebody else invites, or nothing but what the backend already assumed.
Rosters(r) ==
    LET caller == IF Me \in r.joined THEN {} ELSE {r.source}
        late   == IF LateAnswers \/ r.invited \cup r.joined # {} THEN r.owed \ r.joined ELSE {}
        joins  == {[r EXCEPT !.invited = @ \ {p}, !.joined = @ \cup {p, Me} \cup caller] :
                      p \in r.invited \cup late \cup (caller \ {Me})}
        leaves == {[r EXCEPT !.joined = @ \ {p}] : p \in r.joined \ {Me}}
        drops  == {[r EXCEPT !.invited = @ \ {p}] : p \in r.invited}
        adds   == {[r EXCEPT !.invited = @ \cup {p}] :
                      p \in IF Me \in r.joined THEN Peers \ (r.invited \cup r.joined) ELSE {}}
        echo   == IF r.owed # {} THEN {[r EXCEPT !.joined = @ \ r.owed, !.invited = @ \ r.owed]} ELSE {}
        led(q) == {[q EXCEPT !.leader = x, !.owed = {}] :
                      x \in IF q.joined = {} \/ OtherPartyCount(q.invited, q.joined) < 2
                            THEN {"none"} ELSE {"me", "other"}}
    IN  UNION {led(q) : q \in joins \cup leaves \cup drops \cup adds \cup echo}

Lasts(r) == r.invited \cup r.joined # {} /\ Cardinality(r.joined) # 1

\* CallUpdate of the current call.
UpdateCurrent ==
    /\ cur.id # None
    /\ \E r \in Rosters(cur) :
          IF Lasts(r)
          THEN cur' = r /\ ServerStep(<<Update(r)>>)
          ELSE /\ cur' = NoCall
               /\ \E k \in {"call-end", "force-call-end"} :
                     /\ k = "call-end" => cur.joined # {}
                     /\ ServerStep(<<Event(k, cur.id)>>)
    /\ UNCHANGED <<rings, used>>

\* A target of the current call is lost: the event about it, then the update of
\* those that remain.
LoseTarget(p, lost) ==
    LET r == [cur EXCEPT !.invited = @ \ {p}]
    IN  /\ p \in cur.invited
        /\ IF r.invited \cup r.joined = {}
           THEN cur' = NoCall /\ ServerStep(<<lost>>)
           ELSE cur' = r /\ ServerStep(<<lost, Update(r)>>)
        /\ UNCHANGED <<rings, used>>

\* CallCancelled(Rejected)
RejectCurrent(p) ==
    LoseTarget(p, [k |-> "call-reject", id |-> cur.id, targets |-> {p}])

\* CallCancelled(Errored), TargetsNotFound, MaxConferenceSizeReached
ErrorCurrent(p) == LoseTarget(p, Failure(cur.id, "targets", {p}, FALSE))

\* The timer of start_unanswered_call_timer_for_targets
HangUpUnanswered(p) ==
    /\ p \in cur.invited
    /\ cur' = [cur EXCEPT !.invited = @ \ {p}, !.owed = @ \cup {p}]
    /\ ServerStep(<<Failure(cur.id, "targets", {p}, FALSE)>>)
    /\ UNCHANGED <<rings, used>>

\* fail_peer: the server's update that removes the peer is still to come,
\* unless no link is left.
FailPeer(p) ==
    LET failed == Failure(cur.id, "client", {p}, FALSE)
    IN  /\ Me \in cur.joined /\ p \in cur.joined \ {Me}
        /\ IF cur.joined \ (cur.owed \cup {p, Me}) = {}
           THEN cur' = NoCall /\ ServerStep(<<failed, Event("force-call-end", cur.id)>>)
           ELSE cur' = [cur EXCEPT !.owed = @ \cup {p}] /\ ServerStep(<<failed>>)
        /\ UNCHANGED <<rings, used>>

\* fail_call, CallError of the whole call, and the eviction after a link to p
\* failed, which the end of the call follows
FailCall ==
    /\ cur.id # None
    /\ cur' = NoCall
    /\ \/ ServerStep(<<Failure(cur.id, "call", {}, FALSE), Event("force-call-end", cur.id)>>)
       \/ \E p \in cur.joined \ {Me} :
             ServerStep(<<Failure(cur.id, "client", {p}, TRUE), Event("call-end", cur.id)>>)
    /\ UNCHANGED <<rings, used>>

\* The links: a peer is connected, or its connection is interrupted.
ChangeLink(p, k) ==
    /\ Me \in cur.joined /\ p \in cur.joined \ {Me}
    /\ ServerStep(<<Event(k, cur.id) @@ [peer |-> p]>>)
    /\ UNCHANGED <<cur, rings, used>>

\* handle_signaling_connection_closed
Disconnect ==
    /\ cur' = NoCall /\ rings' = Empty
    /\ ServerStep(<<[k |-> "disconnected"]>>)
    /\ UNCHANGED used

\* accept_call: a call that is under way is ended first, if the setting says so.
CanAccept(c) == c \in DOMAIN rings /\ (cur.id # None => EndActive /\ Me \in cur.joined)
Accept(c) ==
    LET ends == cur.id # None
    IN  /\ CanAccept(c)
        /\ cur' = [NoCall EXCEPT !.id = c, !.source = rings[c].source, !.invited = rings[c].invited,
                                 !.joined = rings[c].joined, !.leader = rings[c].leader]
        /\ rings' = Without(rings, {c})
        /\ events' = events \o (IF ends THEN <<Event("force-call-end", cur.id)>> ELSE <<>>)
                           \o <<Event("accept-incoming-call", c)>>
        /\ UNCHANGED used

\* The accept key is not the frontend's.
AcceptByKey(c) ==
    /\ Prompt => asked = {} /\ events = <<>>
    /\ Spend("server")
    /\ Accept(c)
    /\ UNCHANGED <<store, asked>>

\* invite_to_call
InviteToCall(a) ==
    LET c == IF cur.id # None THEN cur.id ELSE CHOOSE x \in Calls \ used : TRUE
    IN  /\ cur.id = None => Calls \ used # {}
        /\ used' = used \cup {c}
        /\ cur' = [cur EXCEPT !.id = c, !.invited = @ \cup a.targets]
        /\ events' = Append(events, [k |-> "outgoing-call", id |-> c, targets |-> a.targets,
                                     prio |-> a.prio])
        /\ UNCHANGED rings

\* end_call
EndCurrent(a) ==
    /\ cur' = IF cur.id = a.id THEN NoCall ELSE cur
    /\ events' = Append(events, Event("force-call-end", a.id))
    /\ UNCHANGED <<rings, used>>

\* drop_target
DropTarget(a) ==
    /\ cur.id = a.id
    /\ cur' = [cur EXCEPT !.invited = @ \ a.targets, !.owed = @ \cup a.targets]
    /\ UNCHANGED <<rings, used, events>>

Answer(a, reply) == asked' = (asked \ {a}) \cup {[a EXCEPT !.reply = reply]}

\* The backend runs a command, or fails it: not connected, no such call.
Serve(a) ==
    /\ a.reply = "none"
    /\ \/ /\ \/ a.kind = "accept" /\ Accept(a.id)
             \/ a.kind = "invite" /\ InviteToCall(a)
             \/ a.kind = "end"    /\ EndCurrent(a)
             \/ a.kind = "drop"   /\ DropTarget(a)
          /\ Answer(a, "ok") /\ UNCHANGED left
       \/ /\ Spend("fail")
          /\ Answer(a, "error") /\ UNCHANGED <<cur, rings, used, events>>
    /\ UNCHANGED store

\* What is not there any more cannot be accepted or dropped.
Refuse(a) ==
    /\ a.reply = "none"
    /\ \/ a.kind = "accept" /\ ~CanAccept(a.id)
       \/ a.kind = "drop" /\ cur.id # a.id
    /\ Answer(a, "error")
    /\ UNCHANGED <<store, cur, rings, events, used, left>>

-----------------------------------------------------------------------------
(* The keys.                                                                *)

Ask(kind, c, targets, prio) ==
    /\ Cardinality(asked) < MaxAsked
    /\ \A a \in asked : a.kind # kind
    /\ asked' = asked \cup {[kind |-> kind, id |-> c, targets |-> targets, prio |-> prio,
                             snap |-> store.display, conf |-> store.conf, reply |-> "none"]}

Click ==
    /\ Prompt => asked = {} /\ events = <<>>
    /\ Spend("user")
    /\ UNCHANGED <<cur, rings, events, used>>

\* The conditions of startCall.
MayStart(s, targets) ==
    LET d == s.display
    IN  /\ targets # {}
        /\ d.type # "none" => s.conf = "modify" /\ d.leader # "other"
        /\ targets \cap Parties(d) = {}
        /\ Cardinality(Parties(d)) + Cardinality(targets) <= MaxConferenceSize

\* startCall up to its await: the targets join an existing call at once.
StartCall(targets) ==
    \E prio \in Prios :
      /\ MayStart(store, targets)
      /\ Calls \ used # {} \/ cur.id # None
      /\ store' = IF store.display.type = "none" THEN store ELSE AddInvitedTargets(store, targets, prio)
      /\ Ask("invite", store.display.id, targets, prio)

\* canAcceptIncomingCall
CanAcceptIncomingCall(d) == d.type = "none" \/ (EndActive /\ d.type = "accepted")

CallerOf(p) == {c \in DOMAIN store.incoming :
                   p = store.incoming[c].source \/ p \in store.incoming[c].joined}

\* handleClick of a client's key: accept its call, take back its invitation,
\* drop it from the conference, end the call, dismiss its mark, or call it.
ClickKey(p) ==
    LET d == store.display
        own == p \in d.invited /\ p \in d.own
        inCall == d.type = "accepted" /\ p \in DOMAIN d.joined
    IN  /\ IF CallerOf(p) # {}
           THEN /\ CanAcceptIncomingCall(d)
                /\ \E c \in CallerOf(p) : Ask("accept", c, {}, FALSE)
                /\ UNCHANGED store
           ELSE IF p \in d.invited \/ inCall
           THEN /\ IF \/ own /\ Cardinality(d.invited) + Cardinality(DOMAIN d.joined) > 1
                      \/ inCall /\ d.leader = "me" /\ Cardinality(DOMAIN d.joined) > 2
                   THEN Ask("drop", d.id, {p}, own)
                   ELSE (own \/ inCall) /\ Ask("end", d.id, {}, FALSE)
                /\ UNCHANGED store
           ELSE IF p \in d.rejected \cup d.errored
           THEN store' = DismissTarget(store, p) /\ UNCHANGED asked
           ELSE StartCall({p})
        /\ Click

\* The END key, and a click on the call display.
ClickEnd ==
    /\ \/ Live(store.display) /\ Ask("end", store.display.id, {}, FALSE) /\ UNCHANGED store
       \/ Terminal(store.display) /\ store' = DismissCall(store) /\ UNCHANGED asked
    /\ Click

\* ConferenceButton
ClickConference ==
    LET d == store.display
    IN  /\ d.type = "accepted" /\ d.leader # "other"
        /\ \E p \in DOMAIN d.joined \ {Me} : d.joined[p] = "connected"
        /\ store' = SetConferenceState(store, IF store.conf # "modify" THEN "modify"
                                              ELSE IF Others(d) >= 2 THEN "active" ELSE "inactive")
        /\ Click /\ UNCHANGED asked

\* setCpl
ClickCpl ==
    /\ store' = IF store.cpl THEN [TryStopBlink(store, [store EXCEPT !.cpl = FALSE]) EXCEPT !.cpl = FALSE]
                ELSE [StartBlink(store) EXCEPT !.cpl = TRUE]
    /\ Click /\ UNCHANGED asked

\* What follows the await of a command.
Settle(s, a) ==
    CASE a.kind = "end"    /\ a.reply = "ok" -> EndCall(s)
      [] a.kind = "drop"   /\ a.reply = "ok" /\ a.prio ->
             CancelInvitedTarget(s, a.id, CHOOSE t \in a.targets : TRUE)
      [] a.kind = "invite" /\ a.reply = "error" /\ a.snap.type # "none" ->
             RollBackInvite(s, a.snap, a.targets, a.conf)
      [] OTHER -> s

Reply(a) ==
    /\ a.reply # "none"
    /\ store' = Settle(store, a)
    /\ asked' = asked \ {a}
    /\ UNCHANGED <<cur, rings, events, used, left>>

-----------------------------------------------------------------------------
Init ==
    /\ store = [display |-> NoDisplay, incoming |-> Empty, conf |-> "inactive", blink |-> FALSE,
                list |-> Empty, cpl |-> FALSE]
    /\ cur = NoCall /\ rings = Empty /\ events = <<>> /\ asked = {} /\ used = {}
    /\ left = [server |-> MaxServer, user |-> MaxUser, fail |-> MaxFails]

Next ==
    \/ HandleEvent
    \/ \E a \in asked : Serve(a) \/ Refuse(a) \/ Reply(a)
    \/ \E c \in Calls : \/ \E p \in Peers, prio \in Prios : RingUp(c, p, prio)
                        \/ \E p \in Peers : UpdateRinging(c, p)
                        \/ CancelRinging(c)
                        \/ AcceptByKey(c)
    \/ UpdateCurrent \/ FailCall \/ Disconnect
    \/ \E p \in Peers : \/ RejectCurrent(p) \/ ErrorCurrent(p) \/ HangUpUnanswered(p)
                        \/ FailPeer(p) \/ ClickKey(p)
                        \/ \E k \in {"call-connected", "call-reconnecting"} : ChangeLink(p, k)
    \/ ClickEnd \/ ClickConference \/ ClickCpl

Spec == Init /\ [][Next]_vars

-----------------------------------------------------------------------------
(* Properties.                                                              *)

Quiet == events = <<>> /\ asked = {} /\ cur.owed = {}

\* Displays, invitations, list entries and the backend's calls have their
\* types; a display has an id and parties of its own.
TypeOK ==
    LET d == store.display
    IN  /\ d.type \in {"none", "outgoing", "accepted", "rejected", "error"}
        /\ (d.type = "none") <=> (d.id = None)
        /\ d.id \in Calls \cup {None}
        /\ d.invited \cup d.own \cup d.prio \cup d.rejected \cup d.errored \subseteq Peers
        /\ DOMAIN d.joined \subseteq Peers \cup {Me}
        /\ \A p \in DOMAIN d.joined : d.joined[p] \in {"connecting", "connected"}
        /\ d.leader \in {"none", "me", "other"}
        /\ store.conf \in {"inactive", "active", "modify"}
        /\ DOMAIN store.incoming \cup DOMAIN store.list \subseteq Calls
        /\ \A c \in DOMAIN store.list : store.list[c].answered \in {"open", "yes", "no"}
        /\ DOMAIN rings \cup {cur.id} \subseteq Calls \cup {None}

\* Whoever takes part in the displayed call, or is rung for it, is not marked as
\* rejected or errored at the same time (updateCall, addInvitedTargets and
\* errorTargets clear the marks).
NeverBoth ==
    Parties(store.display) \cap (store.display.rejected \cup store.display.errored) = {}

\* Nothing that asks for attention stands still: an incoming call, a priority
\* call that rings, a failed target of a call that goes on, a call that ended
\* badly or a conference that is being modified blinks.
AttentionBlinks == ~ShouldStopBlinking(store) => store.blink

\* The conference state belongs to a call: a conference is modified while a
\* call is up, and active with two other parties at least.
ConferenceHasACall ==
    /\ store.conf = "modify" => Live(store.display)
    /\ store.conf = "active" => Live(store.display) /\ Others(store.display) >= 2

\* A conference is being modified only while there is a call to modify
\* (rollBackInvite puts the conference state back).
ModifyNeedsACall == store.conf = "modify" => Live(store.display)

\* The conference button blinks while the conference is being modified.
ModifyBlinks == store.conf = "modify" => store.blink

\* When everything has settled, the frontend shows the call the backend has,
\* with the same parties, and the calls that ring.
ShowsTheCall ==
    Quiet => /\ DOMAIN store.incoming = DOMAIN rings
             /\ Live(store.display) <=> cur.id # None
             /\ cur.id # None => /\ store.display.id = cur.id
                                 /\ store.display.invited = cur.invited
                                 /\ DOMAIN store.display.joined \ {Me} = cur.joined \ {Me}

\* When everything has settled, the label of a call with one other party names
\* that party, whoever of the first ones left (callDisplayLabel, and the
\* substitution in updateCall).
LabelNamesTheOther ==
    LET d == store.display
    IN  Quiet /\ Live(d) /\ Others(d) = 1
          => (IF d.source = Me THEN d.target ELSE d.source) \in Parties(d) \ {Me}

\* When everything has settled, a call that is over is listed as answered or
\* unanswered, and one that goes on as answered if somebody joined it.
ListIsSettled ==
    Quiet => \A c \in DOMAIN store.list :
                /\ c \notin DOMAIN store.incoming \cup {store.display.id} => store.list[c].answered # "open"
                /\ c = cur.id /\ cur.joined # {} => store.list[c].answered = "yes"

\* A display that tells how its call ended stays until it is dismissed or
\* another call takes its place: its call does not come back.
KeepsTerminalDisplay ==
    Terminal(store.display) /\ store'.display.id = store.display.id
      => /\ store'.display.type = store.display.type
         /\ Parties(store'.display) = Parties(store.display)

\* A call that somebody answered stays answered in the list.
KeepsAnswers ==
    \A c \in DOMAIN store.list \cap DOMAIN store'.list :
        store.list[c].answered = "yes" => store'.list[c].answered = "yes"
=============================================================================
