------------------------------ MODULE PeerLinks ------------------------------
(***************************************************************************)
(* The WebRTC link between two participants of a call: how it is set up        *)
(* through the server, replaced by a relayed one, retried when it fails in a   *)
(* conference, and given up (vacs-client/src/app/state/webrtc.rs, the WebRTC   *)
(* messages of app/state/signaling.rs, and the relay and the link reports of   *)
(* the server's application_message.rs and state/calls.rs).                    *)
(* The two ends are 1 and 2, ordered like their client ids; 2 joined later. A  *)
(* third participant, whose links work, makes the call a conference. A unit of *)
(* time is LINK_RETRY_ESTABLISH_TIMEOUT (10 s), within which every message is  *)
(* delivered and every event handled.                                          *)
(***************************************************************************)
EXTENDS Naturals, Sequences, FiniteSets

CONSTANTS
    Conference,     \* whether the third participant is in the call
    ThirdMayLeave,
    Leader,         \* of the conference: 1, 2 or 3
    MaxFlips,       \* changes of the network
    MaxStalls,      \* times that media stop although the connection stands
    MaxFaults,      \* negotiations and audio devices that fail
    Paths           \* the ways the two ends may reach one another: "direct", "relay", "none"

Ends == {1, 2}
Third == 3
Other(x) == 3 - x

RetryInterval == 3      \* LINK_RETRY_INTERVAL
IceFailure == 3         \* a connection that is not (or no longer) established for this long has failed
ReportTtl == 9          \* LINK_REPORT_TTL
Establishment == 2      \* CALL_ESTABLISHMENT_TIMEOUT (15 s), rounded up

VARIABLES
    cl,         \* what each end knows: its peer connection, its retry task, the roster
    srv,        \* the server: the participants, the reports on this link, what it sends to the ends
    path,       \* the best way the two ends reach one another
    usable,     \* for how long a relayed connection has been possible
    left        \* the flips, stalls and faults still to come

vars == <<cl, srv, path, usable, left>>

\* A peer connection: the offer it belongs to, the offer its remote description answers (0 for
\* none), what WebrtcPeer records of it, its age, the state of its ICE agent and for how long
\* it has been in it, and the events not yet handled.
NewPeer(neg, has, relay, rec) ==
    [neg |-> neg, has |-> has, relay |-> relay, reconnected |-> rec, connected |-> rec,
     established |-> FALSE, age |-> 0, ice |-> "checking", since |-> 0, events |-> <<>>]
NoPeer == [NewPeer(0, 0, FALSE, FALSE) EXCEPT !.ice = "none"]

NoRetry == [at |-> "none", wait |-> 0, reported |-> FALSE]

Negs == 1 .. 9
Messages ==
    [kind : {"offer", "answer"}, neg : Negs]
        \union [kind : {"update"}, joined : SUBSET (1 .. 3)]
        \union [kind : {"end", "evicted", "failure"}]

TypeOK ==
    /\ \A x \in Ends :
          /\ cl[x].peer \in [neg : Negs \union {0}, has : Negs \union {0}, relay : BOOLEAN,
                             reconnected : BOOLEAN, connected : BOOLEAN, established : BOOLEAN,
                             age : 0 .. IceFailure, since : 0 .. IceFailure,
                             ice : {"none", "checking", "connected", "disconnected", "failed"},
                             events : Seq({"Connected", "Disconnected", "Failed", "Closed", "NoInboundMedia"})]
          /\ cl[x].retry \in [at : {"none", "attempt", "wait"}, wait : 0 .. RetryInterval, reported : BOOLEAN]
          /\ cl[x].joined \subseteq 1 .. 3
          /\ cl[x].timer \in 0 .. Establishment + 1    \* 0: not running, 1: due
          /\ srv.out[x] \in Seq(Messages)
    /\ srv.joined \subseteq 1 .. 3
    /\ srv.reports \in [by : SUBSET Ends, age : 0 .. ReportTtl]
    /\ path \in Paths

\* Both ends have just learned from the server that the other one has joined.
Init ==
    LET all == IF Conference THEN 1 .. 3 ELSE Ends IN
    /\ cl = [x \in Ends |-> [peer |-> NoPeer, retry |-> NoRetry, joined |-> all \ {Other(x)},
                             third |-> Conference, active |-> Conference,
                             timer |-> IF Conference \/ x = 1 THEN 0 ELSE Establishment + 1]]
    /\ srv = [joined |-> all, reports |-> [by |-> {}, age |-> 0], evicted |-> FALSE, failed |-> FALSE,
              out |-> [x \in Ends |-> <<[kind |-> "update", joined |-> all]>>]]
    /\ path = "direct" /\ usable = RetryInterval
    /\ left = [flips |-> MaxFlips, stalls |-> MaxStalls, faults |-> MaxFaults]

-----------------------------------------------------------------------------
(* The server. *)

Post(s, x, m) == [s EXCEPT !.out[x] = Append(@, m)]
PostAll(s, to, m) == [s EXCEPT !.out = [x \in Ends |-> IF x \in to THEN Append(@[x], m) ELSE @[x]]]

\* end_call: the call goes on for the others unless the leader left or one is alone.
Leave(s, who) ==
    LET rest == s.joined \ {who}
        over == who = Leader \/ Cardinality(rest) < 2
        t == [s EXCEPT !.joined = IF over THEN {} ELSE rest,
                       !.reports = IF who \in Ends \/ over THEN [by |-> {}, age |-> 0] ELSE @]
    IN  IF who \notin s.joined THEN s
        ELSE PostAll(t, rest, IF over THEN [kind |-> "end"] ELSE [kind |-> "update", joined |-> rest])

\* A failure of the client's own: the server ends its part and does not answer it.
CallError(s, x) ==
    IF x \in s.joined THEN [Leave(s, x) EXCEPT !.failed = TRUE] ELSE Post(s, x, [kind |-> "failure"])

\* check_webrtc_relay and relay_webrtc_message
RelayWebrtcMessage(s, x, m) ==
    IF x \notin s.joined THEN Post(s, x, [kind |-> "failure"])
    ELSE IF Other(x) \notin s.joined THEN s
    ELSE Post(s, Other(x), m)

\* record_link_report_at
RecordLinkReport(s, x) ==
    [by |-> (IF s.reports.age >= ReportTtl THEN {} ELSE s.reports.by) \union {x}, age |-> 0]

\* handle_link_failure_report: once both ends have reported the link, the later joiner is told and removed.
LinkFailureReport(s, x) ==
    LET r == RecordLinkReport(s, x) IN
    IF ~ Ends \subseteq s.joined THEN s
    ELSE IF Other(x) \notin r.by THEN [s EXCEPT !.reports = r]
    ELSE [Leave(Post(s, 2, [kind |-> "evicted"]), 2) EXCEPT !.evicted = TRUE]

-----------------------------------------------------------------------------
(* The client's bookkeeping. *)

HasPeer(c) == c.peer.neg # 0
InLimbo(c) == c.retry.at # "none"
IsConferenceLink(c) == Third \in c.joined
Young(c) == HasPeer(c) /\ c.peer.age = 0

StartLinkRetry(c) == [c EXCEPT !.retry = [NoRetry EXCEPT !.at = "attempt"]]
RemoveLinkPeerQuiet(c) == [c EXCEPT !.peer = NoPeer]

CleanupCurrentCall(c) ==
    [peer |-> NoPeer, retry |-> NoRetry, joined |-> {}, third |-> FALSE, active |-> FALSE, timer |-> 0]

\* cleanup_call_peer for the other end and for the third participant
CleanupCallPeer(c) ==
    IF ~ HasPeer(c) THEN c
    ELSE [c EXCEPT !.peer = NoPeer, !.active = @ /\ (c.third \/ InLimbo(c))]
CleanupThird(c) ==
    IF ~ c.third THEN c
    ELSE [c EXCEPT !.third = FALSE, !.active = @ /\ (HasPeer(c) \/ InLimbo(c))]

\* end_call_if_no_peers; no invitations are out.
EndCallIfNoPeers(c) == IF HasPeer(c) \/ c.third THEN c ELSE CleanupCurrentCall(c)

\* fail_link: a young peer is left alone.
FailLink(c) ==
    IF Young(c) THEN c
    ELSE IF InLimbo(c) THEN RemoveLinkPeerQuiet(c) ELSE StartLinkRetry(RemoveLinkPeerQuiet(c))

Both(x, c, s) == cl' = [cl EXCEPT ![x] = c] /\ srv' = s

FailPeer(x, c, s) == Both(x, EndCallIfNoPeers(CleanupCallPeer(c)), CallError(s, x))
FailCall(x, c, s) == Both(x, CleanupCurrentCall(c), CallError(s, x))

\* The smallest offer number that is not in use.
FreshNeg ==
    LET used == UNION {{cl[x].peer.neg, cl[x].peer.has} : x \in Ends}
                  \union {m.neg : m \in {n \in UNION {{srv.out[x][i] : i \in DOMAIN srv.out[x]} : x \in Ends} :
                                           n.kind \in {"offer", "answer"}}}
    IN  CHOOSE n \in Negs \ used : \A k \in Negs \ used : n <= k

\* negotiate_peer: the new peer takes the place of the old one, whose events are dropped. It is
\* forced to the relay when it replaces a peer on this end's initiative or the link is in limbo.
NegotiatePeer(c, neg, offered) ==
    LET relay == (HasPeer(c) /\ ~ offered) \/ InLimbo(c)
        reconnect == HasPeer(c) \/ InLimbo(c)
        peer == NewPeer(neg, IF offered THEN neg ELSE 0, relay, reconnect)
    IN  [c EXCEPT !.peer = IF HasPeer(c) THEN peer ELSE [peer EXCEPT !.connected = FALSE], !.timer = 0]

\* Whether an operation of the libraries fails; the faults are bounded.
Succeeds(ok) == IF ok THEN UNCHANGED left ELSE left.faults > 0 /\ left' = [left EXCEPT !.faults = @ - 1]

\* Negotiates and sends the offer.
Offer(x, c, s) ==
    LET n == FreshNeg IN
    Both(x, NegotiatePeer(c, n, FALSE), RelayWebrtcMessage(s, x, [kind |-> "offer", neg |-> n]))

-----------------------------------------------------------------------------
(* Messages of the server. *)

Receives(x, kind) == srv.out[x] # <<>> /\ Head(srv.out[x]).kind = kind
Taken(x) == [srv EXCEPT !.out[x] = Tail(@)]

\* start_call_establishment_timer: this end answers and has no peer until the offer arrives.
StartEstablishmentTimer(x, c) ==
    IF Other(x) \in c.joined /\ ~ HasPeer(c) /\ ~ c.third /\ ~ InLimbo(c) /\ c.timer = 0
    THEN [c EXCEPT !.timer = Establishment + 1] ELSE c

\* CallUpdate: those who left are cleaned up, and the end with the lower id offers to whom is new.
CallUpdate(x) ==
    /\ Receives(x, "update")
    /\ LET now == Head(srv.out[x]).joined
           c == cl[x]
           gone == c.joined \ now
           b == [c EXCEPT !.joined = now]
           d == IF Other(x) \in gone THEN CleanupCallPeer([b EXCEPT !.retry = NoRetry]) ELSE b
           e == IF Third \in gone THEN CleanupThird(d) ELSE d
           offers == Other(x) \in now \ c.joined /\ x < Other(x)
       IN  IF c.joined = {} THEN Both(x, c, Taken(x)) /\ UNCHANGED left
           ELSE \E ok \in BOOLEAN :
                  /\ offers \/ ok
                  /\ Succeeds(ok)
                  /\ CASE ~ offers -> Both(x, StartEstablishmentTimer(x, e), Taken(x))
                       [] offers /\ ok -> Offer(x, e, Taken(x))
                       [] offers /\ ~ ok /\ IsConferenceLink(e) -> Both(x, FailLink(e), Taken(x))
                       [] OTHER -> Both(x, EndCallIfNoPeers(e), CallError(Taken(x), x))
    /\ UNCHANGED <<path, usable>>

\* Retry-offer glare: the lower end keeps its own attempt.
IgnoresOffer(x) == InLimbo(cl[x]) /\ x < Other(x)

\* WebrtcOffer
WebrtcOffer(x) ==
    /\ Receives(x, "offer")
    /\ LET n == Head(srv.out[x]).neg
           c == cl[x]
           failed == CallError(Taken(x), x)
       IN  IF IgnoresOffer(x) THEN Both(x, c, Taken(x)) /\ UNCHANGED left
           ELSE IF c.joined = {} THEN Both(x, c, failed) /\ UNCHANGED left
           ELSE \E ok \in BOOLEAN :
                  /\ Succeeds(ok)
                  /\ CASE ok -> Both(x, NegotiatePeer(c, n, TRUE),
                                     RelayWebrtcMessage(Taken(x), x, [kind |-> "answer", neg |-> n]))
                       [] ~ ok /\ IsConferenceLink(c) -> Both(x, FailLink(c), Taken(x))
                       [] OTHER -> Both(x, c, failed)
    /\ UNCHANGED <<path, usable>>

\* WebrtcAnswer: a peer that has an answer already, or gave one itself, refuses another one.
WebrtcAnswer(x) ==
    /\ Receives(x, "answer")
    /\ LET n == Head(srv.out[x]).neg
           c == cl[x]
       IN  CASE ~ HasPeer(c) -> Both(x, c, Taken(x))
             [] HasPeer(c) /\ c.peer.has = 0 -> Both(x, [c EXCEPT !.peer.has = n, !.peer.since = 0], Taken(x))
             [] HasPeer(c) /\ c.peer.has # 0 /\ IsConferenceLink(c) -> Both(x, FailLink(c), Taken(x))
             [] OTHER -> Both(x, c, CallError(Taken(x), x))
    /\ UNCHANGED <<path, usable, left>>

\* CallEnd, a CallError that ends the call, and PeerConnectionFailed
CallEnd(x) ==
    /\ \E kind \in {"end", "evicted", "failure"} : Receives(x, kind)
    /\ Both(x, CleanupCurrentCall(cl[x]), Taken(x))
    /\ UNCHANGED <<path, usable, left>>

-----------------------------------------------------------------------------
(* The events of a peer connection; those of a replaced one are dropped with it. *)

Event(x, e) == cl[x].peer.events # <<>> /\ Head(cl[x].peer.events) = e
Handled(x) == [cl[x] EXCEPT !.peer.events = Tail(@)]

\* on_peer_connected; an audio device that fails ends the call, or the 1:1 link.
OnPeerConnected(x) ==
    /\ Event(x, "Connected")
    /\ LET c == [Handled(x) EXCEPT !.active = TRUE] IN
       \E ok \in BOOLEAN :
          /\ Succeeds(ok)
          /\ CASE ok -> Both(x, [c EXCEPT !.peer.connected = TRUE, !.peer.established = TRUE,
                                          !.retry = NoRetry], srv)
               [] ~ ok /\ IsConferenceLink(c) -> FailCall(x, c, srv)
               [] OTHER -> FailPeer(x, c, srv)
    /\ UNCHANGED <<path, usable>>

OnDisconnected(x) ==
    /\ Event(x, "Disconnected")
    /\ Both(x, [Handled(x) EXCEPT !.peer.connected = FALSE, !.peer.established = FALSE], srv)
    /\ UNCHANGED <<path, usable, left>>

\* The mutant: the link is taken down and nobody retries it.
OnFailedWithoutRetry(x) ==
    /\ Event(x, "Failed")
    /\ LET c == [Handled(x) EXCEPT !.peer.established = FALSE] IN
       IF IsConferenceLink(c) THEN Both(x, RemoveLinkPeerQuiet(c), srv) ELSE FailPeer(x, c, srv)
    /\ UNCHANGED <<path, usable, left>>

\* A link of a conference is retried; the failure of the only link ends the call.
OnFailed(x) ==
    /\ Event(x, "Failed")
    /\ LET c == [Handled(x) EXCEPT !.peer.established = FALSE] IN
       CASE IsConferenceLink(c) /\ InLimbo(c) -> Both(x, IF Young(c) THEN c ELSE RemoveLinkPeerQuiet(c), srv)
         [] IsConferenceLink(c) /\ ~ InLimbo(c) -> Both(x, StartLinkRetry(c), srv)
         [] OTHER -> FailPeer(x, c, srv)
    /\ UNCHANGED <<path, usable, left>>

OnClosed(x) ==
    /\ Event(x, "Closed")
    /\ Both(x, EndCallIfNoPeers(CleanupCallPeer(Handled(x))), srv)
    /\ UNCHANGED <<path, usable, left>>

\* try_relay_reconnect: once for every link, and not when it is relayed already.
OnNoInboundMedia(x) ==
    /\ Event(x, "NoInboundMedia")
    /\ LET c == Handled(x) IN
       IF c.peer.reconnected \/ c.peer.has = 0 THEN Both(x, c, srv) /\ UNCHANGED left
       ELSE \E ok \in BOOLEAN :
              /\ Succeeds(ok)
              /\ CASE ok -> Offer(x, c, srv)
                   [] ~ ok /\ IsConferenceLink(c) -> Both(x, c, srv)
                   [] OTHER -> FailPeer(x, c, srv)
    /\ UNCHANGED <<path, usable>>

-----------------------------------------------------------------------------
(* The retry task of a link in limbo. *)

Waiting(reported) ==
    [at |-> "wait", wait |-> IF reported THEN RetryInterval ELSE 1, reported |-> reported]

\* attempt_link_retry: nothing is done while the peer is established or establishing.
AttemptLinkRetry(x) ==
    /\ cl[x].retry.at = "attempt"
    /\ LET c == [cl[x] EXCEPT !.retry = Waiting(@.reported)] IN
       IF Other(x) \notin c.joined \/ c.peer.established \/ Young(c)
       THEN Both(x, c, srv) /\ UNCHANGED left
       ELSE \E ok \in BOOLEAN : Succeeds(ok) /\ IF ok THEN Offer(x, c, srv) ELSE Both(x, c, srv)
    /\ UNCHANGED <<path, usable>>

\* The loop of link_retry_task: the link has healed, or it is taken down and reported, at first
\* after 10 s and then with every further attempt; without any link left the call fails.
EvaluateLink(x) ==
    /\ cl[x].retry.at = "wait" /\ cl[x].retry.wait = 0
    /\ LET c == cl[x]
           over == c.peer.established \/ Other(x) \notin c.joined
           d == IF Young(c) THEN c ELSE RemoveLinkPeerQuiet(c)
           report == IF Young(c) /\ ~ c.retry.reported THEN srv ELSE LinkFailureReport(srv, x)
           next == [Waiting(c.retry.reported \/ ~ Young(c)) EXCEPT
                      !.at = IF c.retry.reported /\ ~ Young(c) THEN "attempt" ELSE "wait"]
       IN  CASE over -> Both(x, [c EXCEPT !.retry = NoRetry], srv)
             [] ~ over /\ ~ Young(c) /\ ~ d.third -> FailCall(x, d, srv)
             [] OTHER -> Both(x, [d EXCEPT !.retry = next], report)
    /\ UNCHANGED <<path, usable, left>>

\* The timer of start_call_establishment_timer runs out.
EstablishmentTimeout(x) ==
    /\ cl[x].timer = 1
    /\ IF HasPeer(cl[x]) \/ cl[x].third THEN Both(x, [cl[x] EXCEPT !.timer = 0], srv)
       ELSE Both(x, CleanupCurrentCall(cl[x]), Leave(srv, x))
    /\ UNCHANGED <<path, usable, left>>

-----------------------------------------------------------------------------
(* The ICE agents, the network and time. *)

Matched(x) ==
    LET p == cl[x].peer q == cl[Other(x)].peer IN p.neg # 0 /\ p.neg = q.neg /\ p.has = p.neg /\ q.has = q.neg

\* A connection is relayed when either end insists on it.
Works(x) ==
    Matched(x) /\ (path = "direct" \/ (path = "relay" /\ \E y \in Ends : cl[y].peer.relay))

Ice(x, state, event) ==
    /\ cl' = [cl EXCEPT ![x].peer.ice = state, ![x].peer.since = 0,
                        ![x].peer.events = Append(@, event)]
    /\ UNCHANGED <<srv, path, usable, left>>

IceConnects(x) == cl[x].peer.ice \in {"checking", "disconnected"} /\ Works(x) /\ Ice(x, "connected", "Connected")
IceDisconnects(x) == cl[x].peer.ice = "connected" /\ ~ Works(x) /\ Ice(x, "disconnected", "Disconnected")
IceFails(x) ==
    /\ cl[x].peer.ice \in {"checking", "disconnected"} /\ cl[x].peer.has # 0
    /\ cl[x].peer.since = IceFailure /\ ~ Works(x)
    /\ Ice(x, "failed", "Failed")

\* The other end closes its connection as it leaves the call.
PeerCloses(x) ==
    cl[x].peer.ice = "connected" /\ cl[Other(x)].joined = {} /\ path # "none" /\ Ice(x, "failed", "Closed")

\* Media no longer arrive on a direct connection that stands.
MediaStall(x) ==
    /\ left.stalls > 0
    /\ cl[x].peer.established /\ cl[x].peer.ice = "connected" /\ cl[x].peer.events = <<>>
    /\ \A y \in Ends : ~ cl[y].peer.relay
    /\ cl' = [cl EXCEPT ![x].peer.events = <<"NoInboundMedia">>]
    /\ left' = [left EXCEPT !.stalls = @ - 1]
    /\ UNCHANGED <<srv, path, usable>>

PathChanges ==
    /\ left.flips > 0
    /\ \E p \in Paths \ {path} : path' = p
    /\ usable' = IF path' = "none" THEN 0 ELSE usable
    /\ left' = [left EXCEPT !.flips = @ - 1]
    /\ UNCHANGED <<cl, srv>>

ThirdLeaves ==
    /\ ThirdMayLeave /\ Third \in srv.joined
    /\ srv' = Leave(srv, Third)
    /\ UNCHANGED <<cl, path, usable, left>>

\* What happens within a unit of time.
Prompt(x) ==
    \/ CallUpdate(x) \/ WebrtcOffer(x) \/ WebrtcAnswer(x) \/ CallEnd(x)
    \/ OnPeerConnected(x) \/ OnDisconnected(x) \/ OnFailed(x) \/ OnClosed(x) \/ OnNoInboundMedia(x)
    \/ AttemptLinkRetry(x) \/ EvaluateLink(x) \/ EstablishmentTimeout(x)
    \/ IceConnects(x) \/ IceDisconnects(x) \/ IceFails(x) \/ PeerCloses(x)

IsDue(x) ==
    LET c == cl[x] p == cl[x].peer IN
    \/ srv.out[x] # <<>> \/ p.events # <<>> \/ c.retry.at = "attempt" \/ c.timer = 1
    \/ c.retry.at = "wait" /\ c.retry.wait = 0
    \/ p.ice \in {"checking", "disconnected"} /\ (Works(x) \/ (p.has # 0 /\ p.since = IceFailure))
    \/ p.ice = "connected" /\ ~ Works(x)

Older(n, cap) == IF n < cap THEN n + 1 ELSE n

Tick ==
    /\ \A x \in Ends : ~ IsDue(x)
    /\ cl' = [x \in Ends |->
                 [cl[x] EXCEPT !.peer.age = IF HasPeer(cl[x]) THEN Older(@, IceFailure) ELSE 0,
                               !.peer.since = IF HasPeer(cl[x]) THEN Older(@, IceFailure) ELSE 0,
                               !.retry.wait = IF @ > 0 THEN @ - 1 ELSE 0,
                               !.timer = IF @ > 1 THEN @ - 1 ELSE @]]
    /\ srv' = [srv EXCEPT !.reports.age = IF srv.reports.by = {} THEN 0 ELSE Older(@, ReportTtl)]
    /\ usable' = IF path = "none" THEN 0 ELSE Older(usable, RetryInterval)
    /\ UNCHANGED <<path, left>>

Next == (\E x \in Ends : Prompt(x) \/ MediaStall(x)) \/ PathChanges \/ ThirdLeaves \/ Tick

\* Messages, events and timers are handled in time, and time passes.
Fairness == WF_vars((\E x \in Ends : Prompt(x)) \/ Tick)

Spec == Init /\ [][Next]_vars /\ Fairness

-----------------------------------------------------------------------------
(* Properties *)

\* A retry task runs only for a link that is down, between two participants of the current
\* call, and nothing of a call outlives its cleanup: the guards of link_limbo_guards go with it.
RetriesServeALink ==
    \A x \in Ends :
        /\ InLimbo(cl[x]) => Other(x) \in cl[x].joined /\ ~ cl[x].peer.established
        /\ cl[x].joined = {} => cl[x].peer = NoPeer /\ ~ InLimbo(cl[x])

\* The keybind engine takes a call for active while any link carries audio, whatever order links
\* are set up, replaced, retried and cleaned up in, and no longer than there is a call.
ActiveWhileTalking ==
    \A x \in Ends :
        /\ cl[x].peer.established \/ cl[x].third => cl[x].active
        /\ cl[x].joined = {} => ~ cl[x].active

LinkStands == Matched(1) /\ \A x \in Ends : cl[x].peer.established

\* A link between two participants does not stay dead: it heals, or one of the two leaves.
LinksAreSettled == []<>(LinkStands \/ ~ Ends \subseteq srv.joined)

\* Client and server end up agreeing on whether the client is in the call.
RostersConverge ==
    \A x \in Ends : ((x \in srv.joined) # (cl[x].joined # {})) ~> ( (x \in srv.joined) = (cl[x].joined # {}))

\* A pair that is evicted could not talk: no relayed connection was possible for as long as a
\* retry takes.
EvictsADeadLink == srv'.evicted /\ ~ srv.evicted => usable < 2

\* A link whose media stopped is replaced by a relayed one and the call goes on: on a network
\* without failures no client gives a call up.
ReconnectsKeepTheCall == ~ srv.failed

=============================================================================
