----------------------------- MODULE InputDevice -----------------------------
(***************************************************************************)
(* Who uses the microphone: the client has one input stream, shared by the     *)
(* senders of all peers of the current call, or else by the settings pages     *)
(* that show its level (the input half of vacs-client/src/audio/manager.rs and *)
(* audio/commands.rs, the attach and detach calls of app/state/webrtc.rs, the  *)
(* life of vacs-webrtc's senders, frontend InputLevelMeter.tsx).               *)
(* A capture stream counts its subscribers; it is released by the last close   *)
(* of a peer that finds it without any. Closing a peer joins its sender task   *)
(* in the background, so a release may come long after its call is gone.       *)
(***************************************************************************)
EXTENDS Naturals, FiniteSets, FiniteSetsExt

CONSTANTS
    Peers,          \* the peers a call may have
    Pages,          \* the settings pages: the window's and the remote controls'
    MaxClosing,     \* closes of peers and calls that are in progress at a time
    MaxErrors,      \* streams that fail
    Disconnects,    \* whether the signaling connection may be lost
    Opens           \* whether opening the device may succeed, and fail

VARIABLES
    input,      \* the attached stream; `restarted`: it replaced a level meter that failed
    users,      \* level_meter_users
    call,       \* whether there is a current call
    peers,      \* each peer's link: "out", "up" (no sender), "on" (its sender is subscribed to the
                \* input), "deaf" (its sender's stream is gone)
    closing,    \* how many closes still hold n subscriptions to the input, for every n
    errs,       \* the error tasks that have received their stream's first error
    pages,      \* what each page shows: "off", "counted", "uncounted"
    left        \* failures still to come

vars == <<input, users, call, peers, closing, errs, pages, left>>

NoInput == [kind |-> "none", restarted |-> FALSE, failed |-> FALSE]
Capture == [NoInput EXCEPT !.kind = "capture"]
Meter(restarted) == [NoInput EXCEPT !.kind = "meter", !.restarted = restarted]

Held == 0 .. Cardinality(Peers)
On(s) == {p \in Peers : s.peers[p] = "on"}
InProgress(s) == MapThenSumSet(LAMBDA n : s.closing[n], Held)

\* receiver_count of the attached stream
Receivers(s) == Cardinality(On(s)) + MapThenSumSet(LAMBDA n : n * s.closing[n], Held)

TypeOK ==
    /\ input \in [kind : {"none", "capture", "meter"}, restarted : BOOLEAN, failed : BOOLEAN]
    /\ input.restarted => input.kind = "meter"
    /\ users \in 0 .. Cardinality(Pages)
    /\ call \in BOOLEAN
    /\ peers \in [Peers -> {"out", "up", "on", "deaf"}]
    /\ closing \in [Held -> 0 .. MaxClosing + MaxErrors]
    /\ errs \subseteq [n : 1 .. MaxErrors, meter : BOOLEAN, restarted : BOOLEAN, changed : BOOLEAN, own : BOOLEAN]
    /\ pages \in [Pages -> {"off", "counted", "uncounted"}]
    /\ left \in 0 .. MaxErrors

Init ==
    /\ input = NoInput /\ users = 0 /\ call = FALSE
    /\ peers = [p \in Peers |-> "out"]
    /\ closing = [n \in Held |-> 0]
    /\ errs = {} /\ left = MaxErrors
    /\ pages = [f \in Pages |-> "off"]

\* The state as the handlers below pass it along, and the step to what they make of it.
Now == [input |-> input, users |-> users, call |-> call, peers |-> peers, closing |-> closing,
        errs |-> errs, pages |-> pages]
Become(s) ==
    /\ input' = s.input /\ users' = s.users /\ call' = s.call /\ peers' = s.peers
    /\ closing' = s.closing /\ errs' = s.errs /\ pages' = s.pages

-----------------------------------------------------------------------------
(* The audio manager. *)

\* Dropping a stream closes the channel of its subscribers, whose senders end.
DropInput(s) ==
    [s EXCEPT !.input = NoInput,
              !.peers = [p \in Peers |-> IF @[p] = "on" THEN "deaf" ELSE @[p]],
              !.closing = [n \in Held |-> IF n = 0 THEN InProgress(s) ELSE 0],
              !.errs = {[e EXCEPT !.own = FALSE] : e \in @}]

\* audio:stop-input-level-meter
StopMeterEvent(s) == [s EXCEPT !.pages = [f \in Pages |-> "off"]]

DetachInputDevice(s) ==
    IF s.input # NoInput /\ Receivers(s) = 0 THEN [DropInput(s) EXCEPT !.users = 0] ELSE s

DiscardInputDevice(s) ==
    IF s.input.kind = "capture" THEN [DropInput(s) EXCEPT !.users = 0] ELSE s

\* attach_input_device for p's sender, and whether it succeeded: a capture stream is shared, a
\* level meter makes room for one.
AttachInputDevice(s, p, opens) ==
    LET shared == s.input.kind = "capture"
        t == IF s.input.kind = "meter" THEN [DropInput(s) EXCEPT !.users = 0] ELSE s
        u == IF shared THEN s ELSE [StopMeterEvent(t) EXCEPT !.input = Capture]
    IN  IF shared \/ opens THEN [ok |-> TRUE, s |-> [u EXCEPT !.peers[p] = "on"]]
        ELSE [ok |-> FALSE, s |-> t]

AttachInputLevelMeter(s, restarted, opens) ==
    IF s.input.kind = "capture" /\ Receivers(s) > 0 THEN [ok |-> TRUE, s |-> s]
    ELSE IF opens THEN [ok |-> TRUE, s |-> [DropInput(s) EXCEPT !.input = Meter(restarted)]]
    ELSE [ok |-> FALSE, s |-> s]

-----------------------------------------------------------------------------
(* The call. *)


\* detach_input_after: the close of a peer or of a call, which holds k subscriptions.
DetachInputAfter(s, k) == [s EXCEPT !.closing[k] = @ + 1]

\* cleanup_call_peer, remove_link_peer_quiet and the replacement of a peer
CleanupPeer(s, p) ==
    DetachInputAfter([s EXCEPT !.peers[p] = "out"], IF s.peers[p] = "on" THEN 1 ELSE 0)

CleanupCurrentCall(s) ==
    IF ~s.call THEN s
    ELSE DetachInputAfter([s EXCEPT !.call = FALSE, !.peers = [p \in Peers |-> "out"]], Cardinality(On(s)))

\* A peer is negotiated with, in a new call or in the current one.
NegotiatePeer(p) ==
    /\ peers[p] = "out"
    /\ Become([Now EXCEPT !.call = TRUE, !.peers[p] = "up"])
    /\ UNCHANGED left

\* on_peer_connected; on failure handle_peer_failure gives the peer or the call up.
OnPeerConnected(p) ==
    /\ peers[p] = "up" /\ InProgress(Now) < MaxClosing
    /\ \E opens \in Opens :
         LET r == AttachInputDevice(Now, p, opens) IN
         IF r.ok THEN Become(r.s) ELSE \/ Become(CleanupPeer(r.s, p)) \/ Become(CleanupCurrentCall(r.s))
    /\ UNCHANGED left

\* Peer::pause, after which the events task joins the sender and releases the input.
OnPeerDisconnected(p) ==
    /\ peers[p] \in {"on", "deaf"} /\ InProgress(Now) < MaxClosing
    /\ Become(DetachInputAfter([Now EXCEPT !.peers[p] = "up"], IF peers[p] = "on" THEN 1 ELSE 0))
    /\ UNCHANGED left

PeerGone(p) ==
    /\ peers[p] # "out" /\ InProgress(Now) < MaxClosing
    /\ Become(CleanupPeer(Now, p))
    /\ UNCHANGED left

CallEnds ==
    /\ call /\ InProgress(Now) < MaxClosing
    /\ Become(CleanupCurrentCall(Now))
    /\ UNCHANGED left

\* cleanup_signaling, when the connection to the server is lost or closed
CleanupSignaling ==
    /\ Disconnects /\ InProgress(Now) < MaxClosing
    /\ Become(DetachInputDevice(CleanupCurrentCall(Now)))
    /\ UNCHANGED left

\* Sender::stop has joined one of the tasks of a close: its subscription is gone.
SenderJoined ==
    /\ \E n \in Held \ {0} :
         /\ closing[n] > 0
         /\ Become([Now EXCEPT !.closing = [@ EXCEPT ![n] = @ - 1, ![n - 1] = @ + 1]])
    /\ UNCHANGED left

\* The end of a close: the input is detached unless somebody else is subscribed to it.
CloseDone ==
    /\ closing[0] > 0
    /\ Become(DetachInputDevice([Now EXCEPT !.closing[0] = @ - 1]))
    /\ UNCHANGED left

-----------------------------------------------------------------------------
(* The settings pages. *)

\* audio_start_input_level_meter
AudioStartInputLevelMeter(f) ==
    /\ pages[f] = "off"
    /\ \E opens \in Opens :
         LET r == AttachInputLevelMeter(Now, FALSE, opens) IN
         IF input.kind = "meter" THEN Become([Now EXCEPT !.users = @ + 1, !.pages[f] = "counted"])
         ELSE IF input.kind = "capture" THEN Become([Now EXCEPT !.pages[f] = "uncounted"])
         ELSE IF r.ok THEN Become([r.s EXCEPT !.users = @ + 1, !.pages[f] = "counted"])
         ELSE Become(Now)
    /\ UNCHANGED left

\* audio_stop_input_level_meter
AudioStopInputLevelMeter(f) ==
    /\ pages[f] # "off"
    /\ LET s == [Now EXCEPT !.pages[f] = "off", !.users = IF @ = 0 THEN 0 ELSE @ - 1] IN
       IF input.kind # "meter" THEN Become([Now EXCEPT !.pages[f] = "off"])
       ELSE IF s.users = 0 THEN Become(StopMeterEvent(DetachInputDevice(s)))
       ELSE Become(s)
    /\ UNCHANGED left

\* audio_set_device for the input
AudioSetInputDevice ==
    /\ ~call /\ input # NoInput
    /\ \E opens \in Opens : Become(AttachInputLevelMeter(DetachInputDevice(Now), FALSE, opens).s)
    /\ UNCHANGED left

-----------------------------------------------------------------------------
(* Failures: a stream's error task handles the first error only. *)

StreamFails(changed) ==
    /\ left > 0 /\ input # NoInput /\ ~input.failed
    /\ Become([Now EXCEPT !.input.failed = TRUE,
                          !.errs = @ \union {[n |-> left, meter |-> input.kind = "meter", own |-> TRUE,
                                              restarted |-> input.restarted, changed |-> changed]}])
    /\ left' = left - 1

\* The error task of attach_input_device, once it has the application's lock.
CaptureError(e) ==
    /\ ~e.meter
    /\ Become(CleanupCurrentCall(DiscardInputDevice([Now EXCEPT !.errs = @ \ {e}])))
    /\ UNCHANGED left

\* The error task of attach_input_level_meter: it gives up on a stream that failed again within
\* RESTART_COOLDOWN of a restart unless the device was changed, and else opens the device anew,
\* after the cooldown if need be.
GiveUp(s) == StopMeterEvent(DetachInputDevice(s))

MeterError(e) ==
    /\ e.meter
    /\ LET s == [Now EXCEPT !.errs = @ \ {e}] IN
       \/ e.restarted /\ ~e.changed /\ Become(GiveUp(s))
       \/ \E opens \in Opens :
             LET r == AttachInputLevelMeter(s, TRUE, opens)
             IN  Become(IF r.ok THEN r.s ELSE GiveUp(r.s))
    /\ UNCHANGED left

Next ==
    \/ \E p \in Peers : NegotiatePeer(p) \/ OnPeerConnected(p) \/ OnPeerDisconnected(p) \/ PeerGone(p)
    \/ CallEnds \/ CleanupSignaling \/ SenderJoined \/ CloseDone
    \/ \E f \in Pages : AudioStartInputLevelMeter(f) \/ AudioStopInputLevelMeter(f)
    \/ AudioSetInputDevice
    \/ \E changed \in BOOLEAN : StreamFails(changed)
    \/ \E e \in errs : CaptureError(e) \/ MeterError(e)

\* Senders are joined within STOP_TIMEOUT and every task that is ready to run is run.
Spec == Init /\ [][Next]_vars
             /\ WF_vars(SenderJoined) /\ WF_vars(CloseDone)
             /\ WF_vars(\E e \in errs : CaptureError(e)) /\ WF_vars(\E e \in errs : MeterError(e))

-----------------------------------------------------------------------------
(* Properties. *)

\* Neither the end of an earlier call, nor a level meter that is started, restarted or stopped,
\* takes the microphone from a peer that is being sent to: its sender is subscribed to the stream
\* that is attached, and that stream is a capture stream.
SendersKeepTheirInput ==
    \A p \in Peers :
        /\ peers[p] # "deaf"
        /\ peers[p] = "on" => input.kind = "capture"

\* A call whose microphone fails is ended, however many closes and meters are in progress
\* (attach_input_device's error task, end_call_on_stream_failure).
FailedCaptureEndsTheCall ==
    (input.kind = "capture" /\ input.failed /\ call) ~> ~call

\* The microphone is released: with no call and no page that shows its level, the input is
\* detached in the end (detach_input_after, audio_stop_input_level_meter).
Unused == ~call /\ \A f \in DOMAIN pages : pages[f] = "off"
InputIsReleased == Unused ~> (input = NoInput \/ ~Unused)

\* "The meter is only detached once the last one releases it": the meter that a page was counted
\* for runs until the page stops it or is told that it has stopped.
MeterLastsForItsUsers == \A f \in Pages : pages[f] = "counted" => input.kind = "meter"

\* "Later events ... are stale and must not touch whatever replaced it": the error task of a
\* capture stream that is gone neither drops the input nor ends the call.
StaleErrorsTouchNothing ==
    [][\A e \in errs : (~e.meter /\ ~e.own /\ e \notin errs') => (input' = input /\ call' = call)]_vars

=============================================================================
