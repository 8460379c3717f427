----------------------------- MODULE TrackAudio -----------------------------
(***************************************************************************)
(* The TrackAudio radio (vacs-client/src/radio/track_audio.rs): the latch that *)
(* turns presses and releases into transmit commands, the task that follows    *)
(* TrackAudio's events and the state of the connection, the stations and       *)
(* transmissions it remembers, and the radio:state it reports.  TrackAudio     *)
(* itself and the library that talks to it are external: a socket that drops   *)
(* and comes back, commands and events in order, answers that may come too     *)
(* late.                                                                       *)
(***************************************************************************)
EXTENDS Naturals, FiniteSets, Sequences, TLC

CONSTANTS
    Freqs,          \* frequencies
    Prompt,         \* the events of a lost connection are handled before the key is used, or let go of, again
    Late,           \* answers may miss their timeout
    Lossy,          \* the task may miss events (RecvError::Lagged)
    MaxEvents,      \* events on their way to the task
    MaxKeys, MaxDrops, MaxUses, MaxEnds     \* what happens in a behaviour

Threshold == 3      \* TRANSMIT_FAILURE_THRESHOLD

VARIABLES
    ta,         \* TrackAudio: [voice, ptt, stations, air]
    sock,       \* the connection to it: "up", "down", or "gone" when the client's task has ended
    cmds,       \* transmit commands on their way
    events,     \* what the task has not yet received
    st,         \* TrackAudioState
    shown,      \* the last radio:state, and whether it was an error reported on its own
    task,       \* the events task: [pc, to, answer], with at most one answer
    held,       \* the key the user holds
    caller,     \* the key loop's call of transmit: [pc, active]
    left

vars == <<ta, sock, cmds, events, st, shown, task, held, caller, left>>

None == [f \in {} |-> TRUE]
Idle == [pc |-> "idle", active |-> FALSE]
Stations == UNION {[fs -> [rx : BOOLEAN, tx : BOOLEAN, xca : BOOLEAN]] : fs \in SUBSET Freqs}
Without(f, x) == [y \in DOMAIN f \ {x} |-> f[y]]

(***************************************************************************)
(* TrackAudioState.                                                            *)
(***************************************************************************)
Cleared == [connected |-> FALSE, voice |-> FALSE, transmitting |-> FALSE, ptt |-> FALSE,
            failures |-> 0, receiving |-> {}, stations |-> None]

\* RadioState::from
RadioState(s) ==
    IF ~s.connected THEN "Disconnected"
    ELSE IF ~s.voice THEN "Connected"
    ELSE IF s.failures >= Threshold THEN "Error"
    ELSE IF s.transmitting THEN "TxActive"
    ELSE IF s.receiving # {} THEN "RxActive"
    ELSE IF \E f \in DOMAIN s.stations : s.stations[f].rx THEN "RxIdle"
    ELSE "VoiceConnected"

Emit(s) == shown' = [state |-> RadioState(s), alarm |-> FALSE]
EmitError == shown' = [state |-> "Error", alarm |-> TRUE]

ApplyVoiceConnected(s, voice) == [s EXCEPT !.voice = voice, !.failures = 0]

SetReceiving(s, f, active) == [s EXCEPT !.receiving = IF active THEN @ \union {f} ELSE @ \ {f}]

AddStation(s, f) == [s EXCEPT !.stations = (f :> [rx |-> FALSE, tx |-> FALSE, xca |-> FALSE]) @@ @]
RemoveStation(s, f) == [s EXCEPT !.stations = Without(@, f), !.receiving = @ \ {f}]

UpdateStation(s, f, new) ==
    [s EXCEPT !.stations = (f :> new) @@ @,
              !.receiving = IF f \in DOMAIN s.stations /\ ~new.rx THEN @ \ {f} ELSE @]

SyncStations(s, stations) == [s EXCEPT !.stations = stations, !.receiving = @ \intersect DOMAIN stations]

TypeOK ==
    /\ ta.stations \in Stations /\ ta.air \subseteq DOMAIN ta.stations /\ {ta.voice, ta.ptt, held} \subseteq BOOLEAN
    /\ sock \in {"up", "down", "gone"} /\ Len(events) <= MaxEvents
    /\ st.stations \in Stations /\ st.receiving \subseteq Freqs /\ st.failures \in 0 .. MaxKeys
    /\ {st.connected, st.voice, st.transmitting, st.ptt} \subseteq BOOLEAN
    /\ task.pc \in {"idle", "clear", "voice", "stations", "ended"}
    /\ caller.pc \in {"idle", "swap", "send", "wait", "acked", "sendfailed"}
    /\ task.pc = "ended" => events = <<>>

(***************************************************************************)
(* TrackAudio and its client library.                                          *)
(***************************************************************************)
Send(es) == Len(events \o es) <= MaxEvents /\ events' = IF task.pc = "ended" THEN <<>> ELSE events \o es
Ours == UNCHANGED <<st, shown, task, held>>

\* What the user does in TrackAudio, and what is heard on the frequencies.
Uses == sock = "up" /\ left.uses > 0 /\ left' = [left EXCEPT !.uses = @ - 1] /\ Ours /\ UNCHANGED <<sock, cmds, caller>>

TaVoice ==
    /\ Uses /\ ta' = [ta EXCEPT !.voice = ~@, !.ptt = FALSE, !.air = {}]
    /\ Send((IF ta.ptt THEN <<[type |-> "Tx", active |-> FALSE]>> ELSE <<>>) \o <<[type |-> "Voice", active |-> ~ta.voice]>>)

TaStation(f, new) ==
    /\ Uses /\ ta.voice
    /\ ta' = [ta EXCEPT !.stations = (f :> new) @@ @, !.air = IF new.rx THEN @ ELSE @ \ {f}]
    /\ Send((IF f \in DOMAIN ta.stations THEN <<>> ELSE <<[type |-> "Added", f |-> f]>>)
            \o <<[type |-> "Update", f |-> f, new |-> new]>>)

TaRemove(f) ==
    /\ Uses /\ ta.voice /\ f \in DOMAIN ta.stations
    /\ ta' = [ta EXCEPT !.stations = Without(@, f), !.air = @ \ {f}]
    /\ \E t \in {"Removed", "Unavailable"} : Send(<<[type |-> t, f |-> f]>>)

TaStations == Uses /\ ta.voice /\ UNCHANGED ta /\ Send(<<[type |-> "Stations", stations |-> ta.stations]>>)

TaReceives(f) ==
    /\ Uses /\ ta.voice /\ f \in DOMAIN ta.stations /\ ta.stations[f].rx
    /\ ta' = [ta EXCEPT !.air = IF f \in @ THEN @ \ {f} ELSE @ \union {f}]
    /\ Send(<<[type |-> "Rx", f |-> f, active |-> f \notin ta.air]>>)

\* A command to transmit is carried out, and acknowledged, when TrackAudio is on the network.
TaTransmit ==
    /\ sock = "up" /\ cmds # <<>> /\ cmds' = Tail(cmds)
    /\ LET active == Head(cmds) IN
          /\ ta' = [ta EXCEPT !.ptt = IF ta.voice THEN active ELSE @]
          /\ IF ta.voice /\ ta.ptt # active THEN Send(<<[type |-> "Tx", active |-> active]>>) ELSE UNCHANGED events
          /\ caller' = IF ta.voice /\ caller.pc = "wait" THEN [caller EXCEPT !.pc = "acked"] ELSE caller
    /\ Ours /\ UNCHANGED <<sock, left>>

\* The socket drops: commands are lost, and TrackAudio stops transmitting for us.
Lose ==
    /\ Prompt => caller.pc \notin {"swap", "send"}
    /\ sock' = "down" /\ cmds' = <<>> /\ ta' = [ta EXCEPT !.ptt = FALSE]
    /\ Send(<<[type |-> "Conn", to |-> "Disconnected"], [type |-> "Conn", to |-> "Reconnecting"]>>)

Drop == sock = "up" /\ left.drops > 0 /\ Lose /\ left' = [left EXCEPT !.drops = @ - 1] /\ Ours /\ UNCHANGED caller

Connect ==
    /\ sock = "down" /\ sock' = "up" /\ Send(<<[type |-> "Conn", to |-> "Connected"]>>)
    /\ Ours /\ UNCHANGED <<ta, cmds, caller, left>>

ConnectFails ==
    /\ sock = "down" /\ left.drops > 0 /\ Send(<<[type |-> "Conn", to |-> "ReconnectFailed"]>>)
    /\ left' = [left EXCEPT !.drops = @ - 1]
    /\ Ours /\ UNCHANGED <<ta, sock, cmds, caller>>

\* The client's task ends: nothing is sent any more, and the channel of events is closed.
ClientEnds ==
    /\ sock # "gone" /\ left.ends > 0 /\ sock' = "gone" /\ cmds' = <<>> /\ ta' = [ta EXCEPT !.ptt = FALSE]
    /\ Send(<<[type |-> "Closed"]>>) /\ left' = [left EXCEPT !.ends = @ - 1]
    /\ Ours /\ UNCHANGED caller

(***************************************************************************)
(* events_task.                                                                *)
(***************************************************************************)
Task == UNCHANGED <<ta, sock, cmds, held, caller, left>>
Becomes(s) == st' = s /\ Emit(s)
Rests == task' = [pc |-> "idle", to |-> "Disconnected", answer |-> {}]

Lagged ==
    /\ Lossy /\ task.pc = "idle" /\ events # <<>> /\ Head(events).type \notin {"Conn", "Closed"}
    /\ events' = Tail(events) /\ Task /\ UNCHANGED <<st, shown, task>>

\* What handle_event does at once.
HandleEvent ==
    /\ task.pc = "idle" /\ events # <<>> /\ events' = Tail(events) /\ Task
    /\ LET e == Head(events) IN
          \/ e.type = "Tx" /\ Becomes([st EXCEPT !.transmitting = e.active]) /\ Rests
          \/ e.type = "Rx" /\ Becomes(SetReceiving(st, e.f, e.active)) /\ Rests
          \/ e.type = "Added" /\ Becomes(AddStation(st, e.f)) /\ Rests
          \/ e.type = "Update" /\ Becomes(UpdateStation(st, e.f, e.new)) /\ Rests
          \/ e.type \in {"Removed", "Unavailable"} /\ Becomes(RemoveStation(st, e.f)) /\ Rests
          \/ e.type = "Stations" /\ Becomes(SyncStations(st, e.stations)) /\ Rests
          \/ /\ e.type = "Voice" /\ Becomes(ApplyVoiceConnected(st, e.active))
             /\ task' = [task EXCEPT !.pc = "stations", !.answer = IF e.active THEN {} ELSE {None}]
          \/ e.type = "Failed" /\ EmitError /\ Rests /\ UNCHANGED st
          \/ e.type = "Closed" /\ st' = Cleared /\ EmitError /\ task' = [task EXCEPT !.pc = "ended"]
          \* The recorder is started or stopped first, which takes its time.
          \/ e.type = "Conn" /\ task' = [task EXCEPT !.pc = "clear", !.to = e.to] /\ UNCHANGED <<st, shown>>

HandleConnectionState ==
    /\ task.pc = "clear" /\ Task /\ UNCHANGED events
    /\ \/ /\ task.to = "Connected" /\ Becomes([st EXCEPT !.connected = TRUE])
          /\ task' = [task EXCEPT !.pc = "voice", !.answer = {}]
       \/ task.to \in {"Reconnecting", "Disconnected"} /\ Becomes(Cleared) /\ Rests
       \/ task.to = "ReconnectFailed" /\ st' = Cleared /\ EmitError /\ Rests

\* TrackAudio answers a question of the task.
Answer ==
    /\ sock = "up" /\ task.pc \in {"voice", "stations"} /\ task.answer = {}
    /\ task' = [task EXCEPT !.answer = {IF task.pc = "voice" THEN ta.voice ELSE ta.stations}]
    /\ Task /\ UNCHANGED <<events, st, shown>>

\* Without an answer the task assumes that there is nothing.
OrDefault(default) == IF task.answer = {} /\ (Late \/ sock # "up") THEN {default} ELSE task.answer

VoiceAnswered ==
    /\ task.pc = "voice" /\ \E v \in OrDefault(FALSE) : st' = ApplyVoiceConnected(st, v)
    /\ task' = [task EXCEPT !.pc = "stations", !.answer = {}]
    /\ Task /\ UNCHANGED <<events, shown>>

StationsAnswered ==
    /\ task.pc = "stations" /\ \E s \in OrDefault(None) : Becomes(SyncStations(st, s))
    /\ Rests /\ Task /\ UNCHANGED events

(***************************************************************************)
(* The key and transmit.                                                       *)
(***************************************************************************)
Radio == UNCHANGED <<ta, sock, task>>
At(pc) == caller.pc = pc /\ Radio
Go(pc) == caller' = [caller EXCEPT !.pc = pc]

\* No event of the connection waits to be handled, and none is being handled.
Ready == Prompt => sock # "down" /\ task.pc \in {"idle", "ended"} /\ \A i \in DOMAIN events : events[i].type # "Conn"

Key ==
    /\ caller.pc = "idle" /\ left.keys > 0 /\ Ready
    /\ held' = ~held /\ left' = [left EXCEPT !.keys = @ - 1]
    /\ caller' = [pc |-> "swap", active |-> ~held]
    /\ Radio /\ UNCHANGED <<cmds, events, st, shown>>

\* A call that changes nothing is redundant.
Swap ==
    /\ At("swap") /\ Ready /\ st' = [st EXCEPT !.ptt = caller.active]
    /\ Go(IF st.ptt = caller.active THEN "idle" ELSE "send")
    /\ UNCHANGED <<cmds, events, shown, held, left>>

Transmit ==
    /\ At("send") /\ Ready
    /\ \/ sock = "up" /\ cmds' = Append(cmds, caller.active) /\ Go("wait") /\ UNCHANGED events
       \/ sock = "down" /\ Send(<<[type |-> "Failed"]>>) /\ Go("wait") /\ UNCHANGED cmds
       \/ sock = "gone" /\ Go("sendfailed") /\ UNCHANGED <<cmds, events>>
    /\ UNCHANGED <<st, shown, held, left>>

Acked ==
    /\ At("acked") /\ Go("idle")
    /\ LET s == [st EXCEPT !.failures = 0] IN
          /\ st' = s
          /\ IF st.failures >= Threshold THEN Emit(s) ELSE UNCHANGED shown
    /\ UNCHANGED <<cmds, events, held, left>>

\* The mutant: every failure takes the latch back.
TimeoutRollsBack ==
    /\ At("wait") /\ (Late \/ sock # "up" \/ ~ta.voice) /\ Go("idle")
    /\ Becomes([st EXCEPT !.failures = @ + 1, !.ptt = ~caller.active])
    /\ UNCHANGED <<cmds, events, held, left>>

\* The command was sent, so that the latch stays as it is.
TransmitTimeout ==
    /\ At("wait") /\ (Late \/ sock # "up" \/ ~ta.voice) /\ Go("idle")
    /\ Becomes([st EXCEPT !.failures = @ + 1])
    /\ UNCHANGED <<cmds, events, held, left>>

\* The command was not sent.
SendFailed ==
    /\ At("sendfailed") /\ Go("idle")
    /\ st' = [st EXCEPT !.ptt = ~caller.active, !.failures = @ + 1] /\ EmitError
    /\ UNCHANGED <<cmds, events, held, left>>

\* The user asks for a new connection.
Reconnect ==
    /\ sock = "up" /\ left.drops > 0 /\ left' = [left EXCEPT !.drops = @ - 1]
    /\ Becomes(Cleared) /\ Lose
    /\ UNCHANGED <<task, held, caller>>

\* fast_couple: one command for every station that transmits and is not coupled.
FastCouple ==
    LET fs == {f \in DOMAIN st.stations \intersect DOMAIN ta.stations : st.stations[f].tx /\ ~st.stations[f].xca}
        coupled == [f \in fs |-> [ta.stations[f] EXCEPT !.xca = TRUE]] IN
    /\ sock = "up" /\ ta.voice /\ left.uses > 0 /\ left' = [left EXCEPT !.uses = @ - 1]
    /\ Cardinality(fs) = 1
    /\ ta' = [ta EXCEPT !.stations = coupled @@ @]
    /\ Send(<<[type |-> "Update", f |-> CHOOSE f \in fs : TRUE, new |-> coupled[CHOOSE f \in fs : TRUE]]>>)
    /\ Ours /\ UNCHANGED <<sock, cmds, caller>>

Init ==
    /\ ta \in [voice : BOOLEAN, ptt : {FALSE}, air : {{}},
               stations : UNION {[fs -> {[rx |-> TRUE, tx |-> TRUE, xca |-> FALSE]}] : fs \in SUBSET Freqs}]
    /\ sock = "down" /\ cmds = <<>> /\ events = <<>> /\ st = Cleared
    /\ shown = [state |-> "Disconnected", alarm |-> FALSE]
    /\ task = [pc |-> "idle", to |-> "Disconnected", answer |-> {}] /\ held = FALSE
    /\ caller = Idle
    /\ left = [keys |-> MaxKeys, drops |-> MaxDrops, uses |-> MaxUses, ends |-> MaxEnds]

Settings == {[rx |-> TRUE, tx |-> TRUE, xca |-> FALSE], [rx |-> FALSE, tx |-> FALSE, xca |-> FALSE]}

Next ==
    \/ TaVoice \/ TaStations \/ TaTransmit \/ Drop \/ Connect \/ ConnectFails \/ ClientEnds
    \/ \E f \in Freqs : TaRemove(f) \/ TaReceives(f) \/ \E new \in Settings : TaStation(f, new)
    \/ Lagged \/ HandleEvent \/ HandleConnectionState \/ Answer \/ VoiceAnswered \/ StationsAnswered
    \/ Key \/ Reconnect \/ FastCouple
    \/ Swap \/ Transmit \/ Acked \/ TransmitTimeout \/ SendFailed

Spec == Init /\ [][Next]_vars

Quiet == /\ events = <<>> /\ cmds = <<>> /\ task.pc \in {"idle", "ended"}
         /\ caller.pc = "idle"

\* A released key is a radio that does not transmit: the latch is true whenever TrackAudio was told to
\* transmit, so that the release is sent.
ReleaseReachesTrackAudio == Quiet /\ ~held => ~ta.ptt

\* "A latch stuck at `true` while TrackAudio is not transmitting makes every later press a silent
\* no-op": with the key released the latch is off, as long as there is a client to send to.
LatchIsNotStuck == Quiet /\ ~held /\ sock # "gone" => ~st.ptt

\* The state the user is shown is the one the radio is in: every change is reported, unless an error
\* was reported after it.
ShownIsCurrent == Quiet => shown.alarm \/ shown.state = RadioState(st)

\* The radio knows what TrackAudio knows: after any sequence of lost connections and changes its voice
\* connection and stations are TrackAudio's, and nothing is received or sent that is not.
RemembersTrackAudio ==
    Quiet /\ sock = "up" =>
        /\ st.connected /\ st.voice = ta.voice
        /\ ta.voice => st.stations = ta.stations
        /\ st.receiving \subseteq ta.air /\ (st.transmitting => ta.ptt)

\* Failures collected while TrackAudio was off the network are not an error the instant it connects
\* (apply_voice_connected).
ConnectsWithoutError == ~st.voice /\ st'.voice => RadioState(st') # "Error"

=============================================================================
