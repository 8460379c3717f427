------------------------------ MODULE Keybinds ------------------------------
(***************************************************************************)
(* The keybind engine (vacs-client/src/keybinds): the triggers a configuration *)
(* selects (keybinds.rs), the channel the keyboard listener and the joystick   *)
(* poller write into, the loop that turns presses and releases into radio      *)
(* transmission and microphone muting (engine.rs), and what other threads do   *)
(* to the flags the loop reads: the call that is entered and left              *)
(* (app/state/webrtc.rs), radio prio, and a change of the configuration.       *)
(* A step of the loop ends at every access to a shared flag another thread may *)
(* interfere with.                                                             *)
(***************************************************************************)
EXTENDS Naturals, FiniteSets, Sequences, SequencesExt, TLC

CONSTANTS
    Configs,        \* [mode, ptt, ptm, rptt, prio, radio]: transmit, control and radio configurations
    Inputs,         \* the keys, joystick buttons and portal shortcuts the user may press
    Wayland,        \* Platform::LinuxWayland
    Grain,          \* where other threads may run: when the loop is "idle", at its "await", at "any" access
    Failing,        \* whether an input source may fail to start
    MaxQueue,       \* events on their way to the loop
    MaxKeys, MaxCalls, MaxPrio, MaxConfigs, MaxBinds    \* what happens in a behaviour

VARIABLES
    conf,       \* the configuration the engine uses
    sources,    \* which of "keyboard" and "joystick" feed the loop; {} when the engine is stopped
    held,       \* the inputs that are down
    bound,      \* whether the desktop has a key for the portal's radio shortcut
    queue,      \* key_event_rx
    loops,      \* the event loop, and an aborted one that has not reached an await
    flags,      \* the engine's atomics: call, radio (pressed), active, prio, implicit, tx, follows
    ctl,        \* control keys: whether prio's is held, presses queued, and the handler's place
    entry,      \* where a peer's start is: "idle", "check", "attach"
    mic,        \* the call's input: "none", "muted", "open"
    keyed,      \* the radio transmits
    resets,     \* the task reset_input_state spawned has not run
    left        \* [keys, calls, prio, configs, binds]

vars == <<conf, sources, held, bound, queue, loops, flags, ctl, entry, mic, keyed, resets, left>>

Unbound == <<"none", "none">>
Portal(a) == IF Wayland THEN <<"portal", a>> ELSE Unbound
IsButton(t) == t[1] = "button"

(***************************************************************************)
(* keybinds.rs: which trigger does what.                                       *)
(***************************************************************************)
\* compose_wayland_trigger: a button replaces the portal's shortcut, a key is ignored.
Compose(portal, configured) == IF ~Wayland \/ IsButton(configured) THEN configured ELSE portal

ConfiguredCall(c) == CASE c.mode = "VoiceActivation" -> Unbound
                       [] c.mode = "PushToTalk" -> c.ptt
                       [] c.mode = "PushToMute" -> c.ptm

ActiveCallTrigger(c) ==
    Compose(IF c.mode = "VoiceActivation" THEN Unbound ELSE Portal(c.mode), ConfiguredCall(c))

ConfiguredRadio(c) == CASE c.mode = "VoiceActivation" -> c.rptt
                        [] c.mode = "PushToTalk" -> IF c.rptt # Unbound THEN c.rptt ELSE c.ptt
                        [] c.mode = "PushToMute" -> c.ptm

ActiveRadioTrigger(c) ==
    IF ~c.radio THEN Unbound
    ELSE Compose(Portal(IF c.mode = "PushToMute" THEN "PushToMute" ELSE "RadioPushToTalk"), ConfiguredRadio(c))

FallsBackToCall(c) == c.radio /\ Wayland /\ c.mode = "PushToTalk" /\ ~IsButton(ConfiguredRadio(c))
PrioTrigger(c) == Compose(Portal("ToggleRadioPrio"), c.prio)
Triggers(c) == {ActiveCallTrigger(c), ActiveRadioTrigger(c), PrioTrigger(c)} \ {Unbound}

\* radio_shares_call_trigger
Shares == ActiveRadioTrigger(conf) # Unbound /\ (ActiveRadioTrigger(conf) = ActiveCallTrigger(conf) \/ flags.follows)

NoLoop == [pc |-> "idle", in |-> Unbound, down |-> FALSE, call |-> FALSE, radio |-> FALSE,
           act |-> FALSE, prio |-> FALSE, eff |-> FALSE, mode |-> "PushToTalk"]

TypeOK ==
    /\ conf \in Configs /\ sources \subseteq {"keyboard", "joystick"}
    /\ held \subseteq Inputs /\ {bound, keyed, resets} \subseteq BOOLEAN
    /\ Len(queue) <= MaxQueue /\ \A i \in DOMAIN queue : queue[i].in \in Inputs
    /\ \A w \in {"cur", "old"} : loops[w].pc \in {"idle", "swap", "load", "tx", "send", "await", "mic", "cleanup"}
    /\ loops["old"].pc # "await"
    /\ \A f \in DOMAIN flags : flags[f] \in BOOLEAN
    /\ ctl.queued \in 0 .. 3 /\ ctl.pc \in {"idle", "press"}
    /\ entry \in {"idle", "check", "attach"} /\ mic \in {"none", "muted", "open"}
    /\ sources = {} => queue = <<>> /\ loops["cur"] = NoLoop

(***************************************************************************)
(* Who may run.  Each thread runs alone up to its next await unless Grain is   *)
(* "any"; with "idle" the radio also answers before anybody else runs.         *)
(***************************************************************************)
LoopRests == \A w \in {"cur", "old"} : loops[w].pc \in {"idle", Grain}
OthersRest == entry \in {"idle"} /\ ctl.pc = "idle"
Engine == Grain = "any" \/ LoopRests     \* for the threads other than the loop
Loop == Grain = "any" \/ OthersRest

(***************************************************************************)
(* The inputs.  The poller of the joysticks and the keyboard listener write    *)
(* into the engine's channel while it is there.                                *)
(***************************************************************************)

Reaches(i) == (IF IsButton(i) THEN "joystick" ELSE "keyboard") \in sources
Feed(is, down) ==
    queue' = queue \o [n \in 1 .. Cardinality({i \in is : Reaches(i)}) |->
                          [in |-> SetToSeq({i \in is : Reaches(i)})[n], down |-> down]]
World == UNCHANGED <<conf, sources, loops, flags, ctl, entry, mic, keyed, resets>>

\* A shortcut that is not bound cannot be pressed.
Press(i) ==
    /\ World /\ i \notin held /\ left.keys > 0 /\ Len(queue) < MaxQueue
    /\ i = <<"portal", "RadioPushToTalk">> => bound
    /\ held' = held \union {i} /\ Feed({i}, TRUE)
    /\ left' = [left EXCEPT !.keys = @ - 1] /\ UNCHANGED bound

\* A key that is held repeats; a button does not.
Repeat(i) ==
    /\ World /\ i \in held /\ ~IsButton(i) /\ ~Wayland /\ left.keys > 0 /\ Len(queue) < MaxQueue
    /\ Feed({i}, TRUE)
    /\ left' = [left EXCEPT !.keys = @ - 1] /\ UNCHANGED <<held, bound>>

Release(i) ==
    /\ World /\ i \in held /\ Len(queue) < MaxQueue
    /\ held' = held \ {i} /\ Feed({i}, FALSE)
    /\ UNCHANGED <<bound, left>>

\* JoyDeviceRemoved: a release for every button of the device that was held.
Unplug(d) ==
    LET is == {i \in held : IsButton(i) /\ i[2] = d} IN
    /\ World /\ is # {} /\ Len(queue) + Cardinality(is) <= MaxQueue
    /\ held' = held \ is /\ Feed(is, FALSE)
    /\ UNCHANGED <<bound, left>>

\* The user edits the desktop's shortcuts.
Bind ==
    /\ World /\ Wayland /\ left.binds > 0 /\ <<"portal", "RadioPushToTalk">> \notin held
    /\ bound' = ~bound /\ left' = [left EXCEPT !.binds = @ - 1]
    /\ UNCHANGED <<held, queue>>

(***************************************************************************)
(* The event loop.                                                             *)
(***************************************************************************)
\* HeldControls::transition and try_send: one press per Down that was preceded by an Up.
Control(e) ==
    IF e.in # PrioTrigger(conf) THEN ctl
    ELSE [ctl EXCEPT !.held = e.down,
                     !.queued = IF e.down /\ ~ctl.held /\ @ < 3 THEN @ + 1 ELSE @]

\* refresh_radio_follows_call: never while a key is held.
RefreshRadioFollowsCall(f) ==
    IF ~FallsBackToCall(conf) \/ f.call \/ f.radio THEN f.follows ELSE ~(bound /\ "keyboard" \in sources)

\* classify_trigger
IsCallKey(t) == t = ActiveCallTrigger(conf)
IsRadioKey(t, follows) == IF follows THEN IsCallKey(t) ELSE t = ActiveRadioTrigger(conf)

Receive ==
    /\ Loop /\ loops["cur"].pc = "idle" /\ queue # <<>>
    /\ LET e == Head(queue)
           follows == RefreshRadioFollowsCall(flags)
           call == IsCallKey(e.in)
           radio == IsRadioKey(e.in, follows) IN
          /\ queue' = Tail(queue)
          /\ ctl' = Control(e)
          /\ flags' = [flags EXCEPT !.follows = follows]
          /\ loops' = IF ~call /\ ~radio THEN loops
                      ELSE [loops EXCEPT !["cur"] = [NoLoop EXCEPT !.pc = "swap", !.in = e.in, !.down = e.down,
                                                                 !.call = call, !.radio = radio, !.mode = conf.mode]]
    /\ UNCHANGED <<conf, sources, held, bound, entry, mic, keyed, resets, left>>

At(w, pc) == loops[w].pc = pc /\ (w = "cur" => Loop) /\ UNCHANGED <<conf, sources, held, bound, queue, ctl, entry, resets, left>>

\* An aborted loop ends where it would wait or take the next event.
Then(w, pc) == loops' = [loops EXCEPT ![w] = IF pc = "idle" \/ (w = "old" /\ pc = "await") THEN NoLoop ELSE [@ EXCEPT !.pc = pc]]

Swap(w) ==
    /\ At(w, "swap")
    /\ LET l == loops[w]
           callSame == l.call /\ flags.call = l.down
           radioSame == ~callSame /\ l.radio /\ flags.radio = l.down IN
          /\ flags' = [flags EXCEPT !.call = IF l.call THEN l.down ELSE @,
                                    !.radio = IF l.radio /\ ~callSame THEN l.down ELSE @]
          /\ Then(w, IF callSame \/ radioSame THEN "idle" ELSE "load")
    /\ UNCHANGED <<mic, keyed>>

\* The mutant: without the prio that call entry gives the radio.
LoadIgnoringImplicit(w) ==
    /\ At(w, "load")
    /\ LET l == loops[w]
           eff == flags.prio /\ ~flags.implicit
           keys == l.radio /\ (l.call # l.radio \/ ~flags.active \/ eff \/ l.mode # "PushToTalk") IN
          loops' = [loops EXCEPT ![w] = [l EXCEPT !.act = flags.active, !.prio = flags.prio, !.eff = eff,
                                                  !.pc = IF keys THEN "tx" ELSE "mic"]]
    /\ UNCHANGED <<flags, mic, keyed>>

Load(w) ==
    /\ At(w, "load")
    /\ LET l == loops[w]
           keys == l.radio /\ (l.call # l.radio \/ ~flags.active \/ flags.prio \/ l.mode # "PushToTalk") IN
          loops' = [loops EXCEPT ![w] = [l EXCEPT !.act = flags.active, !.prio = flags.prio,
                                                  !.eff = flags.prio /\ ~flags.implicit,
                                                  !.pc = IF keys THEN "tx" ELSE "mic"]]
    /\ UNCHANGED <<flags, mic, keyed>>

StoreTransmitting(w) ==
    /\ At(w, "tx") /\ Then(w, "send")
    /\ flags' = [flags EXCEPT !.tx = loops[w].down]
    /\ UNCHANGED <<mic, keyed>>

\* set_radio_transmit: the request is made, and its answer awaited.
SetRadioTransmit(w) ==
    /\ At(w, "send") /\ Then(w, "await")
    /\ keyed' = loops[w].down
    /\ UNCHANGED <<flags, mic>>

Answered(w) ==
    /\ At(w, "await") /\ Then(w, "mic")
    /\ UNCHANGED <<flags, mic, keyed>>

SetInputMuted(muted) == mic' = IF mic = "none" THEN "none" ELSE IF muted THEN "muted" ELSE "open"

\* What the event does to the microphone: a set of at most one value of `muted`.
MicAction(l) ==
    IF ~l.act \/ l.mode = "VoiceActivation" THEN {}
    ELSE IF l.mode = "PushToTalk" THEN (IF l.call THEN {~l.down \/ l.eff} ELSE {})
    ELSE IF l.eff THEN {} ELSE {l.down}

Mic(w) ==
    /\ At(w, "mic")
    /\ IF MicAction(loops[w]) = {} THEN UNCHANGED mic
       ELSE SetInputMuted(CHOOSE m \in MicAction(loops[w]) : TRUE)
    /\ Then(w, IF ~loops[w].down /\ loops[w].radio THEN "cleanup" ELSE "idle")
    /\ UNCHANGED <<flags, keyed>>

\* The end of an implicit prio; one that was taken back in between still owes the radio its release.
Cleanup(w) ==
    /\ At(w, "cleanup") /\ Then(w, "idle")
    /\ flags' = IF ~flags.implicit THEN flags
                ELSE [flags EXCEPT !.implicit = FALSE, !.prio = FALSE, !.tx = IF flags.prio THEN @ ELSE FALSE]
    /\ keyed' = IF flags.implicit /\ ~flags.prio THEN FALSE ELSE keyed
    /\ UNCHANGED mic

LoopStep(w) ==
    \/ Swap(w) \/ Load(w) \/ StoreTransmitting(w) \/ SetRadioTransmit(w)
    \/ Answered(w) \/ Mic(w) \/ Cleanup(w)

(***************************************************************************)
(* The call: set_call_active and the input device.                             *)
(***************************************************************************)
Call == Engine /\ (Grain = "any" \/ ctl.pc = "idle") /\ UNCHANGED <<conf, sources, held, bound, queue, loops, ctl, keyed, resets>>

PeerConnected ==
    /\ Call /\ entry = "idle" /\ left.calls > 0
    /\ flags' = [flags EXCEPT !.active = TRUE] /\ entry' = "check"
    /\ left' = [left EXCEPT !.calls = @ - 1]
    /\ UNCHANGED mic

\* The rest of set_call_active(true): who is heard on the radio stays on the radio.
ImplicitPrio ==
    /\ Call /\ entry = "check" /\ entry' = "attach"
    /\ LET implicit == Shares /\ flags.radio /\ flags.tx /\ ~flags.prio /\ conf.mode # "VoiceActivation" IN
          flags' = [flags EXCEPT !.prio = @ \/ implicit, !.implicit = @ \/ implicit]
    /\ UNCHANGED <<mic, left>>

AttachInputMuted ==
    CASE conf.mode = "VoiceActivation" -> flags.prio
      [] conf.mode = "PushToTalk" -> ~flags.call \/ (flags.radio /\ flags.prio /\ (ActiveRadioTrigger(conf) = Unbound \/ Shares))
      [] conf.mode = "PushToMute" -> flags.call \/ flags.prio

AttachInputDevice ==
    /\ Call /\ entry = "attach" /\ entry' = "idle"
    /\ mic' = IF AttachInputMuted THEN "muted" ELSE "open"
    /\ UNCHANGED <<flags, left>>

\* set_call_active(false), and the input's end when the peers have been shut down.
CallEnds ==
    /\ Call /\ entry = "idle" /\ flags.active
    /\ flags' = [flags EXCEPT !.active = FALSE, !.prio = FALSE, !.implicit = FALSE]
    /\ UNCHANGED <<entry, mic, left>>

DetachInput ==
    /\ Call /\ entry = "idle" /\ ~flags.active /\ mic # "none"
    /\ mic' = "none"
    /\ UNCHANGED <<flags, entry, left>>

(***************************************************************************)
(* Radio prio, from the control key's handler or the button.                   *)
(***************************************************************************)
Prio == Engine /\ entry = "idle" /\ UNCHANGED <<conf, sources, held, bound, queue, loops, entry, keyed, resets>>

SwapPrio(prio) == flags' = [flags EXCEPT !.prio = prio]

\* handle_control_event: a toggle of what radio_prio() says.
PrioKey ==
    /\ Prio /\ ctl.queued > 0 /\ ctl.pc = "idle"
    /\ IF flags.active
       THEN /\ SwapPrio(~(flags.prio \/ flags.implicit))
            /\ ctl' = [ctl EXCEPT !.queued = @ - 1, !.pc = "press", !.was = flags.prio]
       ELSE UNCHANGED flags /\ ctl' = [ctl EXCEPT !.queued = @ - 1]
    /\ UNCHANGED <<mic, left>>

PrioButton(prio) ==
    /\ Prio /\ ctl.pc = "idle" /\ flags.active /\ left.prio > 0
    /\ SwapPrio(prio)
    /\ ctl' = [ctl EXCEPT !.pc = "press", !.was = flags.prio]
    /\ left' = [left EXCEPT !.prio = @ - 1]
    /\ UNCHANGED mic

\* The rest of set_radio_prio.
PrioSet ==
    /\ Prio /\ ctl.pc = "press"
    /\ ctl' = [ctl EXCEPT !.pc = "idle"]
    /\ flags' = [flags EXCEPT !.implicit = @ \/ (~flags.prio /\ ctl.was /\ flags.radio)]
    /\ IF conf.mode = "VoiceActivation" \/ (conf.mode = "PushToMute" /\ ~flags.call)
       THEN SetInputMuted(flags.prio) ELSE UNCHANGED mic
    /\ UNCHANGED left

(***************************************************************************)
(* set_config: stop, reset_input_state, start.                                 *)
(***************************************************************************)

\* The radio is released by a task of its own when the key's release will never be seen.
ResetInputState(f) == [f EXCEPT !.call = FALSE, !.radio = FALSE, !.tx = FALSE]

\* Which inputs the engine listens to: a listener that fails leaves the other source in use.
Start(c) ==
    {s \in SUBSET {"keyboard", "joystick"} :
        /\ Triggers(c) = {} => s = {}
        /\ "joystick" \in s => \E t \in Triggers(c) : IsButton(t)
        /\ ~Failing /\ Triggers(c) # {} =>
              /\ "keyboard" \in s
              /\ (\E t \in Triggers(c) : IsButton(t)) => "joystick" \in s}

SetConfig(c) ==
    /\ Engine /\ OthersRest /\ left.configs > 0
    /\ conf' = c /\ left' = [left EXCEPT !.configs = @ - 1]
    /\ sources' \in Start(c)
    /\ loops' = [cur |-> NoLoop,
                 old |-> IF loops["cur"].pc \in {"idle", "await"} THEN loops["old"] ELSE loops["cur"]]
    /\ queue' = <<>> /\ ctl' = [ctl EXCEPT !.held = FALSE, !.queued = 0]
    /\ LET f == ResetInputState(flags) IN
          /\ flags' = [f EXCEPT !.follows = FallsBackToCall(c) /\ (sources' # {} => ~(bound /\ "keyboard" \in sources'))]
          /\ resets' = (resets \/ (flags.tx /\ ~f.tx))
    /\ SetInputMuted(c.mode = "PushToTalk")
    /\ UNCHANGED <<held, bound, entry, keyed>>

ResetTask ==
    /\ resets /\ resets' = FALSE /\ keyed' = FALSE
    /\ UNCHANGED <<conf, sources, held, bound, queue, loops, flags, ctl, entry, mic, left>>

Init ==
    /\ conf \in Configs /\ sources \in {s \in Start(conf) : Triggers(conf) # {} => s # {}}
    /\ held = {} /\ bound \in (IF Wayland THEN BOOLEAN ELSE {FALSE}) /\ queue = <<>>
    /\ loops = [cur |-> NoLoop, old |-> NoLoop]
    /\ flags = [call |-> FALSE, radio |-> FALSE, active |-> FALSE, prio |-> FALSE, implicit |-> FALSE,
                tx |-> FALSE, follows |-> FallsBackToCall(conf) /\ ~(bound /\ "keyboard" \in sources)]
    /\ ctl = [held |-> FALSE, queued |-> 0, pc |-> "idle", was |-> FALSE]
    /\ entry = "idle" /\ mic = "none" /\ keyed = FALSE /\ resets = FALSE
    /\ left = [keys |-> MaxKeys, calls |-> MaxCalls, prio |-> MaxPrio, configs |-> MaxConfigs, binds |-> MaxBinds]

Next ==
    \/ \E i \in Inputs : Press(i) \/ Repeat(i) \/ Release(i)
    \/ \E d \in {i[2] : i \in {j \in Inputs : IsButton(j)}} : Unplug(d)
    \/ Bind \/ Receive \/ \E w \in {"cur", "old"} : LoopStep(w)
    \/ PeerConnected \/ ImplicitPrio \/ AttachInputDevice \/ CallEnds \/ DetachInput
    \/ PrioKey \/ (\E p \in BOOLEAN : PrioButton(p)) \/ PrioSet
    \/ (\E c \in Configs : SetConfig(c)) \/ ResetTask

Spec == Init /\ [][Next]_vars

Quiet == /\ queue = <<>> /\ \A w \in {"cur", "old"} : loops[w].pc = "idle"
         /\ OthersRest /\ ctl.queued = 0 /\ ~resets
InCall == Quiet /\ flags.active /\ mic # "none"
RadioInputs == {ActiveRadioTrigger(conf)} \union (IF FallsBackToCall(conf) THEN {ActiveCallTrigger(conf)} ELSE {})

\* With the radio's key released the radio does not transmit, whatever happened between its press and
\* its release: a call entered or left, prio given and taken back, a new configuration, an unplugged
\* joystick ("leaves the radio transmitting with no key left to release it", reset_input_state).
ReleasedMeansSilent == Quiet /\ held \intersect RadioInputs = {} => ~keyed

\* With no key held, push-to-talk is muted, and the other modes are open unless prio is on
\* (CallMicMode: "open while `push_to_talk` is held", "closed while `push_to_mute` is held").
MicFollowsKeys ==
    InCall /\ held = {} => IF conf.mode = "PushToTalk" THEN mic = "muted"
                           ELSE mic = "open" \/ flags.prio

\* While push-to-talk is held the call is spoken to, unless the same press keys the radio (stated for
\* runs without prio, which holds the microphone back until the next press).
TalkingIsHeard == InCall /\ conf.mode = "PushToTalk" /\ flags.call /\ ~keyed => mic = "open"

\* What is said on the radio with the key that also drives the call is not heard in the call.
RadioIsNotHeardInTheCall == InCall /\ Shares /\ flags.call /\ keyed => mic = "muted"

\* "Radio prio mutes the call mic in these modes" (attach_input_muted, see set_radio_prio).
PrioMutes == InCall /\ flags.prio /\ conf.mode # "PushToTalk" => mic = "muted"

\* "PTT-Diff: call PTT alone determines MIC state; prio has no effect" (attach_input_muted).
SeparateKeysIgnorePrio ==
    InCall /\ conf.mode = "PushToTalk" /\ ActiveRadioTrigger(conf) # Unbound /\ ~Shares =>
        ((mic = "open") <=> flags.call)

=============================================================================
