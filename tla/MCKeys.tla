------------------------------- MODULE MCKeys -------------------------------
(***************************************************************************)
(* The client's keys and its radio, for TLC: the capture of a joystick       *)
(* button (JoystickCapture), the keybind engine (Keybinds) and the TrackAudio *)
(* radio (TrackAudio).  They share no variable: a behaviour is one of the    *)
(* component that part names, the others stay as they start.                 *)
(***************************************************************************)
EXTENDS JoystickCapture

CONSTANTS d1, d2, f1, f2

VARIABLES
    part,
    deskUi, deskCall, deskCancel, deskActive, deskIgnored, deskLeft,                                \* JoystickCapture
    conf, sources, keyHeld, bound, queue, loops, flags, ctl, entry, mic, keyed, resets, keyLeft,    \* Keybinds
    ta, sock, cmds, events, st, shown, task, held, caller, taLeft                                   \* TrackAudio

deskVars == <<deskUi, deskCall, deskCancel, deskActive, deskIgnored, deskLeft>>
keyVars  == <<conf, sources, keyHeld, bound, queue, loops, flags, ctl, entry, mic, keyed, resets, keyLeft>>
taVars   == <<ta, sock, cmds, events, st, shown, task, held, caller, taLeft>>

-----------------------------------------------------------------------------
(* JoystickCapture: the instance of the configuration file has pages on the *)
(* desktop and in a browser at a time; here pages of the desktop are open    *)
(* one after the other while the ignored devices change.                     *)

Desk == INSTANCE JoystickCapture WITH
    Sessions <- {d1, d2}, Remote <- {}, MaxPress <- 2, MaxIgnore <- 1, Parallel <- 1,
    ui <- deskUi, call <- deskCall, cancel <- deskCancel, active <- deskActive, ignored <- deskIgnored,
    left <- deskLeft

-----------------------------------------------------------------------------
(* Keybinds.                                                                *)

KeyA == <<"key", "A">>
KeyB == <<"key", "B">>
KeyP == <<"key", "P">>
Stick == <<"button", "stick">>

Conf(mode, ptt, ptm, rptt) == [mode |-> mode, ptt |-> ptt, ptm |-> ptm, rptt |-> rptt, prio |-> KeyP, radio |-> TRUE]

NoKey == <<"none", "none">>
PttSame == Conf("PushToTalk", KeyA, NoKey, NoKey)
PttDiff == Conf("PushToTalk", KeyA, NoKey, KeyB)
PttStick == Conf("PushToTalk", KeyA, NoKey, Stick)
Ptm == Conf("PushToMute", NoKey, KeyA, NoKey)
Voice == Conf("VoiceActivation", NoKey, NoKey, KeyA)
NoRadio == [PttSame EXCEPT !.radio = FALSE]

\* Calls come and go, in every layout of the keys.
CallKeys == INSTANCE Keybinds WITH
    Configs <- {PttSame, PttDiff, Ptm, Voice}, Inputs <- {KeyA, KeyB}, Wayland <- FALSE, Grain <- "await",
    Failing <- FALSE, MaxQueue <- 2, MaxKeys <- 4, MaxCalls <- 2, MaxPrio <- 0, MaxConfigs <- 0, MaxBinds <- 0,
    held <- keyHeld, left <- keyLeft

\* Prio is given and taken back by a key.
PrioKeys == INSTANCE Keybinds WITH
    Configs <- {PttSame, Ptm, Voice}, Inputs <- {KeyA, KeyP}, Wayland <- FALSE, Grain <- "idle",
    Failing <- FALSE, MaxQueue <- 1, MaxKeys <- 4, MaxCalls <- 2, MaxPrio <- 1, MaxConfigs <- 0, MaxBinds <- 0,
    held <- keyHeld, left <- keyLeft

\* The configuration changes, the joystick is unplugged, listeners fail to start.
NewKeys == INSTANCE Keybinds WITH
    Configs <- {PttStick, Voice, NoRadio}, Inputs <- {KeyA, Stick}, Wayland <- FALSE, Grain <- "await",
    Failing <- TRUE, MaxQueue <- 2, MaxKeys <- 4, MaxCalls <- 1, MaxPrio <- 0, MaxConfigs <- 2, MaxBinds <- 0,
    held <- keyHeld, left <- keyLeft

\* Wayland's portal binds the keys, and binds them anew.
PortalKeys == INSTANCE Keybinds WITH
    Configs <- {PttSame}, Inputs <- {<<"portal", "PushToTalk">>, <<"portal", "RadioPushToTalk">>},
    Wayland <- TRUE, Grain <- "await", Failing <- FALSE,
    MaxQueue <- 2, MaxKeys <- 3, MaxCalls <- 2, MaxPrio <- 1, MaxConfigs <- 0, MaxBinds <- 2,
    held <- keyHeld, left <- keyLeft

-----------------------------------------------------------------------------
(* TrackAudio: presses of the key with lost and late answers; with prompt    *)
(* ones; TrackAudio's own changes and lost connections.                      *)

RadioKeys == INSTANCE TrackAudio WITH
    Freqs <- {f1}, Prompt <- FALSE, Late <- TRUE, Lossy <- TRUE,
    MaxEvents <- 2, MaxKeys <- 4, MaxDrops <- 1, MaxUses <- 1, MaxEnds <- 1, left <- taLeft

RadioPrompt == INSTANCE TrackAudio WITH
    Freqs <- {f1}, Prompt <- TRUE, Late <- TRUE, Lossy <- FALSE,
    MaxEvents <- 2, MaxKeys <- 3, MaxDrops <- 2, MaxUses <- 1, MaxEnds <- 1, left <- taLeft

RadioEvents == INSTANCE TrackAudio WITH
    Freqs <- {f1, f2}, Prompt <- FALSE, Late <- FALSE, Lossy <- FALSE,
    MaxEvents <- 3, MaxKeys <- 0, MaxDrops <- 2, MaxUses <- 3, MaxEnds <- 0, left <- taLeft

-----------------------------------------------------------------------------

PartInit ==
    /\ part \in {"both", "desk", "call_keys", "prio", "new_keys", "portal", "radio_keys", "prompt", "events"}
    /\ Init /\ (part # "both" => ignored = {})
    /\ Desk!Init /\ (part # "desk" => deskIgnored = {})
    /\ CASE part = "call_keys" -> CallKeys!Init
         [] part = "prio"      -> PrioKeys!Init
         [] part = "new_keys"  -> NewKeys!Init
         [] part = "portal"    -> PortalKeys!Init
         [] OTHER              -> NewKeys!Init /\ conf = NoRadio /\ sources = {"keyboard"}
    /\ CASE part = "radio_keys" -> RadioKeys!Init
         [] part = "prompt"     -> RadioPrompt!Init
         [] part = "events"     -> RadioEvents!Init
         [] OTHER               -> RadioKeys!Init /\ ta.stations = <<>> /\ ~ta.voice

PartNext ==
    \/ part = "both" /\ Next /\ UNCHANGED <<part, deskVars, keyVars, taVars>>
    \/ part = "desk" /\ Desk!Next /\ UNCHANGED <<part, vars, keyVars, taVars>>
    \/ part = "call_keys" /\ CallKeys!Next /\ UNCHANGED <<part, vars, deskVars, taVars>>
    \/ part = "prio" /\ PrioKeys!Next /\ UNCHANGED <<part, vars, deskVars, taVars>>
    \/ part = "new_keys" /\ NewKeys!Next /\ UNCHANGED <<part, vars, deskVars, taVars>>
    \/ part = "portal" /\ PortalKeys!Next /\ UNCHANGED <<part, vars, deskVars, taVars>>
    \/ part = "radio_keys" /\ RadioKeys!Next /\ UNCHANGED <<part, vars, deskVars, keyVars>>
    \/ part = "prompt" /\ RadioPrompt!Next /\ UNCHANGED <<part, vars, deskVars, keyVars>>
    \/ part = "events" /\ RadioEvents!Next /\ UNCHANGED <<part, vars, deskVars, keyVars>>

\* the fairness of JoystickCapture's FairSpec
PartSpec ==
    /\ PartInit /\ [][PartNext]_<<part, vars, deskVars, keyVars, taVars>>
    /\ \A s \in {d1, d2} : /\ WF_deskVars(part = "desk" /\ Desk!Step(s))
                           /\ WF_deskVars(part = "desk" /\ (Desk!TimesOut(s) \/ Desk!DispatchTimesOut(s)))

-----------------------------------------------------------------------------
(* Properties of the components, in the part they belong to.                *)


\* The microphone follows the keys: with the radio's key released the radio is silent, with no key
\* held the call's microphone is as its mode and prio have it, and what is said into the call or
\* on the radio is heard there and nowhere else, through calls, new settings, failing listeners
\* and new portal bindings (KeybindEngine).
MicrophoneFollowsKeys ==
    /\ part = "call_keys" => /\ CallKeys!ReleasedMeansSilent /\ CallKeys!MicFollowsKeys
                             /\ CallKeys!RadioIsNotHeardInTheCall
    /\ part = "new_keys" => /\ NewKeys!TypeOK /\ NewKeys!ReleasedMeansSilent /\ NewKeys!MicFollowsKeys
                            /\ NewKeys!TalkingIsHeard
    /\ part = "portal" => PortalKeys!ReleasedMeansSilent /\ PortalKeys!RadioIsNotHeardInTheCall
    /\ part = "prio" => PrioKeys!PrioMutes

\* A released key is a latch that is off and a TrackAudio that does not transmit, whatever answers
\* are lost or late; the radio remembers of TrackAudio what TrackAudio is, shows its own state, and
\* does not connect with the failures of the time before (TrackAudioRadio).
RadioFollowsTheKey ==
    /\ [](part = "radio_keys" => RadioKeys!TypeOK /\ RadioKeys!LatchIsNotStuck /\ RadioKeys!ShownIsCurrent)
    /\ [](part = "prompt" => RadioPrompt!ReleaseReachesTrackAudio)
    /\ [](part = "events" => RadioEvents!RemembersTrackAudio)
    /\ [][part = "radio_keys" => RadioKeys!ConnectsWithoutError]_taVars

=============================================================================
