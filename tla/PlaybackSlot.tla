---------------------------- MODULE PlaybackSlot ----------------------------
(***************************************************************************)
(* The slot that holds the running playback recorder, and who fills and        *)
(* empties it (vacs-client/src/playback.rs, playback/commands.rs,              *)
(* radio/track_audio.rs, radio/commands.rs): the command that turns playback   *)
(* on and off, the events of the radio's connection, a change of the radio     *)
(* configuration, and the commands that play a recorded clip.  Each is a       *)
(* process that awaits between its steps; all recorders share one directory.   *)
(***************************************************************************)
EXTENDS Naturals, FiniteSets, Sequences, Functions, TLC

CONSTANTS
    Toggles,        \* calls of playback_set_enabled
    Plays,          \* calls of playback_start and playback_say_again
    MaxRadios,      \* radios created by radio_set_config, the first one included
    MaxOps,         \* operations in a behaviour
    MaxClips,       \* clips recorded in a behaviour
    Overlap,        \* whether an operation may begin while another one is in progress
    Lagging,        \* whether the radio may miss that its connection was lost
    Starts          \* whether a source can be started: {TRUE} or BOOLEAN

ASSUME PlaybackSlotAssumption ==
    /\ IsFiniteSet(Toggles) /\ IsFiniteSet(Plays)
    /\ {MaxRadios, MaxOps, MaxClips} \subseteq Nat \ {0}
    /\ {Overlap, Lagging} \subseteq BOOLEAN /\ Starts \subseteq BOOLEAN

VARIABLES
    enabled,    \* config.client.playback.enabled
    lock,       \* who holds the AppState lock, or Free
    radio,      \* RadioHandle: the radio in use, 0 for none
    link,       \* what each radio's state says of its connection
    slot,       \* [rec, playing]: PlaybackRecorderHandle, rec 0 when it is empty
    recs,       \* the recorders created so far: [state, clips]
    files,      \* <<recorder, clip>> of the clip files in the directory
    sources,    \* the clips the audio manager plays
    ops,        \* where each operation is: [pc, rec, src]; `to`: what the radio's state becomes
    left        \* [ops, clips, src]

vars == <<enabled, lock, radio, link, slot, recs, files, sources, ops, left>>

Free == <<"free", 0>>
Config == <<"config", 0>>
Radios == 1 .. MaxRadios
Events == {<<"radio", g>> : g \in Radios}
Lifecycle == Toggles \union Events \union {Config}
Op == Lifecycle \union Plays
Empty == [rec |-> 0, playing |-> 0]
Idle == [pc |-> "idle", rec |-> 0, src |-> 0, to |-> "down"]
InProgress(set) == {o \in set : ops[o].pc # "idle"}
Recs == DOMAIN recs

TypeOK ==
    /\ enabled \in BOOLEAN /\ lock \in Lifecycle \union {Free}
    /\ radio \in 0 .. MaxRadios /\ link \in [Radios -> {"none", "down", "up"}]
    /\ slot.rec \in 0 .. Len(recs) /\ (slot.rec = 0 => slot.playing = 0)
    /\ \A r \in Recs : recs[r].state \in {"opening", "running", "gone"}
    /\ files \subseteq Recs \X (1 .. MaxClips)
    /\ sources \subseteq 1 .. MaxOps
    /\ \A o \in Op : ops[o].rec \in 0 .. Len(recs)
    /\ left.ops \in 0 .. MaxOps /\ left.clips \in 0 .. MaxClips

\* A new operation begins.
Begin(o, pc) ==
    /\ ops[o].pc = "idle" /\ left.ops > 0
    /\ Overlap \/ InProgress(IF o \in Plays THEN Lifecycle ELSE Op) = {}
    /\ ops' = [ops EXCEPT ![o] = [Idle EXCEPT !.pc = pc, !.to = IF pc = "connected" THEN "up" ELSE "down"]]
    /\ left' = [left EXCEPT !.ops = @ - 1]

At(o, pc) == ops[o].pc = pc
Goto(o, pc) == ops' = [ops EXCEPT ![o].pc = pc]

\* What an operation does once its recorder is started or stopped.
After(o) == CASE o \in Toggles -> "idle" [] o \in Events -> "apply" [] o = Config -> "create"

(***************************************************************************)
(* playback_set_enabled                                                        *)
(***************************************************************************)

SetEnabled(o) ==
    /\ lock = Free
    /\ \E v \in BOOLEAN : /\ v # enabled
                          /\ enabled' = v
                          /\ Begin(o, IF v THEN "live" ELSE "stop")
    /\ UNCHANGED <<lock, radio, link, slot, recs, files, sources>>

StartLive(o) ==
    /\ At(o, "live")
    /\ Goto(o, IF radio # 0 /\ link[radio] = "up" THEN "open" ELSE "idle")
    /\ UNCHANGED <<enabled, lock, radio, link, slot, recs, files, sources, left>>

(***************************************************************************)
(* PlaybackConfig::start                                                       *)
(***************************************************************************)
\* ClipStore::open deletes what is in the directory; the source is started after that.
OpenStore(o) ==
    /\ At(o, "open")
    /\ recs' = Append(recs, [state |-> "opening", clips |-> {}])
    /\ files' = {}
    /\ ops' = [ops EXCEPT ![o].pc = "spawn", ![o].rec = Len(recs) + 1]
    /\ UNCHANGED <<enabled, lock, radio, link, slot, sources, left>>

Failed(o) ==
    /\ recs' = [recs EXCEPT ![ops[o].rec].state = "gone"]
    /\ Goto(o, After(o)) /\ UNCHANGED slot


\* The new recorder is swapped in before the old one is awaited.
Spawn(o) ==
    /\ At(o, "spawn")
    /\ \/ /\ TRUE \in Starts
          /\ recs' = [recs EXCEPT ![ops[o].rec].state = "running"]
          /\ slot' = [Empty EXCEPT !.rec = ops[o].rec]
          /\ ops' = [ops EXCEPT ![o] = [@ EXCEPT !.rec = slot.rec, !.pc = IF slot.rec = 0 THEN After(o) ELSE "await"]]
       \/ FALSE \in Starts /\ Failed(o)
    /\ UNCHANGED <<enabled, lock, radio, link, files, sources, left>>

\* shutdown().await of the recorder that was replaced or taken: the clip it is writing is completed.
Shutdown(o) ==
    /\ At(o, "await")
    /\ LET r == ops[o].rec IN
          \E more \in {{}} \union (IF left.clips > 0 THEN {{left.clips}} ELSE {}) :
             /\ recs' = [recs EXCEPT ![r] = [state |-> "gone", clips |-> @.clips \union more]]
             /\ files' = files \union {<<r, c>> : c \in more}
             /\ left' = [left EXCEPT !.clips = @ - Cardinality(more)]
    /\ Goto(o, After(o))
    /\ UNCHANGED <<enabled, lock, radio, link, slot, sources>>

(***************************************************************************)
(* Turning it off: stop_playing_source, take, shutdown.                        *)
(***************************************************************************)
StopPlayingSource ==
    /\ sources' = sources \ {slot.playing}
    /\ slot' = [slot EXCEPT !.playing = 0]

StopPlaying(o) ==
    /\ At(o, "stop")
    /\ StopPlayingSource /\ Goto(o, "take")
    /\ UNCHANGED <<enabled, lock, radio, link, recs, files, left>>

TakeRecorder(o) ==
    /\ At(o, "take")
    /\ slot' = Empty
    /\ ops' = [ops EXCEPT ![o] = [@ EXCEPT !.rec = slot.rec, !.pc = IF slot.rec = 0 THEN After(o) ELSE "await"]]
    /\ UNCHANGED <<enabled, lock, radio, link, recs, files, sources, left>>

(***************************************************************************)
(* The radio's events task, one event at a time: the recorder first, then the  *)
(* radio's own state.                                                          *)
(***************************************************************************)
Current(g) == link[g] # "none" /\ (radio = g \/ (radio = 0 /\ \A h \in Radios : h > g => link[h] = "none"))

Connected(g) ==
    /\ Current(g) /\ (link[g] = "down" \/ Lagging)
    /\ Begin(<<"radio", g>>, "connected")
    /\ UNCHANGED <<enabled, lock, radio, link, slot, recs, files, sources>>

\* The lock is held until the recorder is started.
StartOnConnect(g) ==
    LET o == <<"radio", g>> IN
    /\ At(o, "connected") /\ lock = Free
    /\ IF radio # 0 /\ enabled THEN lock' = o /\ Goto(o, "open")
                               ELSE UNCHANGED lock /\ Goto(o, "apply")
    /\ UNCHANGED <<enabled, radio, link, slot, recs, files, sources, left>>

Disconnected(g) ==
    /\ Current(g) /\ link[g] = "up"
    /\ Begin(<<"radio", g>>, "stop")
    /\ UNCHANGED <<enabled, lock, radio, link, slot, recs, files, sources>>

\* The lock is released; then handle_connection_state.
Unlock(o) ==
    /\ At(o, "apply") /\ lock = o /\ lock' = Free
    /\ UNCHANGED <<enabled, radio, link, slot, recs, files, sources, ops, left>>

HandleConnectionState(g) ==
    LET o == <<"radio", g>> IN
    /\ At(o, "apply") /\ lock # o
    /\ link' = [link EXCEPT ![g] = ops[o].to]
    /\ ops' = [ops EXCEPT ![o] = Idle]
    /\ UNCHANGED <<enabled, lock, radio, slot, recs, files, sources, left>>

(***************************************************************************)
(* radio_set_config                                                            *)
(***************************************************************************)
SetConfig ==
    /\ lock = Free /\ Begin(Config, "stop")
    /\ radio' = 0
    /\ UNCHANGED <<enabled, lock, link, slot, recs, files, sources>>

\* The new radio connects on its own from here on, before it is in the handle.
CreateRadio ==
    /\ At(Config, "create")
    /\ \/ \E g \in Radios : /\ link[g] = "none" /\ (\A h \in Radios : h < g => link[h] # "none")
                            /\ link' = [link EXCEPT ![g] = "down"]
                            /\ Goto(Config, "install")
       \/ Goto(Config, "idle") /\ UNCHANGED link
    /\ UNCHANGED <<enabled, lock, radio, slot, recs, files, sources, left>>

InstallRadio ==
    /\ At(Config, "install") /\ lock = Free
    /\ radio' = CHOOSE g \in Radios : link[g] # "none" /\ \A h \in Radios : h > g => link[h] = "none"
    /\ Goto(Config, "idle")
    /\ UNCHANGED <<enabled, lock, link, slot, recs, files, sources, left>>

(***************************************************************************)
(* start_clip, playback_stop, and the recorder's own work.                     *)
(***************************************************************************)
StartClip(p) ==
    /\ slot.rec # 0 /\ recs[slot.rec].clips # {}
    /\ StopPlayingSource /\ Begin(p, "load")
    /\ UNCHANGED <<enabled, lock, radio, link, recs, files>>

LoadClip(p) ==
    /\ At(p, "load")
    /\ \/ /\ sources' = sources \union {left.src}
          /\ left' = [left EXCEPT !.src = @ + 1]
          /\ ops' = [ops EXCEPT ![p].pc = "register", ![p].src = left.src]
       \/ Goto(p, "idle") /\ UNCHANGED <<sources, left>>
    /\ UNCHANGED <<enabled, lock, radio, link, slot, recs, files>>

\* "the later one wins and removes the other"
RegisterSource(p) ==
    /\ At(p, "register")
    /\ IF slot.rec = 0 THEN sources' = sources \ {ops[p].src} /\ UNCHANGED slot
       ELSE sources' = sources \ {slot.playing} /\ slot' = [slot EXCEPT !.playing = ops[p].src]
    /\ ops' = [ops EXCEPT ![p] = Idle]
    /\ UNCHANGED <<enabled, lock, radio, link, recs, files, left>>

PlaybackStop ==
    /\ slot.playing # 0 /\ StopPlayingSource
    /\ UNCHANGED <<enabled, lock, radio, link, recs, files, ops, left>>

RecordClip(r) ==
    /\ recs[r].state = "running" /\ left.clips > 0
    /\ recs' = [recs EXCEPT ![r].clips = @ \union {left.clips}]
    /\ files' = files \union {<<r, left.clips>>}
    /\ left' = [left EXCEPT !.clips = @ - 1]
    /\ UNCHANGED <<enabled, lock, radio, link, slot, sources, ops>>

Init ==
    /\ enabled = FALSE /\ lock = Free /\ radio = 1
    /\ link = [g \in Radios |-> IF g = 1 THEN "down" ELSE "none"]
    /\ slot = Empty /\ recs = <<>> /\ files = {} /\ sources = {}
    /\ ops = [o \in Op |-> Idle]
    /\ left = [ops |-> MaxOps, clips |-> MaxClips, src |-> 1]

Next ==
    \/ \E o \in Toggles : SetEnabled(o) \/ StartLive(o)
    \/ \E o \in Toggles \union Events : OpenStore(o) \/ Spawn(o)
    \/ \E o \in Lifecycle : StopPlaying(o) \/ TakeRecorder(o) \/ Shutdown(o)
    \/ \E g \in Radios : Connected(g) \/ StartOnConnect(g) \/ Disconnected(g) \/ HandleConnectionState(g)
    \/ \E o \in Events : Unlock(o)
    \/ SetConfig \/ CreateRadio \/ InstallRadio
    \/ \E p \in Plays : StartClip(p) \/ LoadClip(p) \/ RegisterSource(p)
    \/ PlaybackStop \/ \E r \in Recs : RecordClip(r)

Spec == Init /\ [][Next]_vars

Quiet == InProgress(Lifecycle) = {}

\* Every recorder that runs is the one in the slot, or one that somebody is shutting down: whatever
\* overlaps, none is left recording with nobody to stop it (the comment in PlaybackConfig::start).
NoRecorderIsForgotten ==
    \A r \in Recs : recs[r].state = "running" =>
        \/ slot.rec = r
        \/ \E o \in InProgress(Lifecycle) : ops[o].rec = r /\ ops[o].pc = "await"

\* The clips of the recorder in the slot have their files once nothing is in progress, although every
\* new recorder empties the directory that all recorders share.
ListedClipsHaveFiles == Quiet /\ slot.rec # 0 => \A c \in recs[slot.rec].clips : <<slot.rec, c>> \in files

\* With no start in progress nothing is played but the registered source ("only one clip is ever
\* audible", playback/commands.rs): it can always be stopped.
OneClipAudible == Quiet /\ InProgress(Plays) = {} => sources \subseteq {slot.playing}

\* Playback that was turned off records nothing ("Stop any currently running recorder", playback_set_enabled).
DisabledRecordsNothing == Quiet /\ ~enabled => \A r \in Recs : recs[r].state = "gone"

\* Playback that is turned on records while the radio is connected ("the recorder will be started the
\* next time the radio integration comes up", playback_set_enabled).
EnabledRecords == Quiet /\ enabled /\ radio # 0 /\ link[radio] = "up" => slot.rec # 0

=============================================================================
