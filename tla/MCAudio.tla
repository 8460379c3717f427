------------------------------ MODULE MCAudio ------------------------------
(***************************************************************************)
(* The client's audio, for TLC: the slot of the playback recorder           *)
(* (PlaybackSlot), a run of the recorder (ClipRecorder) and the microphone   *)
(* (InputDevice).  They share no variable: a behaviour is one of the         *)
(* component that part names, the others stay as they start.                 *)
(***************************************************************************)
EXTENDS PlaybackSlot

CONSTANTS p1, p2, f1, f2

VARIABLES
    part,
    captures, capq, air, headset, radioq, activeRx, sending, source, evq, taps, nextId, due,
    open, store, clipFiles, phase, clipLeft,                                                 \* ClipRecorder
    input, users, call, peers, closing, errs, pages, inLeft                                  \* InputDevice

clipVars == <<captures, capq, air, headset, radioq, activeRx, sending, source, evq, taps, nextId, due,
              open, store, clipFiles, phase, clipLeft>>
inputVars == <<input, users, call, peers, closing, errs, pages, inLeft>>

-----------------------------------------------------------------------------
(* PlaybackSlot: the instance of the configuration file, with operations    *)
(* that overlap and sources that fail to start; operations one after the    *)
(* other, with two clips to play; overlapping operations with two clips     *)
(* recorded.                                                                *)

TwoToggles == {<<"toggle", i>> : i \in 1 .. 2}
OnePlay == {<<"play", 1>>}

Serial == INSTANCE PlaybackSlot WITH
    Toggles <- TwoToggles, Plays <- {<<"play", i>> : i \in 1 .. 2}, MaxRadios <- 2, MaxOps <- 6, MaxClips <- 2,
    Overlap <- FALSE, Lagging <- FALSE, Starts <- {TRUE}

Together == INSTANCE PlaybackSlot WITH
    Toggles <- TwoToggles, Plays <- {}, MaxRadios <- 2, MaxOps <- 4, MaxClips <- 2,
    Overlap <- TRUE, Lagging <- TRUE, Starts <- {TRUE}

-----------------------------------------------------------------------------
(* ClipRecorder.                                                            *)

Outs == {"h", "s"}
OutTaps == [n \in Outs |-> IF n = "h" THEN "headset" ELSE "speaker"]
OneStation == {[cs |-> "A", freq |-> 1]}
TwoStations == OneStation \union {[cs |-> "B", freq |-> 1]}
TwoFrequencies == OneStation \union {[cs |-> "A", freq |-> 2]}

\* The headset's output is replaced by one of another format, events and files are lost.
Lost == INSTANCE ClipRecorder WITH
    Nodes <- {"h1", "h2"}, TapOf <- [n \in {"h1", "h2"} |-> "headset"],
    FormatOf <- [n \in {"h1", "h2"} |-> IF n = "h1" THEN "48k" ELSE "44k"],
    Transmitters <- OneStation, Mixed <- FALSE, Afv <- FALSE, Hangover <- 1, MaxDuration <- 1, MaxClips <- 1,
    CaptureCapacity <- 1, RadioCapacity <- 1, EventCapacity <- 1, Lag <- TRUE, Settled <- FALSE,
    Writes <- BOOLEAN, Stamps <- {0}, MaxAge <- 1, MaxNodes <- 2, MaxRadio <- 1, MaxDeletes <- 1, MaxStops <- 1,
    MaxFrames <- 1, files <- clipFiles, left <- clipLeft

\* Two stations of a frequency whose routing changes.
Routing == INSTANCE ClipRecorder WITH
    Nodes <- Outs, TapOf <- OutTaps, FormatOf <- [n \in Outs |-> "48k"],
    Transmitters <- TwoStations, Mixed <- FALSE, Afv <- FALSE, Hangover <- 1, MaxDuration <- 9, MaxClips <- 2,
    CaptureCapacity <- 1, RadioCapacity <- 2, EventCapacity <- 1, Lag <- FALSE, Settled <- TRUE,
    Writes <- {TRUE}, Stamps <- {0}, MaxAge <- 1, MaxNodes <- 2, MaxRadio <- 4, MaxDeletes <- 1, MaxStops <- 1,
    MaxFrames <- 0, files <- clipFiles, left <- clipLeft

\* A station on two frequencies, while outputs come and go.
Outputs == INSTANCE ClipRecorder WITH
    Nodes <- Outs, TapOf <- OutTaps, FormatOf <- [n \in Outs |-> "48k"],
    Transmitters <- TwoFrequencies, Mixed <- FALSE, Afv <- FALSE, Hangover <- 1, MaxDuration <- 9, MaxClips <- 2,
    CaptureCapacity <- 1, RadioCapacity <- 1, EventCapacity <- 1, Lag <- FALSE, Settled <- FALSE,
    Writes <- {TRUE}, Stamps <- {0}, MaxAge <- 1, MaxNodes <- 2, MaxRadio <- 2, MaxDeletes <- 0, MaxStops <- 0,
    MaxFrames <- 0, files <- clipFiles, left <- clipLeft

\* A station that falls silent, with time to pass.
Silence == INSTANCE ClipRecorder WITH
    Nodes <- {"h"}, TapOf <- [n \in {"h"} |-> "headset"], FormatOf <- [n \in {"h"} |-> "48k"],
    Transmitters <- OneStation, Mixed <- FALSE, Afv <- FALSE, Hangover <- 2, MaxDuration <- 9, MaxClips <- 2,
    CaptureCapacity <- 1, RadioCapacity <- 1, EventCapacity <- 1, Lag <- FALSE, Settled <- TRUE,
    Writes <- {TRUE}, Stamps <- {0}, MaxAge <- 2, MaxNodes <- 1, MaxRadio <- 2, MaxDeletes <- 0, MaxStops <- 0,
    MaxFrames <- 1, files <- clipFiles, left <- clipLeft

\* The mixed output of Windows with the Audio for VATSIM source, and a shutdown.
Loopback == INSTANCE ClipRecorder WITH
    Nodes <- {"w"}, TapOf <- [n \in {"w"} |-> "merged"], FormatOf <- [n \in {"w"} |-> "48k"],
    Transmitters <- TwoStations, Mixed <- TRUE, Afv <- TRUE, Hangover <- 1, MaxDuration <- 2, MaxClips <- 2,
    CaptureCapacity <- 1, RadioCapacity <- 2, EventCapacity <- 1, Lag <- FALSE, Settled <- FALSE,
    Writes <- {TRUE}, Stamps <- {0}, MaxAge <- 2, MaxNodes <- 0, MaxRadio <- 2, MaxDeletes <- 0, MaxStops <- 1,
    MaxFrames <- 2, files <- clipFiles, left <- clipLeft

-----------------------------------------------------------------------------
(* InputDevice: two peers and two settings pages; failing streams; level     *)
(* meters only; no failures.                                                 *)

Calls == INSTANCE InputDevice WITH
    Peers <- {p1, p2}, Pages <- {f1, f2}, MaxClosing <- 2, MaxErrors <- 1, Opens <- BOOLEAN, Disconnects <- TRUE,
    left <- inLeft

Failures == INSTANCE InputDevice WITH
    Peers <- {p1, p2}, Pages <- {f1}, MaxClosing <- 1, MaxErrors <- 2, Opens <- BOOLEAN, Disconnects <- TRUE,
    left <- inLeft

Meters == INSTANCE InputDevice WITH
    Peers <- {p1}, Pages <- {f1, f2}, MaxClosing <- 0, MaxErrors <- 3, Opens <- {TRUE}, Disconnects <- FALSE,
    left <- inLeft

Release == INSTANCE InputDevice WITH
    Peers <- {p1, p2}, Pages <- {f1, f2}, MaxClosing <- 2, MaxErrors <- 0, Opens <- BOOLEAN, Disconnects <- TRUE,
    left <- inLeft

-----------------------------------------------------------------------------

ClipParts == {"lost", "routing", "outputs", "silence", "loopback"}
InputParts == {"calls", "failures", "meters", "release"}

PartInit ==
    /\ part \in {"slot", "serial", "together"} \union ClipParts \union InputParts
    /\ CASE part = "serial"   -> Serial!Init
         [] part = "together" -> Together!Init
         [] OTHER             -> Init
    /\ CASE part = "lost"     -> Lost!Init
         [] part = "routing"  -> Routing!Init
         [] part = "outputs"  -> Outputs!Init
         [] part = "silence"  -> Silence!Init
         [] OTHER             -> Loopback!Init
    /\ CASE part = "calls"    -> Calls!Init
         [] part = "failures" -> Failures!Init
         [] part = "meters"   -> Meters!Init
         [] OTHER             -> Release!Init

PartNext ==
    \/ part = "slot" /\ Next /\ UNCHANGED <<part, clipVars, inputVars>>
    \/ part = "serial" /\ Serial!Next /\ UNCHANGED <<part, clipVars, inputVars>>
    \/ part = "together" /\ Together!Next /\ UNCHANGED <<part, clipVars, inputVars>>
    \/ part = "lost" /\ Lost!Next /\ UNCHANGED <<part, vars, inputVars>>
    \/ part = "routing" /\ Routing!Next /\ UNCHANGED <<part, vars, inputVars>>
    \/ part = "outputs" /\ Outputs!Next /\ UNCHANGED <<part, vars, inputVars>>
    \/ part = "silence" /\ Silence!Next /\ UNCHANGED <<part, vars, inputVars>>
    \/ part = "loopback" /\ Loopback!Next /\ UNCHANGED <<part, vars, inputVars>>
    \/ part = "calls" /\ Calls!Next /\ UNCHANGED <<part, vars, clipVars>>
    \/ part = "failures" /\ Failures!Next /\ UNCHANGED <<part, vars, clipVars>>
    \/ part = "meters" /\ Meters!Next /\ UNCHANGED <<part, vars, clipVars>>
    \/ part = "release" /\ Release!Next /\ UNCHANGED <<part, vars, clipVars>>

\* the fairness of ClipRecorder's and InputDevice's Spec
SilenceFairness ==
    /\ WF_clipVars(part = "silence" /\ Silence!Source)
    /\ WF_clipVars(part = "silence" /\ Silence!Recorder)
    /\ WF_clipVars(part = "silence" /\ Silence!Tick)
    /\ SF_clipVars(part = "silence" /\ Silence!RecorderEvent)
    /\ SF_clipVars(part = "silence" /\ Silence!FinishRun)

LoopbackFairness ==
    /\ WF_clipVars(part = "loopback" /\ Loopback!Source)
    /\ WF_clipVars(part = "loopback" /\ Loopback!Recorder)
    /\ WF_clipVars(part = "loopback" /\ Loopback!Tick)
    /\ SF_clipVars(part = "loopback" /\ Loopback!RecorderEvent)
    /\ SF_clipVars(part = "loopback" /\ Loopback!FinishRun)

FailuresFairness ==
    /\ WF_inputVars(part = "failures" /\ Failures!SenderJoined)
    /\ WF_inputVars(part = "failures" /\ Failures!CloseDone)
    /\ WF_inputVars(part = "failures" /\ \E e \in errs : Failures!CaptureError(e))
    /\ WF_inputVars(part = "failures" /\ \E e \in errs : Failures!MeterError(e))

ReleaseFairness ==
    /\ WF_inputVars(part = "release" /\ Release!SenderJoined)
    /\ WF_inputVars(part = "release" /\ Release!CloseDone)
    /\ WF_inputVars(part = "release" /\ \E e \in errs : Release!CaptureError(e))
    /\ WF_inputVars(part = "release" /\ \E e \in errs : Release!MeterError(e))

PartSpec ==
    /\ PartInit /\ [][PartNext]_<<part, vars, clipVars, inputVars>>
    /\ SilenceFairness /\ LoopbackFairness /\ FailuresFairness /\ ReleaseFairness

-----------------------------------------------------------------------------
(* Properties of the components, in the part they belong to.                *)


\* What is on the air is recorded once, where it is routed to, and into a clip that has a file
\* of its own; clips close when it stays quiet, and a recorder that is told to stop stops
\* (the recorder's run loop).
AirIsRecorded ==
    /\ [](part = "lost" => Lost!TypeOK /\ Lost!FilesBelongToClips)
    /\ [](part = "loopback" => Loopback!TypeOK /\ Loopback!FilesBelongToClips)
    /\ [](part = "routing" => Routing!RecordedOnce /\ Routing!OnAirIsRecorded)
    /\ [](part = "outputs" => Outputs!NobodyLingers)
    /\ part = "silence" => Silence!ClipsClose
    /\ part = "loopback" => Loopback!ShutdownCompletes


=============================================================================
