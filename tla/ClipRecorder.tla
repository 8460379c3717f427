---------------------------- MODULE ClipRecorder ----------------------------
(***************************************************************************)
(* One run of the playback recorder (vacs-client/src/playback): the loopback   *)
(* capture of the radio client's output (source/capture/linux.rs, windows.rs), *)
(* the source that merges it with the radio's events                           *)
(* (source/track_audio.rs, audio_for_vatsim.rs), the segmentation into clips   *)
(* (fsm.rs), the task that writes them (recorder.rs, writer.rs) and the        *)
(* rolling store of the clips and their files (storage.rs).                    *)
(* Time is kept as ages: how long ago a clip was opened, how long ago its last *)
(* audio was captured, how long a frame has been waiting.                      *)
(***************************************************************************)
EXTENDS Naturals, FiniteSets, Sequences, SequencesExt, FiniteSetsExt, Functions, TLC

CONSTANTS
    Nodes,          \* the radio client's output streams
    TapOf,          \* the tap each of them is captured as
    FormatOf,       \* and its sample rate and channels
    Transmitters,   \* [cs, freq] of the stations that may be heard
    Mixed,          \* RecordingMode::Mixed (Windows), otherwise PerTap (Linux)
    Afv,            \* the Audio for VATSIM source, otherwise TrackAudio's
    Hangover, MaxDuration, MaxClips,    \* PlaybackConfig, in steps of time
    CaptureCapacity, RadioCapacity, EventCapacity,  \* the three channels
    Lag,            \* whether the source may fall behind the radio's events
    Settled,        \* stations are heard only once every tap is known, and the outputs stay
    Writes,         \* whether files can be written: {TRUE} or BOOLEAN
    Stamps,         \* milliseconds clips start at
    MaxAge,         \* ages are not told apart beyond this
    MaxNodes, MaxRadio, MaxFrames,  \* outputs that come and go, radio events, frames
    MaxDeletes, MaxStops            \* deletions by the user, and shutdowns

VARIABLES
    captures,   \* captured outputs: "gone", "new" (no format yet), "open"
    capq,       \* the capture thread's channel
    air,        \* the stations on the air
    headset,    \* the cached routing of each frequency: "headset", "speaker", "unknown"
    radioq,     \* the radio's events the source has not received
    activeRx,   \* active_rx: the tap each station was begun on; for AFV, `receiving`
    sending,    \* what the source is about to send
    source,     \* "on", "cancelled" (its token), "ended"
    evq,        \* the recorder's channel
    taps,       \* Fsm::taps
    nextId,     \* Fsm::next_clip_id
    due,        \* the ticker is due
    open,       \* the clips being written: id -> path
    store,      \* ClipStore::clips
    files,      \* clip-*.wav under the root
    phase,      \* "running", "cancelled", "closing" (receiver dropped), "stopped"
    left        \* the events still to come

vars == <<captures, capq, air, headset, radioq, activeRx, sending, source, evq, taps, nextId, due,
          open, store, files, phase, left>>
radioVars == <<air, headset, radioq>>
fsmVars == <<taps, nextId, due>>
diskVars == <<open, store, files>>

Freqs == {t.freq : t \in Transmitters}
Taps == Range(TapOf) \union {"headset", "speaker", "merged"}
AfvTransmitter == [cs |-> "", freq |-> 0]
Stations == IF Afv THEN {AfvTransmitter} ELSE Transmitters
Ages == 0 .. MaxAge
NoClip == [id |-> 0, age |-> 0, quiet |-> 0, tx |-> {}, calls |-> {}]
NoTap == [fmt |-> "none", open |-> NoClip]
IsOpen(k) == taps[k].open # NoClip
OpenTaps == {k \in Taps : IsOpen(k)}
Paths == Stamps \X Taps \X Nat

\* unique_path: a numeric suffix where the name is taken.
UniquePath(fs, stamp, k) ==
    <<stamp, k, CHOOSE n \in 0 .. Cardinality(fs) :
        /\ <<stamp, k, n>> \notin fs
        /\ \A m \in 0 .. n - 1 : <<stamp, k, m>> \in fs>>

TypeOK ==
    /\ captures \in [Nodes -> {"gone", "new", "open"}]
    /\ Len(capq) <= CaptureCapacity /\ Len(radioq) <= RadioCapacity /\ Len(evq) <= EventCapacity
    /\ air \subseteq Transmitters
    /\ headset \in [Freqs -> {"headset", "speaker", "unknown"}]
    /\ DOMAIN activeRx \subseteq Stations /\ Range(activeRx) \subseteq Taps
    /\ source \in {"on", "cancelled", "ended"}
    /\ phase \in {"running", "cancelled", "closing", "stopped"}
    /\ due \in BOOLEAN /\ nextId \in Nat \ {0}
    /\ \A k \in Taps :
          /\ taps[k].open.tx \subseteq Stations
          /\ taps[k].open.age \in Ages /\ taps[k].open.quiet \in Ages
          /\ IsOpen(k) => taps[k].fmt # "none" /\ taps[k].open.id < nextId
    /\ DOMAIN open \subseteq 1 .. nextId - 1
    /\ Len(store) <= MaxClips
    /\ left.nodes \in 0 .. MaxNodes /\ left.radio \in 0 .. MaxRadio /\ left.frames \in 0 .. MaxFrames
    /\ left.deletes \in 0 .. MaxDeletes /\ left.stops \in 0 .. MaxStops

(***************************************************************************)
(* The capture thread.  Nothing it sends waits: what does not fit is lost.     *)
(***************************************************************************)
TrySend(e) == capq' = IF Len(capq) < CaptureCapacity /\ source # "ended" THEN Append(capq, e) ELSE capq

Capturing == phase # "stopped" /\ UNCHANGED <<radioVars, activeRx, sending, source, evq, fsmVars, diskVars, phase>>

NodeAdded(n) ==
    /\ Capturing /\ ~Mixed /\ captures[n] = "gone" /\ left.nodes > 0
    /\ captures' = [captures EXCEPT ![n] = "new"]
    /\ left' = [left EXCEPT !.nodes = @ - 1]
    /\ UNCHANGED capq

\* param_changed: the format is known, and reported once.
FormatNegotiated(n) ==
    /\ Capturing /\ captures[n] = "new"
    /\ captures' = [captures EXCEPT ![n] = "open"]
    /\ TrySend([on |-> "opened", tap |-> TapOf[n], fmt |-> FormatOf[n]])
    /\ UNCHANGED left

\* On Windows this ends the capture thread.
NodeRemoved(n) ==
    /\ Capturing /\ ~Settled /\ captures[n] # "gone" /\ (Mixed => captures[n] = "open")
    /\ captures' = [captures EXCEPT ![n] = "gone"]
    /\ TrySend([on |-> "closed", tap |-> TapOf[n]])
    /\ UNCHANGED left

\* What a frame sounds like to is_starting and is_ending: "voice" up to its end, "ending", or "silent".
Sounds == IF Afv THEN {"voice", "ending", "silent"} ELSE {"voice"}

\* Frames are counted only where a clip can become long enough to rotate.
Process(n) ==
    /\ Capturing /\ captures[n] = "open" /\ left.frames > 0
    /\ \E v \in Sounds : TrySend([on |-> "frame", tap |-> TapOf[n], age |-> 0, voice |-> v])
    /\ left' = IF MaxDuration > MaxAge THEN left ELSE [left EXCEPT !.frames = @ - 1]
    /\ UNCHANGED captures

(***************************************************************************)
(* The radio: what it hears, broadcast to the source.  A receiver that falls   *)
(* behind loses the oldest events.                                             *)
(***************************************************************************)
Broadcast(e) ==
    /\ left.radio > 0 /\ left' = [left EXCEPT !.radio = @ - 1]
    /\ Len(radioq) < RadioCapacity \/ Lag
    /\ radioq' = IF Len(radioq) < RadioCapacity THEN Append(radioq, e) ELSE Append(Tail(radioq), e)

Radio == /\ phase # "stopped" /\ ~Afv
         /\ Settled => \A n \in Nodes : taps[TapOf[n]].fmt # "none"
         /\ UNCHANGED <<captures, capq, activeRx, sending, source, evq, fsmVars, diskVars, phase>>

RadioRxBegin(t) ==
    /\ Radio /\ t \notin air
    /\ air' = air \union {t}
    /\ Broadcast([on |-> "begin", t |-> t])
    /\ UNCHANGED headset

\* active_transmitters is the list of the stations still heard on the frequency, or not given.
RadioRxEnd(t) ==
    /\ Radio /\ t \in air
    /\ air' = air \ {t}
    /\ \E listed \in BOOLEAN :
          Broadcast([on |-> "end", t |-> t, listed |-> listed,
                     active |-> IF listed THEN {u.cs : u \in {w \in air' : w.freq = t.freq}} ELSE {}])
    /\ UNCHANGED headset

RadioRouting(f) ==
    /\ Radio
    /\ \E k \in {"headset", "speaker"} :
          /\ k # headset[f]
          /\ headset' = [headset EXCEPT ![f] = k]
          /\ Broadcast([on |-> "routing", freq |-> f, tap |-> k])
    /\ UNCHANGED air

(***************************************************************************)
(* The source's forwarder: one event at a time, the capture's first.           *)
(***************************************************************************)
RouteOf(f) == IF headset[f] = "speaker" THEN "speaker" ELSE "headset"
RxBegin(k, t) == [on |-> "begin", tap |-> k, t |-> t]
RxEnd(e) == [on |-> "end", t |-> e.t, listed |-> e.listed, active |-> e.active]
Unlisted(t) == [t |-> t, listed |-> FALSE, active |-> {}]

\* Stations heard on a frequency whose routing changed continue on the new tap.
Migrate(ts, k) == FoldLeft(LAMBDA q, t : q \o <<RxEnd(Unlisted(t)), RxBegin(k, t)>>, <<>>, SetToSeq(ts))

\* Audio for VATSIM has no events: a station is heard while the output is not silent.
Gate(e) ==
    CASE e.on = "frame" /\ activeRx = <<>> /\ e.voice # "silent" ->
              [rx |-> AfvTransmitter :> "headset", also |-> <<RxBegin("headset", AfvTransmitter)>>]
      [] e.on = "frame" /\ activeRx # <<>> /\ e.voice # "voice" ->
              [rx |-> <<>>, also |-> <<RxEnd(Unlisted(AfvTransmitter))>>]
      [] OTHER -> [rx |-> activeRx, also |-> <<>>]

Forwarding == source = "on" /\ sending = <<>>
                 /\ UNCHANGED <<captures, air, headset, source, evq, fsmVars, diskVars, phase, left>>

ForwardCapture ==
    /\ Forwarding /\ capq # <<>>
    /\ capq' = Tail(capq)
    /\ LET g == IF Afv THEN Gate(Head(capq)) ELSE [rx |-> activeRx, also |-> <<>>] IN
          /\ activeRx' = g.rx
          /\ sending' = <<Head(capq)>> \o g.also
    /\ UNCHANGED radioq

ForwardRadio ==
    /\ Forwarding /\ capq = <<>> /\ radioq # <<>>
    /\ radioq' = Tail(radioq)
    /\ LET e == Head(radioq) IN
          CASE e.on = "begin" ->
                  /\ activeRx' = (e.t :> RouteOf(e.t.freq)) @@ activeRx
                  /\ sending' = <<RxBegin(RouteOf(e.t.freq), e.t)>>
            [] e.on = "end" ->
                  /\ activeRx' = RestrictDomain(activeRx, LAMBDA t : t # e.t)
                  /\ sending' = <<RxEnd(e)>>
            [] e.on = "routing" ->
                  LET ts == {t \in DOMAIN activeRx : t.freq = e.freq /\ activeRx[t] # e.tap} IN
                  /\ activeRx' = [t \in DOMAIN activeRx |-> IF t \in ts THEN e.tap ELSE activeRx[t]]
                  /\ sending' = Migrate(ts, e.tap)
    /\ UNCHANGED capq

\* send().await: waits for room; once the receiver is gone it fails, which ends the source after an
\* event of the capture and is ignored after any other.
SourceSends ==
    /\ source # "ended" /\ sending # <<>>
    /\ \/ /\ phase \in {"running", "cancelled"} /\ Len(evq) < EventCapacity
          /\ evq' = Append(evq, Head(sending))
          /\ sending' = Tail(sending) /\ UNCHANGED source
       \/ /\ phase = "closing"
          /\ IF Head(sending).on \in {"opened", "closed", "frame"}
             THEN source' = "ended" /\ sending' = <<>>
             ELSE sending' = Tail(sending) /\ UNCHANGED source
          /\ UNCHANGED evq
    /\ UNCHANGED <<captures, capq, radioVars, activeRx, fsmVars, diskVars, phase, left>>

\* Cancelled, or there is nothing left to come from the capture thread.
SourceEnds ==
    /\ source # "ended" /\ sending = <<>>
    /\ \/ source = "cancelled"
       \/ Mixed /\ capq = <<>> /\ \A n \in Nodes : captures[n] = "gone"
    /\ source' = "ended"
    /\ UNCHANGED <<captures, capq, radioVars, activeRx, sending, evq, fsmVars, diskVars, phase, left>>

(***************************************************************************)
(* Fsm: from an event to the new taps and the file operations it asks for.     *)
(* s = [taps, next, acts].                                                     *)
(***************************************************************************)
MapTap(k) == IF Mixed THEN "merged" ELSE k
Fsm == [taps |-> taps, next |-> nextId, acts |-> <<>>]

CloseOpenClip(s, k) ==
    IF s.taps[k].open = NoClip THEN s
    ELSE [s EXCEPT !.taps[k].open = NoClip, !.acts = Append(@, [do |-> "close", id |-> s.taps[k].open.id])]

OpenClip(s, k, clip) ==
    [s EXCEPT !.taps[k].open = [clip EXCEPT !.id = s.next], !.next = @ + 1,
              !.acts = Append(@, [do |-> "open", id |-> s.next, tap |-> k])]

TapOpened(s, e) ==
    LET k == MapTap(e.tap)
        changed == s.taps[k].fmt # e.fmt IN
    [(IF changed THEN CloseOpenClip(s, k) ELSE s) EXCEPT !.taps[k].fmt = e.fmt]

TapClosed(s, e) == [CloseOpenClip(s, MapTap(e.tap)) EXCEPT !.taps[MapTap(e.tap)] = NoTap]

\* A frame is fresh audio while somebody is heard; a clip that became too long continues in a new one.
Frame(s, e) ==
    LET k == MapTap(e.tap)
        clip == s.taps[k].open
        fresh == IF clip.tx = {} THEN clip ELSE [clip EXCEPT !.quiet = e.age]
        next == [fresh EXCEPT !.age = e.age, !.quiet = e.age] IN
    CASE clip = NoClip -> s
      [] clip # NoClip /\ clip.age - Min({e.age, clip.age}) >= MaxDuration -> OpenClip(CloseOpenClip(s, k), k, next)
      [] OTHER -> [s EXCEPT !.taps[k].open = fresh]

OnRxBegin(s, e) ==
    LET k == MapTap(e.tap)
        clip == s.taps[k].open
        joined == [clip EXCEPT !.tx = @ \union {e.t}, !.calls = @ \union {e.t.cs}, !.quiet = 0] IN
    CASE s.taps[k].fmt = "none" -> s
      [] s.taps[k].fmt # "none" /\ clip # NoClip -> [s EXCEPT !.taps[k].open = joined]
      [] OTHER -> OpenClip(s, k, joined)

\* The mutant: the end of one station ends the whole frequency.
EndTheFrequency(s, e) ==
    [s EXCEPT !.taps = [k \in Taps |-> [@[k] EXCEPT !.open.tx = {t \in @ : t.freq # e.t.freq}]]]

\* Resolved across every open clip; a list of who is still heard corrects what was missed.
OnRxEnd(s, e) ==
    LET Ended(t) == t = e.t \/ (e.listed /\ t.freq = e.t.freq /\ t.cs \notin e.active) IN
    [s EXCEPT !.taps = [k \in Taps |-> [@[k] EXCEPT !.open.tx = {t \in @ : ~Ended(t)}]]]

OnEvent(s, e) ==
    CASE e.on = "opened" -> TapOpened(s, e) [] e.on = "closed" -> TapClosed(s, e)
      [] e.on = "frame" -> Frame(s, e) [] e.on = "begin" -> OnRxBegin(s, e)
      [] e.on = "end" -> OnRxEnd(s, e)

FsmTick(s) ==
    FoldLeft(CloseOpenClip, s,
             SetToSeq({k \in OpenTaps : taps[k].open.tx = {} /\ taps[k].open.quiet >= Hangover}))

(***************************************************************************)
(* The recorder: r = [open, store, files].                                     *)
(***************************************************************************)
Disk == [open |-> open, store |-> store, files |-> files]
WithoutClip(f, id) == RestrictDomain(f, LAMBDA i : i # id)

\* commit and evict_overflow.
Commit(r, c) ==
    LET all == Append(r.store, c)
        gone == IF Len(all) > MaxClips THEN Len(all) - MaxClips ELSE 0 IN
    [r EXCEPT !.store = SubSeq(all, gone + 1, Len(all)), !.files = @ \ {all[i].path : i \in 1 .. gone}]

\* OpenClip::finalize: a clip whose file cannot be completed is discarded.
Finalize(r, id, written) ==
    LET path == r.open[id]
        without == [r EXCEPT !.open = WithoutClip(@, id)] IN
    IF written THEN Commit(without, [id |-> id, path |-> path])
    ELSE [without EXCEPT !.files = @ \ {path}]

ApplyAction(r, a, written, stamp) ==
    LET path == UniquePath(r.files, stamp, a.tap) IN
    CASE a.do = "open" /\ written ->
            [r EXCEPT !.open = (a.id :> path) @@ @, !.files = @ \union {path}]
      [] a.do = "close" /\ a.id \in DOMAIN r.open -> Finalize(r, a.id, written)
      [] OTHER -> r

\* apply_actions, on what the segmentation returned.
Recorded(s) ==
    /\ taps' = s.taps /\ nextId' = s.next
    /\ \E written \in Writes, stamp \in Stamps :
          LET r == FoldLeft(LAMBDA d, a : ApplyAction(d, a, written, stamp), Disk, s.acts) IN
          open' = r.open /\ store' = r.store /\ files' = r.files
    /\ UNCHANGED <<captures, capq, radioVars, activeRx, sending, source, phase, left>>

RecorderTick ==
    /\ phase = "running" /\ due
    /\ due' = FALSE
    /\ Recorded(FsmTick(Fsm))
    /\ UNCHANGED evq

RecorderEvent ==
    /\ phase = "running" /\ ~due /\ evq # <<>>
    /\ evq' = Tail(evq)
    /\ Recorded(OnEvent(Fsm, Head(evq)))
    /\ UNCHANGED due

\* shutdown, or the drop of the recorder's handle.
Cancel ==
    /\ phase = "running" /\ phase' = "cancelled"
    /\ left.stops > 0 /\ left' = [left EXCEPT !.stops = @ - 1]
    /\ UNCHANGED <<captures, capq, radioVars, activeRx, sending, source, evq, fsmVars, diskVars>>

\* The end of the run: the receiver is dropped, the open clips are completed in any order, and the
\* source is told to stop.
Finish(keep) ==
    /\ \/ phase = "cancelled"
       \/ phase = "running" /\ ~due /\ evq = <<>> /\ source = "ended"
    /\ phase' = IF keep THEN "cancelled" ELSE "closing"
    /\ evq' = IF keep THEN evq ELSE <<>>
    /\ \E ids \in SetToSeqs(DOMAIN open), written \in Writes :
          LET r == FoldLeft(LAMBDA d, id : Finalize(d, id, written), Disk, ids) IN
          open' = r.open /\ store' = r.store /\ files' = r.files
    /\ source' = IF source = "on" THEN "cancelled" ELSE source
    /\ UNCHANGED <<captures, capq, radioVars, activeRx, sending, fsmVars, left>>

FinishRun == Finish(FALSE)

\* source.stop() has joined the forwarder, and stops the capture.
SourceStopped ==
    /\ phase \in {"closing", "cancelled"} /\ source = "ended" /\ open = <<>>
    /\ phase' = "stopped"
    /\ capq' = <<>> /\ captures' = [n \in Nodes |-> "gone"]
    /\ UNCHANGED <<radioVars, activeRx, sending, source, evq, fsmVars, diskVars, left>>

\* playback_delete and playback_clear: the store is used while the recorder holds it, and after.
Delete ==
    /\ left.deletes > 0 /\ left' = [left EXCEPT !.deletes = @ - 1]
    /\ \E gone \in {{i} : i \in DOMAIN store} \union {DOMAIN store} :
          /\ gone # {}
          /\ store' = FoldLeft(LAMBDA q, i : IF i \in gone THEN q ELSE Append(q, store[i]), <<>>, [i \in DOMAIN store |-> i])
          /\ files' = files \ {store[i].path : i \in gone}
    /\ UNCHANGED <<captures, capq, radioVars, activeRx, sending, source, evq, fsmVars, open, phase>>

Older(age) == IF age < MaxAge THEN age + 1 ELSE age
Aged(q) == [i \in DOMAIN q |-> IF q[i].on = "frame" THEN [q[i] EXCEPT !.age = Older(@)] ELSE q[i]]

Tick ==
    /\ phase = "running"
    /\ due' = TRUE
    /\ taps' = [k \in Taps |-> IF IsOpen(k) THEN [taps[k] EXCEPT !.open.age = Older(@), !.open.quiet = Older(@)]
                                ELSE taps[k]]
    /\ capq' = Aged(capq) /\ sending' = Aged(sending) /\ evq' = Aged(evq)
    /\ UNCHANGED <<captures, radioVars, activeRx, source, nextId, diskVars, phase, left>>

Init ==
    /\ captures = [n \in Nodes |-> IF Mixed THEN "new" ELSE "gone"]
    /\ capq = <<>> /\ air = {} /\ headset = [f \in Freqs |-> "unknown"] /\ radioq = <<>>
    /\ activeRx = <<>> /\ sending = <<>> /\ source = "on" /\ evq = <<>>
    /\ taps = [k \in Taps |-> NoTap] /\ nextId = 1 /\ due = FALSE
    /\ open = <<>> /\ store = <<>> /\ files = {} /\ phase = "running"
    /\ left = [nodes |-> MaxNodes, radio |-> MaxRadio, frames |-> MaxFrames,
               deletes |-> MaxDeletes, stops |-> MaxStops]

Source == ForwardCapture \/ ForwardRadio \/ SourceSends \/ SourceEnds
Recorder == RecorderTick \/ RecorderEvent \/ FinishRun \/ SourceStopped

Next ==
    \/ \E n \in Nodes : NodeAdded(n) \/ FormatNegotiated(n) \/ NodeRemoved(n) \/ Process(n)
    \/ \E t \in Transmitters : RadioRxBegin(t) \/ RadioRxEnd(t)
    \/ \E f \in Freqs : RadioRouting(f)
    \/ Source \/ Recorder \/ Cancel \/ Delete \/ Tick

\* The tasks run and time passes; nothing is assumed of the radio client or the user.  The recorder's
\* ticker goes first, but is due only every 100 ms: events are received in between.
Spec == Init /\ [][Next]_vars /\ WF_vars(Source) /\ WF_vars(Recorder) /\ WF_vars(Tick)
             /\ SF_vars(RecorderEvent) /\ SF_vars(FinishRun)

Forwarded == radioq = <<>> /\ sending = <<>> /\ evq = <<>>
Heard(k) == taps[k].open.tx

\* Every clip file belongs to exactly one clip, which is being written or is in the store: eviction,
\* deletion, rotation, failed writers and shutdown leave no file behind and never hit another clip's.
FilesBelongToClips ==
    /\ files = Range(open) \union {store[i].path : i \in DOMAIN store}
    /\ Cardinality(files) = Cardinality(DOMAIN open) + Len(store)

\* A station is heard on one tap at a time, however its frequency is routed meanwhile: no transmission
\* lands in two clips at once (track_audio.rs, the migration in the middle of a reception).
RecordedOnce == \A k, l \in OpenTaps : k = l \/ Heard(k) \cap Heard(l) = {}

\* Once the events are through, no clip waits for a station that is off the air, or that was routed to
\* the other tap (the comment at RxEnd in fsm.rs).
NobodyLingers ==
    Forwarded /\ phase = "running" /\ ~Afv =>
        \A k \in OpenTaps : Heard(k) \subseteq {t \in air : MapTap(RouteOf(t.freq)) = k}

\* Once the events are through, every station on the air is being recorded, on the tap it is routed to.
OnAirIsRecorded ==
    Forwarded /\ phase = "running" => \A t \in air : t \in Heard(MapTap(RouteOf(t.freq)))

\* When it stays quiet every clip is closed in the end, and can be listened to: no silent buffer and no
\* change of routing keeps one open (the hangover of fsm.rs).
ClipsClose == <>[](air = {} /\ activeRx = <<>>) => <>[](open = <<>>)

\* A recorder that was told to stop stops, with the source blocked on a full channel too ("Drop the
\* receiver before awaiting the source's shutdown", recorder.rs).
ShutdownCompletes == (phase = "cancelled") ~> (phase = "stopped")

=============================================================================
