# vacs: a TLA+ verification project

vacs lets air traffic controllers on the VATSIM network talk to each other. A
signaling server (Rust) logs controllers in, keeps track of who can be called and
sets up calls and conferences. Desktop clients (Rust and TypeScript) carry the
audio over a mesh of WebRTC links, key the radio, record it, and can be controlled
from a browser. This directory models the system in TLA+, checks the models with
TLC on small instances and proves theorems with TLAPS for every instance.
`PROJECT.json` lists the components, the runs, one mutant per checked property, the
map from definitions to source lines, the hazards and the theorems.

## The system and its modules

| Part | Source | Modules |
| --- | --- | --- |
| Calls on the server: who rings, who talks, who leads, who is busy, which links are dead | `vacs-server/src/state/calls.rs`, `calls/manager.rs` | `CallState`, `CallManager`, `CallManagerLocks`, `Conference` |
| Call messages, on the server and in the client | `vacs-server/src/ws/application_message.rs`, `vacs-client/src/app/state` | `CallServer`, `CallSystem` |
| Client registry: clients, positions, stations, dataset swaps, VATSIM sync | `vacs-server/src/state/clients/manager.rs`, `state.rs` | `ClientRegistry`, `ClientLocks`, `Coverage` |
| Coverage datasets | `vacs-vatsim/src/coverage`, `vacs-server/src/dataset.rs` | `NetworkLoad`, `Coverage`, `DatasetInstall` |
| VATSIM data feed | `vacs-vatsim/src/lib.rs`, `slurper.rs`, `data_feed` | `Controllers` |
| Sessions and login | `vacs-server/src/state/clients/session.rs`, `ws` | `Session`, `Access` |
| Rate limits, tokens, releases | `vacs-server/src/ratelimit.rs`, `auth.rs`, `store.rs`, `release` | `RateLimit`, `Access`, `Releases` |
| The client's websocket | `vacs-signaling` | `Heartbeat`, `SignalingClient`, `ResponseMatcher` |
| The client's WebRTC links | `vacs-client/src/app/state/webrtc.rs` | `PeerLinks` |
| Microphone and playback recorder | `vacs-client/src/audio`, `playback` | `InputDevice`, `PlaybackSlot`, `ClipRecorder` |
| Keys and radio | `vacs-client/src/keybinds`, `radio` | `Keybinds`, `JoystickCapture`, `TrackAudio` |
| Remote control | `vacs-client/src/remote`, `frontend/src/transport` | `RemoteServer`, `RemoteLink`, `StoreSync` |
| The window's call stores | `vacs-client/frontend/src/stores`, `listeners` | `FrontendCalls` |

How they interact: a session's messages drive the call manager and the registry;
both are shared by all sessions and by the VATSIM sync task and guarded by several
locks. The registry says which clients a target stands for. The client's call state
follows the server's messages, starts and stops peer links, and tells the keybind
engine whether a call is active. The window and remote pages hold copies of that
state that follow events. `CallSystem` composes the call manager, the handlers and
the clients with the queues between them; `CallManagerLocks` extends `CallManager`;
`ClientRegistry` uses the operators of `Coverage`. The other components are modelled
against an environment that may do whatever the part on the other side may do. The
modules whose names end in `Proofs` hold the theorems (see Proofs).

### Calls on the server

`CallState` has the records of `calls.rs` and the pure steps the manager is made of.
A `HashMap` is a function whose domain is the set of its keys. `rejected_clients` and
`errored_clients` are only read together, so one set stands for both. A link report
keeps who reported, and a flag for its age against `LINK_REPORT_TTL` that an action
clears, so every order of reports and expiries occurs.

`CallManager` has the four maps as variables and an action per public operation:

| Action | Code |
| --- | --- |
| `AttemptCall` | `attempt_call`, after `invite_exceeds_max_conf_size` |
| `AcceptCall` | `accept_call` |
| `RejectCall` | `reject_call`, `fail_ringing_recipient` |
| `CallError` | `call_error`, which ends in `end_call` for a client that is not rung |
| `DropTarget` | `drop_target`: a ringing target, else a joined participant |
| `EndCall` | `end_call` |
| `ReportLinkFailure`, `LinkReportExpires` | `report_link_failure`; a report's lifetime passes |
| `CleanupClientCalls` | `cleanup_client_calls`, when a session is unregistered |

`AfterEndCall` is a function of the four maps as one value, because four operations
contain `end_call`. A refused operation changes nothing and has no action. `Resolves`
and `SourceTargets` stand for the registry: the sets of clients a target may resolve
to when it is invited, and the targets a caller may appear under.

`CallManagerLocks` splits the same operations where the code gives up the
`ringing_calls` guard; every task has a record of what is left of its operation.
`Conference` is the abstract specification: who takes part in which call and who
leads it, as `docs/decisions/0002-conference-leadership.md` describes it. A call
starts between two free clients, grows by one invited client, shrinks by one or ends.

`CallServer` adds the handlers with the messages they send, one send at a time, and
`CallSystem` the clients: their current and incoming calls, the invitation timers,
the user's commands, lost connections and the queues in both directions.

### The registry

`ClientRegistry` has one action per stretch of code under one set of guards:
`add_client`, both halves of `remove_client` (with the await between them),
`sync_vatsim_state` with its grace period and two-strike disconnect, and
`replace_network`. `ClientLocks` reduces each operation to its lock requests, on a
model of tokio's fair read-write locks. `Coverage` holds the pure functions that decide which
position controls a station and what changes for whom; `NetworkLoad` the loader.

### The rest

Each module's header says what it models and its comments name the code of each
action. Time is a counter where durations are compared (`Heartbeat`, `RateLimit`,
`RemoteLink`, `PeerLinks`, `Access`, `Releases`) and a nondeterministic step elsewhere.
Queues are bounded where the code bounds them. Files, the network, TrackAudio, GitHub,
the ICE stack and the operating system are nondeterministic and may fail.

## Runs

TLC checks an MC module per group of components. An MC module EXTENDS one component,
takes instances of the others with the constants of their cases, and starts in one of
them: the variable `part` says which, and only that component moves. The components of
a run share no variables, so a run checks each of them by itself, and a property of
the run is the conjunction of what is claimed of the components in their parts.

| Run | Distinct states | Parts | What it shows |
| --- | --- | --- | --- |
| `call_manager` | 43,031 | four clients, two calls, a shared position, two dying links | per-client indices are exact, invitations sound, sizes bounded, reports and join order right; nobody is pulled into a call, leadership stays, `Conference` is implemented |
| `locks` | 299,350 | three sessions and the sync task in one call, two operations between their locks | nobody stays busy at rest, a confirmed dead link is being evicted, `Conference` is still implemented |
| `locks_two_calls` | violation | the same with two calls | a client can be in two calls (see Findings) |
| `registry` | 219,030 | registry; locks; loader | positions, stations and views stay consistent; a kick needs two misses; operations end; exactly the sound datasets load |
| `registry_reload` | violation | a sync beside a reload | the two can wait for each other for ever (see Findings) |
| `calls` | 562,426 | a reconnecting client; group invitations; crossing calls; limits; dead links; the window with prompt and with late answers | server and clients agree once everything is delivered; the window shows the calls |
| `server` | 253,072 | one failing session; two sessions; limiters; feed | ended sessions leave no calls, and end; limits are exact in every window; both ways to choose a connection agree |
| `downloads` | 1,166,743 | logins and tokens; releases for one and for two tasks; dataset installation with crashes and with one fault | access is authorised, offers are current, datasets on disk are whole, the server recovers |
| `connection` | 250,889 | heartbeat; supervisor with one and with two failing tasks; waiters with and without timeout; a link in four situations | see below |
| `audio` | 412,174 | the playback slot in three situations, the recorder in five, the microphone in four | recorders and files are kept, what is on air is recorded once, the microphone serves its users and is released |
| `keys` | 1,170,054 | captures; four situations of the keybind engine; three of the radio | captures are safe, microphone and radio follow the keys |
| `remote` | 257,934 | the server in three situations, its connections in three, the stores in two | the server follows its settings, invocations settle, stores are mirrored |

The properties of `connection` are the client's half of reliability: a dead connection is found and a live
one kept (`DeadConnectionsAreFound`, `LiveConnectionsStay`), a client has one
connection at most and reconnects when it should and only then, losses are noticed,
waiters are served in order, and a dead WebRTC link heals or is given up by both ends.

### Bounds

Every bound is a constant whose name starts with `Max` or names the limit in the code
(`max_conf_size`, `Capacity`, `PageSize`). They are chosen so that the cases the
properties are about occur, which the mutants confirm: each property is violated, in
its own run, by a plausible mistake in the code it is about.

- Four clients are the fewest with a leader, a participant that leaves, one that stays
  and one that still rings; at the lock level three allow a conference. The shared
  position resolves to two clients or to one of them, so a target can be answered by
  either and fails only when both did. `max_conf_size` is 3, so that the limit is
  reached and refuses invitations; `MaxJoins` lets somebody leave and join again.
- `MaxInFlight = 2`: two operations are caught between their locks while any number of
  guarded ones run; the lock-level hazards are races of two. `Creator` says who
  generated a call id: at the lock level only the creator opens a call, while the
  atomic run lets anybody use any id.
- Queues have room for one to four messages and limits are hit in the run that is
  about them. Durations keep the ratios of the code: in `Heartbeat` the interval is
  three times the timeout, in `RemoteLink` a tick is 2.5 s.
- Datasets are pairs of FIR directories: every combination of two stations and their
  parents, and a good FIR beside one with each fault the loader looks for.
- Restrictions that remove a known disagreement are constants too (`Preempted`,
  `Careful`, `Prompt`, `Grain`, `Parallel`, `LossDuringLogin`, `UserInterferes`,
  `Overlap`). The section on disagreements says what happens without them.

Deadlock is checked in the runs of the call manager and of the registry. The others
switch it off because their environment is bounded and a behaviour really ends when
the user, the network and the remaining messages are used up.

### Fairness

Only liveness properties use fairness, and only of steps the code's scheduler or a
timer takes by itself, never of users, the network or a peer:

- tokio polls every task that can go on: weak fairness of the session's reader, writer
  and main task, of the signaling supervisor and its connection attempts, of dataset
  jobs, error tasks and connection loops;
- a session's ping task and the recorder's event branch have strong fairness: both are
  disabled for moments only, while a full queue or the ticker goes first;
- tokio's read-write lock serves its queue in order, which `ClientLocks` models
  explicitly, so weak fairness of each task's steps is enough for `OperationsEnd`;
- in `PeerLinks` and `RemoteLink` time passes and what is due is handled;
- the service manager restarts a server that has crashed (`Recovers`).

## Findings

Two runs show where the code does otherwise than its documentation says.

`locks_two_calls`: the last callee of a batch rejects. `mark_client_within_ringing_calls`
removes the batch and drops its guard. The caller invites again. The first operation
resumes and removes the caller's busy marker, whatever it names (`manager.rs:316`). The
caller can then accept another call, and an answer to its own invitation puts it into
both. ADR 0002 says calls "cannot be accepted until the current call ends".
`drop_ringing_target` does the same job with a check that the marker still names the
call (`manager.rs:621`). For the same reason `NobodyStaysBusy` is claimed with one call,
and `IncomingIndexIsExact` is not claimed at the lock level: `drop_ringing_target`
clears entries after its guard and can remove the entry of a newer invitation.

`registry_reload`: `replace_network` takes `online_positions` and then `clients`
(`clients/manager.rs:567-568`), `sync_vatsim_state` the other way round (748-749). A reload
during a sync leaves both waiting. The doc of `ClientManager` asks for one order.

### Other disagreements met while modelling

The passing runs leave these cases out through a constant, which says under which
condition the property is claimed; TLC shows the case when the constant is changed.

| Where | What happens | Left out by |
| --- | --- | --- |
| `clients/manager.rs:276` | a login during the same client's removal loses its position, and no sync lists it again (`SyncReconciles`) | the property is not checked |
| `clients/manager.rs:703` | a reload that drops a position hides that its station went to a VATSIM-only one (`ShownStationsAreCallable`) | `Networks` keeps the positions |
| `clients/manager.rs:1483` | `emit_coverage_gauges` takes two locks in the inverse order | `Kinds` without the gauges |
| `coverage/profile.rs:372` | the page behind a direct access key is not validated (`ProfilesNameStations`) | the property is not checked |
| `application_message.rs:279` | an invitation to a call that has just ended starts it anew (`NoStaleInviteRevivesACall`) | the property is not checked; `Careful` |
| `app/state/signaling.rs:827` | an update with empty lists ends a call that was just accepted (`NoUpdateEndsAnInvitation`) | `Careful` |
| `app/state/signaling.rs:1182` | a dropped target that has just answered is forgotten (`EchoedUpdateConverges`) | `Commands` without `drop` for groups |
| `clients/session.rs:491` | a full queue of outgoing frames stalls the ping task, and a silent client stays | enough capacity in `server` |
| `clients/session.rs:178` | a disconnect before the session's loop has no receiver (`TerminatedConnectionsEnd`) | the property is not checked |
| `dataset.rs:333` | a crash between two renames leaves no dataset (`ReplacementIsAtomic`); two reloads can mix up the marker (line 251) | the property is not checked; `Parallel = 1` |
| `release/catalog/github.rs:186` | a slow fetch overwrites what a reload brought | one task for `ReloadTakesEffect` |
| `vacs-signaling/src/client.rs:539, 550, 277, 646` | late reports of a loss, the gate, a disconnect and a login cross a reconnect | `WriterFails`, `UserInterferes`, `LossDuringLogin` |
| `matcher.rs:95` | a wait that timed out still takes a message | `TimeoutsHappen` |
| `transport/tokio.rs:234` | a pong faster than the task that waits for it counts as missing | `Preempted` |
| `app/state/signaling.rs:967, 1058` | crossing relay retries or reconnects give up a pair that could talk (`ReconnectsKeepTheCall`) | one change of the network; not checked |
| `audio/manager.rs:226, 325`, `app/state/signaling.rs:1606` | a late error task touches or opens a stream it has nothing to do with, a lost connection ends a meter (`StaleErrorsTouchNothing`) | `MaxErrors`, `Disconnects`; not checked |
| `playback/commands.rs:59, 61, 68` | overlapping operations lose a clip's source, record while off, or do not record | `Overlap = FALSE` |
| `keybinds/engine.rs:263, 369, 380, 588` | a release, an abort or a change of prio between two loads of the flags | `Grain`, `MaxConfigs` |
| `keybinds/engine.rs:607` | prio mutes separate keys too, against a comment (`SeparateKeysIgnorePrio`) | the property is not checked |
| `radio/track_audio.rs:295` | the latch of a key pressed on a new connection is cleared late | `Prompt` |
| `remote/server.rs:59, 125, 392`, `remote/commands.rs:75` | status, port, counter and settings when calls or servers overlap (`ClientsExist`) | `Grain`; not checked |
| `remote/server.rs:349`, `KeyCapture.tsx:139, 145` | a command longer than a ping ends the connection; prompts of browsers stay open or cancel each other | short `Works`; captures of the desktop |
| `store-sync.ts:134, 259, 355`, `remote/server.rs:272` | changes that cross leave stores apart | `Grain = "one"` |
| `call-store.ts:107, 195, 886`, `EndButton.tsx:25` | a late answer or reply changes the display of another call (`ModifyNeedsACall`, `ModifyBlinks`) | `Prompt`, `LateAnswers`; not checked |

The properties named in this table that no run checks stay in their modules as the
statement of what the code's comments promise.

## Proofs

TLAPS proves the following for every value of the constants. What the proofs assume
of the constants are the named assumptions of the modules, which TLC evaluates on every
run: the clients are a finite set that `None` and the sync task are not in
(`ClientsAreFinite`, `NoneIsNoClient`, `SyncIsNoClient`), `max_conf_size` is a natural
number (`MaxConfSizeIsNat`), targets resolve to sets of clients and clients appear under
targets (`ResolutionTypes`), durations are natural numbers and a pong has less time than
passes between two pings (`HeartbeatAssumption`).

| Theorem | Module | States |
| --- | --- | --- |
| `InductiveInvariant`, `TypeCorrect` | `CallManagerProofs` | the inductive invariant of the call manager; its maps are well typed |
| `BusyMarkersAreExact` | `CallManagerProofs` | a client is marked busy exactly with the call it is in or calls with |
| `LeadersLeadConferences` | `CallManagerProofs` | calls have two or more participants, those of three or more a leader that takes part |
| `Refinement` | `CallManagerProofs` | the call manager implements `Conference` |
| `LeadershipStays` | `CallManagerProofs` | leadership never transfers |
| `IncomingIndicesAreExact`, `InvitationsAreSound` | `InvitationProofs` | a client's index names exactly what rings it; whatever rings can be answered and was opened by somebody who may invite |
| `JoinersWereInvited` | `MembershipProofs` | nobody is pulled into a call |
| `SizesAreBounded` | `MembershipProofs` | no call exceeds `max_conf_size` |
| `OrderAndReportsMatch` | `MembershipProofs` | join order and link reports are about the participants |
| `LocksInvariant` | `LocksProofs` | the inductive invariant at the granularity of the locks |
| `ConfirmedLinksAreEvicted` | `LocksProofs` | a link both ends reported is being evicted, whatever interleaves |
| `LockedLeadershipStays`, `LockedLeadersLead`, `LockedJoinersWereInvited`, `LockedSizesAreBounded` | `LocksProofs` | leadership, invitations and sizes hold at that granularity too |
| `DifferencesAreExact`, `VisibleChangesAreExact` | `CoverageProofs` | the incremental coverage changes are exact, and so is what the clients are told |
| `DeadConnectionsDoNotLast`, `LiveConnectionsLast` | `HeartbeatProofs` | a dead connection is given up in time, one that answers is kept |

### The arguments

`CallProofs` has the facts about the four maps as one value that all later modules
cite: what each pure step of `CallState` returns, what `AfterEndCall` does to members,
batches, markers and index, and the three shapes most operations have. They end a
call's membership (`EndCallMembers` and its siblings), they make the manager *quieter*
(batches, targets or callees go, active calls stay), or they only *relabel* it (nobody
moves). `Ruled` is what every operation keeps whatever the busy markers say: the maps are
typed, `EntryLed` (two participants or more, a leader exactly from three on) and
`BatchesOwned`.

*Busy markers.* `BusyMarkerIsExact` is not inductive. A leader or last partner
that leaves takes its marker along, and the marker would still be due if a batch of
its own stayed behind. `BatchesOwned` rules that out: every invitation of a batch comes
from the batch's caller, who, once the call runs, takes part in it and is its only
possible leader. So `Inv` is `Ruled` and `BusyExact`.

*Refinement.* `members` and `leader` map the active calls to `Conference`. `end_call` is
a departure, an end or invisible (`Departure`); `accept_call` is a start or a join
(`AcceptIsAllowed`), for which `BusyExact` shows that acceptor and caller are free and
`BatchesOwned` that the inviter is the leader, if there is one. Everything else is
invisible. `LeadershipStays` follows from the refinement alone.

*Invitations.* Index and soundness hold together only (`Sound`): a disconnect finds in
the index what it must take away, and the index can name one target per call because
nobody is rung by two targets of a call.

*Membership.* Every step but an invitation or an answer `Shrinks` every call, which
settles joins and sizes for all of them at once. `Fits` counts the caller as
seated, because `accept_call` does not check the size again: an answer trades one or
more targets for one participant. Join order and reports need `ExactBut`: between
recording a confirmed report and the eviction it causes, the reports are exact but
for the one who is leaving.

*Locks.* Between two locks of an operation the busy markers and the index are not exact,
so neither is part of `LockInv`. It keeps `Ruled` and adds what a marker that is there
still says: it names a running call that its client is in, or a call whose id the
client generated (`MarkersOwned`, `CreatorsCall`), and nobody is rung by a call it is
in or calls with (`InviteesOutside`). The last is what makes an answer safe although
the acceptor's marker may have been taken away by somebody else's operation.
`RunningTyped` says what is left of each operation. `LockStep` shows that every locked
step relabels the manager, hushes it (quieter, with fewer markers), or is somebody's
leaving, an invitation by a client that made up the call id or is in the call, or an
answer; each lemma then has five cases instead of the fifteen actions. For
`ConfirmedLinksAreEvicted` the eviction decided under `active_calls` is followed to its
`end_call`: no other step touches that task (`EvictionsPending`), only a new report adds
to the reports (`LockReports`), and the step that uses the decision up takes the report
along (`EvictionEndsReport`). Should the evicted client have left in between, its
report went with it.

*Coverage.* Stations outside the candidates of `coverage_diff` keep their position
(`OthersKeepTheirPosition`), so the changes are complete as well as sound, and a sound
and complete set of changes takes one map to the other (`SoundAndComplete`).

*Heartbeat.* `InTime` bounds the silence in each place the task can be in; `OnePong` says
that the pong under way answers the last ping. `LiveConnectionsLast` has two
hypotheses, that pongs come before the timeout and that the task is not held up between
its ping and its look at the watch; without the second it is false (`Preempted`).

### Only model-checked

- Liveness (`OperationsEnd`, `Recovers`, healing links, reconnects and all other
  `~>` and `<>` properties) and whatever rests on ENABLED: the prover has neither.
- What recursive definitions compute (the chains of parents in `NetworkLoad`): induction
  over data is out of the provers' reach. `CoverageProofs` therefore assumes of a network
  what the loader establishes (`WellFormed`), and the run `registry` checks the loader.
- `NobodyStaysBusy` and `ImplementsConference` at the lock level: with two calls they are
  false (see Findings), so they are checked with one.
- The clients and the messages (`CallSystem`), the registry with its grace periods,
  sessions, downloads, audio, keys and remote control. Their invariants are checked by
  TLC in the situations the runs list.

## Not modelled

| Part | Why |
| --- | --- |
| ICE configuration; client login and secrets | HTTP, the keyring and files: pure I/O; the server's side of the login is in `Access` |
| Metrics, logging, health, server configuration; client configuration, window and platform | no behaviour a property is about |
| Platform key listeners; derive macros | operating-system bindings; compile-time code |
| Frontend pages and components | rendering |
| Release file catalog, the feed's cache, the JSON encoding | read once, or derived by serde |
| Media path, samples, output streams, exporting and seeking in clips | floating-point data flow without protocol state |
| The radio that emits a key | the latch of `TrackAudio` without its connection |
| Four of the six synchronised stores | `StoreSync` has one of each kind |
