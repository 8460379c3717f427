----------------------------- MODULE RemoteLink -----------------------------
(***************************************************************************)
(* A browser page that controls the client remotely: its transport         *)
(* (frontend/src/transport/remote.ts) and the loops that serve its         *)
(* connections (handle_ws_connection and dispatch_command in               *)
(* vacs-client/src/remote/server.rs).  A loop takes one message at a time  *)
(* and is inside the command while it runs, pings included.  A connection  *)
(* the page has given up keeps its loop until what was sent is worked off. *)
(* Messages take no time; what takes time are commands and timers, in      *)
(* ticks.  Hydration after a connect is the subject of StoreSync.          *)
(***************************************************************************)
EXTENDS Naturals, Sequences, FiniteSets

CONSTANTS
    Cmds,       \* the commands the page invokes, by their wire names
    Works,      \* how long a command of the application may take, in ticks
    PingInterval, PongTimeout, ReconnectDelay, DispatchTimeout,     \* in ticks
    MaxAsks,    \* bound: invocations
    MaxOpen,    \* bound: invocations the page awaits at once
    MaxLinks,   \* bound: connections
    MaxFails    \* bound: connection attempts that fail

VARIABLES
    ws,         \* the page's socket and timers
    links,      \* the connections, in order: what was sent and where the loop is
    down,       \* what the current connection sends to the page
    asks        \* pendingRequests with their outcomes, by message id

vars == <<ws, links, down, asks>>

(* ---------------------------- the commands ----------------------------- *)
AppCommands ==
    {"app_frontend_ready", "app_check_for_update", "app_platform_capabilities",
     "app_get_call_config", "app_set_call_config", "app_load_test_profile", "app_unload_test_profile",
     "app_get_client_page_settings", "app_set_selected_client_page_config", "app_get_version",
     "app_get_clock_mode", "app_set_clock_mode", "app_get_cpl_mode", "app_set_cpl_mode",
     "app_set_split_profile_width"}
AudioCommands ==
    {"audio_get_hosts", "audio_set_host", "audio_get_devices", "audio_set_device", "audio_get_volumes",
     "audio_set_volume", "audio_get_ring_sounds", "audio_pick_ring_sound", "audio_set_ring_sound",
     "audio_set_ring_sound_loop", "audio_play_ui_click", "audio_start_input_level_meter",
     "audio_stop_input_level_meter", "audio_set_radio_prio"}
KeybindCommands ==
    {"auth_check_session", "auth_logout",
     "keybinds_get_transmit_config", "keybinds_set_transmit_config", "keybinds_get_keybinds_config",
     "keybinds_set_binding", "keybinds_capture_joystick_button", "keybinds_cancel_joystick_capture",
     "keybinds_list_joystick_devices", "keybinds_set_ignored_joysticks",
     "keybinds_get_external_binding", "keybinds_is_portal_shortcut_bound"}
PlaybackCommands ==
    {"playback_get_enabled", "playback_set_enabled", "playback_list", "playback_delete", "playback_clear",
     "playback_start", "playback_pause", "playback_continue", "playback_stop", "playback_seek",
     "playback_export", "playback_say_again"}
RadioCommands ==
    {"radio_add_station", "radio_fast_couple", "radio_get_config", "radio_reconnect", "radio_set_config",
     "radio_set_station_state", "radio_get_stations", "radio_get_state"}
SignalingCommands ==
    {"signaling_connect", "signaling_disconnect", "signaling_drop_target", "signaling_terminate",
     "signaling_invite_to_call", "signaling_accept_call", "signaling_end_call",
     "signaling_get_ignored_clients", "signaling_add_ignored_client", "signaling_remove_ignored_client"}
RemoteCommands ==
    {"remote_broadcast_store_sync", "remote_request_store_sync", "remote_is_enabled",
     "remote_get_config", "remote_get_session_state"}
UnreachableArm ==
    {"app_open_folder", "app_open_url", "app_quit", "app_update", "app_set_always_on_top",
     "app_set_fullscreen", "app_reset_window_size", "app_load_extra_client_page_config",
     "auth_open_oauth_url", "keybinds_open_system_shortcuts_settings"}

\* The variants of the enum RemoteCommand; every other name fails to parse.
RemoteCommand ==
    AppCommands \cup AudioCommands \cup KeybindCommands \cup PlaybackCommands \cup RadioCommands
      \cup SignalingCommands \cup RemoteCommands \cup UnreachableArm

\* What the frontend's own list of commands has beside them.
FrontendOnly == {"remote_set_config", "app_change_zoom_level"}

IsDesktopOnly(cmd) ==
    cmd \in {"app_open_folder", "app_open_url", "app_quit", "app_update", "app_set_always_on_top",
             "app_set_fullscreen", "app_reset_window_size", "app_load_extra_client_page_config",
             "audio_pick_ring_sound", "auth_open_oauth_url", "keybinds_open_system_shortcuts_settings"}

\* What becomes of an invocation: it is refused at once, it reaches the arm
\* that panics, or a command runs and succeeds or fails.
Dispatch(cmd) ==
    IF IsDesktopOnly(cmd) THEN {"refused"}
    ELSE IF cmd \in UnreachableArm THEN {"panic"} ELSE {"ok", "failed"}

(* ------------------------------- state --------------------------------- *)
Off == 100      \* a timer that is not set
Idle == [busy |-> FALSE]
Ping == [type |-> "ping"]
Outcomes == {"ok", "failed", "refused", "timeout"}

TypeOK ==
    /\ ws.state \in {"closed", "connecting", "open", "closing"}
    /\ ws.ping \in 0 .. PingInterval \cup {Off} /\ ws.pong \in 0 .. PongTimeout \cup {Off}
    /\ ws.retry \in 0 .. ReconnectDelay \cup {Off}
    /\ ws.fails \in 0 .. MaxFails
    /\ (ws.state = "open") = (ws.ping # Off)
    /\ ws.pong # Off => ws.state = "open"
    /\ Len(links) <= MaxLinks
    /\ \A i \in DOMAIN links : links[i].job = Idle \/
         links[i].job \in [busy : {TRUE}, id : DOMAIN asks, age : 0 .. DispatchTimeout, work : Nat, result : Outcomes]
    /\ \A i \in DOMAIN links : links[i].open => i = Len(links) /\ ws.state = "open"
    /\ asks \in Seq({"waiting", "sent", "lost"} \cup Outcomes)
    /\ Len(asks) <= MaxAsks

Init ==
    /\ ws = [state |-> "connecting", ping |-> Off, pong |-> Off, retry |-> Off, fails |-> MaxFails]
    /\ links = << >> /\ down = << >> /\ asks = << >>

Link == Len(links)
Asked(id) == id \in DOMAIN asks /\ asks[id] \in {"waiting", "sent"}
Settle(id, r) == asks' = [asks EXCEPT ![id] = r]
Fail(S) == [id \in DOMAIN asks |-> IF asks[id] \in S THEN "lost" ELSE asks[id]]

(* ------------------------------ the page ------------------------------- *)
\* The invocations that wait for the connection go out with it.
Opened ==
    /\ ws.state = "connecting" /\ Link < MaxLinks
    /\ LET ids == {id \in DOMAIN asks : asks[id] = "waiting"}
           order == CHOOSE q \in [1 .. Cardinality(ids) -> ids] :
                      \A i, j \in 1 .. Cardinality(ids) : i < j => q[i] < q[j]
       IN links' = Append(links, [open |-> TRUE, dead |-> FALSE, job |-> Idle,
                    up |-> [i \in 1 .. Cardinality(ids) |-> [type |-> "invoke", id |-> order[i]]]])
    /\ asks' = [id \in DOMAIN asks |-> IF asks[id] = "waiting" THEN "sent" ELSE asks[id]]
    /\ ws' = [ws EXCEPT !.state = "open", !.ping = PingInterval, !.pong = Off]
    /\ UNCHANGED down

OpenFails ==
    /\ ws.state = "connecting" /\ ws.fails > 0
    /\ asks' = Fail({"waiting"})
    /\ ws' = [ws EXCEPT !.state = "closed", !.retry = ReconnectDelay, !.fails = @ - 1]
    /\ UNCHANGED <<links, down>>

Connect == ws' = [ws EXCEPT !.state = "connecting"]

\* invoke: with no connection it starts one and waits for it; what is sent
\* while the socket closes goes nowhere.
Invoke ==
    /\ Len(asks) < MaxAsks
    /\ Cardinality({id \in DOMAIN asks : Asked(id)}) < MaxOpen
    /\ IF ws.state \in {"open", "closing"}
       THEN /\ asks' = Append(asks, "sent")
            /\ links' = IF ws.state = "closing" THEN links
                        ELSE [links EXCEPT ![Link].up = Append(@, [type |-> "invoke", id |-> Len(asks) + 1])]
            /\ UNCHANGED ws
       ELSE /\ asks' = Append(asks, "waiting")
            /\ IF ws.state = "closed" THEN Connect ELSE UNCHANGED ws
            /\ UNCHANGED links
    /\ UNCHANGED down

SendPing ==
    /\ ws.state = "open" /\ ws.ping = 0 /\ ws.pong # 0
    /\ ws' = [ws EXCEPT !.ping = PingInterval, !.pong = PongTimeout]
    /\ links' = [links EXCEPT ![Link].up = Append(@, Ping)]
    /\ UNCHANGED <<down, asks>>

\* The page closes the socket; from now on it hears nothing from it.
PongMissing ==
    /\ ws.state = "open" /\ ws.pong = 0
    /\ ws' = [ws EXCEPT !.state = "closing", !.ping = Off, !.pong = Off]
    /\ links' = [links EXCEPT ![Link].open = FALSE]
    /\ down' = << >>
    /\ UNCHANGED asks

\* The closing handshake is over, or the browser no longer waits for it.
Closed ==
    /\ ws.state = "closing"
    /\ ws' = [ws EXCEPT !.state = "closed", !.retry = ReconnectDelay]
    /\ asks' = Fail({"sent"})
    /\ UNCHANGED <<links, down>>

Reconnect ==
    /\ ws.retry = 0
    /\ ws' = [ws EXCEPT !.retry = Off, !.state = IF @ = "closed" THEN "connecting" ELSE @]
    /\ UNCHANGED <<links, down, asks>>

HandleMessage ==
    /\ down # << >>
    /\ LET m == Head(down) IN
       IF m.type = "pong" THEN ws' = [ws EXCEPT !.pong = Off] /\ UNCHANGED asks
       ELSE /\ IF Asked(m.id) THEN Settle(m.id, m.result) ELSE UNCHANGED asks
            /\ UNCHANGED ws
    /\ down' = Tail(down)
    /\ UNCHANGED links

(* ------------------------------ the loops ------------------------------ *)
Reply(i, m) == down' = IF links[i].open THEN Append(down, m) ELSE down
Response(id, r) == [type |-> "response", id |-> id, result |-> r]
CanReceive(i) == links[i].job = Idle /\ ~links[i].dead /\ links[i].up # << >>

ReceivePing(i) ==
    /\ CanReceive(i) /\ Head(links[i].up).type = "ping"
    /\ links' = [links EXCEPT ![i].up = Tail(@)]
    /\ Reply(i, [type |-> "pong"])
    /\ UNCHANGED <<ws, asks>>

\* The mutant: a message that does not parse is only logged.
LogOnly(i, cmd) ==
    /\ CanReceive(i) /\ Head(links[i].up).type = "invoke" /\ cmd \notin RemoteCommand
    /\ links' = [links EXCEPT ![i].up = Tail(@)]
    /\ UNCHANGED <<ws, asks, down>>

ReceiveUnknown(i, cmd) ==
    /\ CanReceive(i) /\ Head(links[i].up).type = "invoke" /\ cmd \notin RemoteCommand
    /\ links' = [links EXCEPT ![i].up = Tail(@)]
    /\ Reply(i, Response(Head(links[i].up).id, "refused"))
    /\ UNCHANGED <<ws, asks>>

ReceiveInvoke(i, cmd) ==
    /\ CanReceive(i) /\ Head(links[i].up).type = "invoke" /\ cmd \in RemoteCommand
    /\ \E r \in Dispatch(cmd), w \in Works :
         links' = [links EXCEPT ![i].up = Tail(@), ![i].dead = r = "panic",
           ![i].job = IF r = "panic" THEN Idle
                      ELSE [busy |-> TRUE, id |-> Head(links[i].up).id, age |-> 0,
                            work |-> IF r = "refused" THEN 0 ELSE w, result |-> r]]
    /\ UNCHANGED <<ws, down, asks>>

CommandReturns(i) ==
    /\ links[i].job.busy /\ links[i].job.work = 0
    /\ links' = [links EXCEPT ![i].job = Idle]
    /\ Reply(i, Response(links[i].job.id, links[i].job.result))
    /\ UNCHANGED <<ws, asks>>

\* The command's future is dropped.
CommandTimesOut(i) ==
    /\ links[i].job.busy /\ links[i].job.age = DispatchTimeout /\ links[i].job.work # 0
    /\ links' = [links EXCEPT ![i].job = Idle]
    /\ Reply(i, Response(links[i].job.id, "timeout"))
    /\ UNCHANGED <<ws, asks>>

(* ------------------------------- time ---------------------------------- *)
Due ==
    \/ 0 \in {ws.ping, ws.pong, ws.retry}
    \/ ws.state = "connecting" \/ down # << >>
    \/ \E i \in DOMAIN links : CanReceive(i)
    \/ \E i \in DOMAIN links : links[i].job # Idle /\
         (links[i].job.work = 0 \/ links[i].job.age = DispatchTimeout)

Down(t) == IF t = Off THEN Off ELSE t - 1

Tick ==
    /\ ~Due
    /\ ws' = [ws EXCEPT !.ping = Down(@), !.pong = Down(@), !.retry = Down(@)]
    /\ links' = [i \in DOMAIN links |->
         IF links[i].job = Idle THEN links[i]
         ELSE [links[i] EXCEPT !.job.age = @ + 1, !.job.work = @ - 1]]
    /\ UNCHANGED <<down, asks>>

Next ==
    \/ Opened \/ OpenFails \/ Invoke \/ SendPing \/ PongMissing \/ Closed \/ Reconnect \/ HandleMessage \/ Tick
    \/ \E i \in DOMAIN links :
         \/ ReceivePing(i) \/ CommandReturns(i) \/ CommandTimesOut(i)
         \/ \E cmd \in Cmds : ReceiveInvoke(i, cmd) \/ ReceiveUnknown(i, cmd)

Spec == Init /\ [][Next]_vars

\* Timers fire, messages arrive, loops go on and time passes.
Fairness ==
    /\ WF_vars(Opened) /\ WF_vars(SendPing) /\ WF_vars(PongMissing) /\ WF_vars(Closed) /\ WF_vars(Reconnect)
    /\ WF_vars(HandleMessage) /\ WF_vars(Tick)
    /\ \A i \in 1 .. MaxLinks :
         WF_vars(i \in DOMAIN links /\ (ReceivePing(i) \/ CommandReturns(i) \/ CommandTimesOut(i)
                   \/ \E cmd \in Cmds : ReceiveInvoke(i, cmd) \/ ReceiveUnknown(i, cmd)))

FairSpec == Spec /\ Fairness

(* ----------------------------- properties ------------------------------ *)
\* No invocation reaches the arm "desktop-only commands should have been
\* rejected up front": it would end the loop and leave the connection
\* without an answer to anything.
LoopSurvives == \A i \in DOMAIN links : ~links[i].dead

\* "Keepalive ping. The server replies with a Pong": the page does not give
\* up a connection that works.
PingIsAnswered == \A i \in DOMAIN links : links[i].open

\* Whatever the page invokes settles, with the answer, an error or the loss
\* of the connection ("instead of leaving its promise hanging forever").
AsksSettle == \A id \in 1 .. MaxAsks : Asked(id) ~> ~Asked(id)
=============================================================================
