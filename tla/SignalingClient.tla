--------------------------- MODULE SignalingClient ---------------------------
(***************************************************************************)
(* The connection a client keeps to the server:                            *)
(* vacs-signaling/src/client.rs. A supervisor task listens to the events of    *)
(* the worker tasks, a reader and a writer for every connection, and           *)
(* reconnects when one of them reports an error. The user connects and          *)
(* disconnects through the commands of the app, which hold the lock of its      *)
(* state while they run; the supervisor needs that lock to deliver an event.     *)
(*                                                                         *)
(* Connections are numbered. connect and disconnect are run by the user and by  *)
(* the supervisor, so their steps take the one who runs them as a parameter.    *)
(***************************************************************************)
EXTENDS Naturals, Sequences, FiniteSets, SequencesExt

CONSTANTS
    Capacity,       \* of the broadcast channel: 100 in the code
    MaxTries,       \* reconnect_max_tries
    MaxInWindow,    \* of the reconnect gate: 3 in the code
    MaxConnections, MaxMessages, MaxCommands,
    WriterFails,    \* whether the writer may notice a broken connection before it is aborted
    LossDuringLogin,\* whether a connection may break before the client is logged in
    UserInterferes  \* whether the user acts while a connection is being lost or replaced

VARIABLES
    state,      \* Disconnected, Connected or LoggedIn
    link,       \* by connection: what the server made of it, the answer to its login, whether it is
                \* broken, and whether the session before it was terminated
    workers,    \* the reader and writer tasks that run
    sendTx,     \* the connection whose writer takes the outgoing messages, or 0
    token,      \* disconnect_token: live or cancelled
    bus,        \* the events the supervisor has not taken yet
    pc,         \* where the user and the supervisor are
    gate,       \* reconnects in the window of the gate
    shown,      \* connection_state of the app
    wish,       \* whether the user wants to be connected
    suppressed, \* the gate has given up and the user has not acted since
    left

vars == <<state, link, workers, sendTx, token, bus, pc, gate, shown, wish, suppressed, left>>

Actors == {"user", "supervisor"}
Rest   == [at |-> "rest", conn |-> 0, try |-> 0, cleared |-> FALSE, heard |-> "nothing",
           event |-> 0, after |-> "rest"]

Newest == Len(link)
Event(kind, c)  == [kind |-> kind, conn |-> c]

\* can_reconnect and is_fatal: "lost" is an error of a connection, "kicked" a disconnect with a
\* reason of the server, "stopped" the failure or the suppression of a reconnect
CanReconnect(e) == e.kind = "lost"
IsFatal(e)      == e.kind \in {"lost", "kicked", "stopped"}

\* The supervisor falls behind and loses the oldest events.
Sent(events, e) == IF Len(events) = Capacity THEN Append(Tail(events), e) ELSE Append(events, e)

Healthy(c)    == link[c].server = "accepted" /\ ~link[c].broken
Runs(kind, c) == [kind |-> kind, conn |-> c] \in workers

TypeOK ==
    /\ state \in {"Disconnected", "Connected", "LoggedIn"}
    /\ Newest <= MaxConnections
    /\ \A c \in 1 .. Newest :
           /\ link[c].server \in {"open", "asked", "accepted", "refused", "duplicate", "ended"}
           /\ link[c].answer \in {"none", "accepted", "refused", "read"}
    /\ workers \subseteq [kind : {"reader", "writer"}, conn : 1 .. Newest]
    /\ sendTx \in 0 .. Newest
    /\ token \in {"live", "cancelled"}
    /\ Len(bus) <= Capacity
    /\ gate \in 0 .. MaxInWindow
    /\ shown \in {"Disconnected", "Connecting", "Connected"}

Init ==
    /\ state = "Disconnected"
    /\ link = <<>>
    /\ workers = {}
    /\ sendTx = 0
    /\ token = "live"
    /\ bus = <<>>
    /\ pc = [a \in Actors |-> Rest]
    /\ gate = 0
    /\ shown = "Disconnected"
    /\ wish = FALSE
    /\ suppressed = FALSE
    /\ left = [messages |-> MaxMessages, commands |-> MaxCommands]

Goto(a, at) == pc' = [pc EXCEPT ![a].at = at]
Spend(what) == left[what] > 0 /\ left' = [left EXCEPT ![what] = @ - 1]

-----------------------------------------------------------------------------
(* connect *)

\* transport.connect, and what follows it without an await: the worker tasks are started,
\* with the token as it is then, and the state is set. The attempt may fail.
ConnectTransport(a) ==
    /\ pc[a].at = "connect"
    /\ \/ /\ Newest < MaxConnections
          /\ link' = Append(link, [server |-> "open", answer |-> "none", broken |-> FALSE,
                                   cleared |-> pc[a].cleared])
          /\ workers' = IF token = "cancelled" THEN workers
                        ELSE workers \union [kind : {"reader", "writer"}, conn : {Newest + 1}]
          /\ sendTx' = Newest + 1
          /\ state' = "Connected"
          /\ pc' = [pc EXCEPT ![a].at = "login", ![a].conn = Newest + 1]
       \/ /\ Goto(a, "failed")
          /\ UNCHANGED <<state, link, workers, sendTx>>
    /\ UNCHANGED <<token, bus, gate, shown, wish, suppressed, left>>

\* login: the message goes to the writer that is registered by then. The auth token may
\* not be had, and the writer may be gone.
SendLogin(a) ==
    /\ pc[a].at = "login"
    /\ \/ /\ state # "Disconnected" /\ sendTx # 0 /\ Runs("writer", sendTx)
          /\ link' = [link EXCEPT ![sendTx].server = IF @ = "open" THEN "asked" ELSE @]
          /\ Goto(a, "subscribe")
       \/ /\ pc' = [pc EXCEPT ![a].at = "stop", ![a].after = "failed"]
          /\ UNCHANGED link
    /\ UNCHANGED <<state, workers, sendTx, token, bus, gate, shown, wish, suppressed, left>>

\* recv_with_timeout subscribes once the message is on its way
Subscribe(a) ==
    /\ pc[a].at = "subscribe"
    /\ pc' = IF state = "Disconnected" \/ token = "cancelled"
             THEN [pc EXCEPT ![a].at = "stop", ![a].after = "failed"]
             ELSE [pc EXCEPT ![a].at = "answer", ![a].heard = "nothing"]
    /\ UNCHANGED <<state, link, workers, sendTx, token, bus, gate, shown, wish, suppressed, left>>

\* The first message of any connection is taken for the answer.
Heard(answer) ==
    [a \in Actors |-> IF pc[a].at = "answer" /\ pc[a].heard = "nothing"
                      THEN [pc[a] EXCEPT !.heard = answer] ELSE pc[a]]

LoggedIn(a) ==
    /\ pc[a].at = "answer" /\ pc[a].heard = "accepted"
    /\ state' = "LoggedIn"
    /\ bus' = Sent(bus, Event("connected", pc[a].conn))
    /\ pc' = [pc EXCEPT ![a] = Rest]
    /\ UNCHANGED <<link, workers, sendTx, token, gate, shown, wish, suppressed, left>>

\* a refusal, another message, a timeout, or a disconnect in the meantime
LoginFailed(a) ==
    /\ pc[a].at = "answer" /\ pc[a].heard # "accepted"
    /\ pc' = [pc EXCEPT ![a].at = "stop", ![a].after = "failed"]
    /\ UNCHANGED <<state, link, workers, sendTx, token, bus, gate, shown, wish, suppressed, left>>

\* The user is told; the supervisor tries again, and reports after the last attempt.
Failed(a) ==
    /\ pc[a].at = "failed"
    /\ IF a = "supervisor" /\ pc[a].try < MaxTries
       THEN Goto(a, "sleep") /\ UNCHANGED bus
       ELSE /\ bus' = IF a = "supervisor" THEN Sent(bus, Event("stopped", 0)) ELSE bus
            /\ pc' = [pc EXCEPT ![a] = Rest]
    /\ UNCHANGED <<state, link, workers, sendTx, token, gate, shown, wish, suppressed, left>>

-----------------------------------------------------------------------------
(* disconnect *)

\* A close frame ends the session at the server, unless the connection is broken.
Closed(conns) ==
    [c \in 1 .. Newest |->
        IF c \in conns THEN [link[c] EXCEPT !.server = IF link[c].broken THEN @ ELSE "ended", !.broken = TRUE]
                       ELSE link[c]]

\* Whoever waits for an answer is told to stop.
Cancelled(a) ==
    [b \in Actors |-> IF b = a THEN [pc[a] EXCEPT !.at = "clean"]
                      ELSE IF pc[b].at = "answer" THEN [pc[b] EXCEPT !.heard = "cancelled"] ELSE pc[b]]

\* The token is cancelled, and the workers of every connection are taken out and aborted.
Stop(a) ==
    /\ pc[a].at = "stop"
    /\ state' = "Disconnected"
    /\ workers' = {}
    /\ link' = Closed({w.conn : w \in workers})
    /\ token' = "cancelled"
    /\ pc' = Cancelled(a)
    /\ UNCHANGED <<sendTx, bus, gate, shown, wish, suppressed, left>>

\* The rest of cleanup, once the tasks have ended. A requested disconnect clears the gate.
Clean(a) ==
    /\ pc[a].at = "clean"
    /\ token' = "live"
    /\ sendTx' = 0
    /\ gate' = IF a = "user" /\ pc[a].after = "rest" THEN 0 ELSE gate
    /\ pc' = IF pc[a].after = "rest" THEN [pc EXCEPT ![a] = Rest] ELSE [pc EXCEPT ![a].at = pc[a].after]
    /\ UNCHANGED <<state, link, workers, bus, shown, wish, suppressed, left>>

-----------------------------------------------------------------------------
(* The server and the network *)

\* The server accepts one session of a client, and refuses a login for reasons of its own.
Answer(c) ==
    /\ link[c].server = "asked" /\ ~link[c].broken
    /\ LET other == \E d \in 1 .. Newest : d # c /\ link[d].server = "accepted" IN
       \/ ~other /\ link' = [link EXCEPT ![c].server = "accepted", ![c].answer = "accepted"]
       \/ link' = [link EXCEPT ![c].server = IF other THEN "duplicate" ELSE "refused", ![c].answer = "refused"]
    /\ UNCHANGED <<state, workers, sendTx, token, bus, pc, gate, shown, wish, suppressed, left>>

Kick(c) ==
    /\ Healthy(c) /\ link[c].answer = "read" /\ state = "LoggedIn"
    /\ UserInterferes \/ pc["user"].at = "rest"
    /\ link' = [link EXCEPT ![c].server = "ended"]
    /\ UNCHANGED <<state, workers, sendTx, token, bus, pc, gate, shown, wish, suppressed, left>>

Break(c) ==
    /\ ~link[c].broken
    /\ LossDuringLogin \/ state = "LoggedIn"
    /\ UserInterferes \/ LossDuringLogin \/ pc["user"].at = "rest"
    /\ link' = [link EXCEPT ![c].broken = TRUE]
    /\ UNCHANGED <<state, workers, sendTx, token, bus, pc, gate, shown, wish, suppressed, left>>

-----------------------------------------------------------------------------
(* The worker tasks *)

ReadAnswer(c) ==
    /\ Runs("reader", c) /\ ~link[c].broken
    /\ link[c].answer \in {"accepted", "refused"}
    /\ link' = [link EXCEPT ![c].answer = "read"]
    /\ pc' = Heard(link[c].answer)
    /\ bus' = Sent(bus, Event("message", c))
    /\ UNCHANGED <<state, workers, sendTx, token, gate, shown, wish, suppressed, left>>

ReadMessage(c) ==
    /\ Runs("reader", c) /\ Healthy(c) /\ link[c].answer = "read"
    /\ Spend("messages")
    /\ pc' = Heard("other")
    /\ bus' = Sent(bus, Event("message", c))
    /\ UNCHANGED <<state, link, workers, sendTx, token, gate, shown, wish, suppressed>>

\* Errors are reported only until the client is logged in.
EmitBeforeLogin(e) == bus' = IF state = "Connected" THEN Sent(bus, e) ELSE bus

\* emit_task_error: only a client that is logged in hears of it
EmitTaskError(e) == bus' = IF state = "LoggedIn" THEN Sent(bus, e) ELSE bus

\* The reader finds the connection broken, by an error, a close frame or the heartbeat, or
\* reads that the server ends the session.
ReaderFails(c) ==
    /\ Runs("reader", c)
    /\ \/ link[c].broken /\ EmitTaskError(Event("lost", c))
       \/ ~link[c].broken /\ link[c].server = "ended" /\ EmitTaskError(Event("kicked", c))
    /\ workers' = workers \ {[kind |-> "reader", conn |-> c]}
    /\ UNCHANGED <<state, link, sendTx, token, pc, gate, shown, wish, suppressed, left>>

\* The writer finds it broken when it has something to send, a ping or the logout included.
WriterFailsToSend(c) ==
    /\ WriterFails
    /\ Runs("writer", c) /\ link[c].broken
    /\ EmitTaskError(Event("lost", c))
    /\ workers' = workers \ {[kind |-> "writer", conn |-> c]}
    /\ UNCHANGED <<state, link, sendTx, token, pc, gate, shown, wish, suppressed, left>>

-----------------------------------------------------------------------------
(* supervisor_task *)

\* handle_signaling_event: what the app shows after an event
ShownAfter(e) ==
    CASE CanReconnect(e)       -> "Connecting"
      [] IsFatal(e)            -> "Disconnected"
      [] e.kind = "connected"  -> "Connected"
      [] OTHER                 -> shown

\* on_event needs the lock of the app. A fatal error is followed by a disconnect.
TakeEvent ==
    /\ pc["supervisor"].at = "rest" /\ pc["user"].at = "rest"
    /\ bus # <<>>
    /\ bus' = Tail(bus)
    /\ shown' = ShownAfter(Head(bus))
    /\ pc' = IF IsFatal(Head(bus))
             THEN [pc EXCEPT !["supervisor"] =
                       [Rest EXCEPT !.at = "stop", !.event = Head(bus).conn,
                                    !.after = IF CanReconnect(Head(bus)) THEN "decide" ELSE "rest"]]
             ELSE pc
    /\ UNCHANGED <<state, link, workers, sendTx, token, gate, wish, suppressed, left>>


\* The gate: too many reconnects of late end with an event, and with a gate that has
\* forgotten them. No tries are left when reconnecting is disabled.
Decide ==
    /\ pc["supervisor"].at = "decide"
    /\ IF gate >= MaxInWindow
       THEN /\ bus' = Sent(bus, Event("stopped", 0))
            /\ gate' = 0
            /\ suppressed' = TRUE
            /\ pc' = [pc EXCEPT !["supervisor"] = Rest]
       ELSE /\ gate' = gate + 1
            /\ pc' = IF MaxTries = 0 THEN [pc EXCEPT !["supervisor"] = Rest]
                     ELSE [pc EXCEPT !["supervisor"].at = "terminate", !["supervisor"].try = 1]
            /\ UNCHANGED <<bus, suppressed>>
    /\ UNCHANGED <<state, link, workers, sendTx, token, shown, wish, left>>

\* on_terminate_session: a request that ends the client's session at the server, and may fail.
\* Every error that is followed by a reconnect here calls for it.
TerminateSession ==
    /\ pc["supervisor"].at = "terminate"
    /\ \E ok \in BOOLEAN :
           /\ link' = IF ok THEN [c \in 1 .. Newest |->
                                      IF link[c].server = "accepted" THEN [link[c] EXCEPT !.server = "ended"] ELSE link[c]]
                      ELSE link
           /\ pc' = [pc EXCEPT !["supervisor"].at = "connect", !["supervisor"].cleared = ok]
    /\ UNCHANGED <<state, workers, sendTx, token, bus, gate, shown, wish, suppressed, left>>

\* between two attempts; whether the user connected or disconnected meanwhile is not asked
Sleep ==
    /\ pc["supervisor"].at = "sleep"
    /\ pc' = [pc EXCEPT !["supervisor"].at = "terminate", !["supervisor"].try = @ + 1,
                        !["supervisor"].after = "rest"]
    /\ UNCHANGED <<state, link, workers, sendTx, token, bus, gate, shown, wish, suppressed, left>>

\* prune: the oldest reconnect leaves the window
WindowPasses ==
    /\ gate > 0 /\ pc["supervisor"].at = "rest"
    /\ gate' = gate - 1
    /\ UNCHANGED <<state, link, workers, sendTx, token, bus, pc, shown, wish, suppressed, left>>

-----------------------------------------------------------------------------
(* The commands of the app *)

UserMayAct ==
    /\ pc["user"].at = "rest"
    /\ UserInterferes \/ (pc["supervisor"].at = "rest" /\ bus = <<>> /\ \A w \in workers : Healthy(w.conn))

\* connect_signaling
ConnectSignaling ==
    /\ UserMayAct
    /\ state = "Disconnected"
    /\ Spend("commands")
    /\ pc' = [pc EXCEPT !["user"].at = "connect"]
    /\ wish' = TRUE /\ suppressed' = FALSE
    /\ UNCHANGED <<state, link, workers, sendTx, token, bus, gate, shown>>

\* disconnect_signaling
DisconnectSignaling ==
    /\ UserMayAct
    /\ Spend("commands")
    /\ pc' = [pc EXCEPT !["user"].at = "stop"]
    /\ shown' = "Disconnected"
    /\ wish' = FALSE /\ suppressed' = FALSE
    /\ UNCHANGED <<state, link, workers, sendTx, token, bus, gate>>

Connect(a)    == \/ ConnectTransport(a) \/ SendLogin(a) \/ Subscribe(a)
                 \/ LoggedIn(a) \/ LoginFailed(a) \/ Failed(a)
Disconnect(a) == Stop(a) \/ Clean(a)
Supervise     == TakeEvent \/ Decide \/ TerminateSession \/ Sleep
Work(c)       == ReadAnswer(c) \/ ReadMessage(c) \/ ReaderFails(c) \/ WriterFailsToSend(c)

Next ==
    \/ \E a \in Actors : Connect(a) \/ Disconnect(a)
    \/ Supervise \/ WindowPasses
    \/ ConnectSignaling \/ DisconnectSignaling
    \/ \E c \in 1 .. Newest : Answer(c) \/ Kick(c) \/ Break(c) \/ Work(c)

\* Tasks that can go on do: the runtime polls them, and the heartbeat finds every broken
\* connection out.
Fairness ==
    /\ WF_vars(Supervise)
    /\ \A a \in Actors : WF_vars(Connect(a)) /\ WF_vars(Disconnect(a))
    /\ \A c \in 1 .. MaxConnections : WF_vars(c <= Newest /\ ReaderFails(c))

Spec == Init /\ [][Next]_vars /\ Fairness

-----------------------------------------------------------------------------
(* Properties. *)

Resting == bus = <<>> /\ \A a \in Actors : pc[a].at = "rest"

\* A connection that was lost is noticed: the client does not go on as if it were logged in
\* with nobody reading (State: Disconnected is set when "a websocket timeout/error is
\* received, or one of the processing tasks encounters an error").
LossesAreNoticed ==
    \A c \in 1 .. MaxConnections :
        (state = "LoggedIn" /\ sendTx = c /\ link[c].broken) ~> (state # "LoggedIn" \/ sendTx # c)

\* A connection on which the client is logged in and that works is taken down for an error
\* of its own or by the user, not for the error of an earlier connection or by an attempt to
\* reconnect (supervisor_task, reconnect).
OwnErrorOrUser ==
    \A a \in Actors : pc[a].at = "stop" /\ pc'[a].at = "clean" /\ state = "LoggedIn" =>
        \A c \in 1 .. Newest : Healthy(c) /\ Runs("reader", c) => a = "user" \/ pc[a].event = c

\* After a requested disconnect the client stays disconnected until the user connects.
DisconnectStays == ~wish /\ pc["user"].at = "rest" => state = "Disconnected"

\* Once the gate has called off reconnecting, nothing reconnects until the user acts
\* ("aborting automatic reconnect due to rapid failures").
SuppressionHolds == suppressed => pc["supervisor"].at \notin {"terminate", "connect", "login", "answer"}

\* A client at rest has the tasks of one connection at most, the one its messages go to.
OneConnection == Resting => \A w \in workers : w.conn = sendTx

\* With no event left, the app shows a connection exactly when there is one
\* (handle_signaling_event, disconnect_signaling).
ShowsTheConnection ==
    Resting => /\ shown = "Connected" <=> state = "LoggedIn"
               /\ shown = "Disconnected" <=> state = "Disconnected"

\* An attempt to reconnect is not refused for the session that was lost, if the server could be
\* asked to end it (needs_session_terminate).
OldSessionsDoNotStandInTheWay ==
    \A c \in 1 .. Newest : link[c].cleared => link[c].server # "duplicate"

=============================================================================
