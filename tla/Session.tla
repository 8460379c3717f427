------------------------------ MODULE Session ------------------------------
(***************************************************************************)
(* The life of a websocket connection on the server: the login, and then   *)
(* the four tasks of a session (ws/handler.rs, state/clients/session.rs).  *)
(* The main task handles the client's messages and passes on what others   *)
(* send; a reader and a writer move frames between the socket and bounded  *)
(* queues; a ping task watches for silence.  All waits on a full queue are *)
(* modelled, since a task that waits does nothing else.                    *)
(***************************************************************************)
EXTENDS Naturals, Sequences, FiniteSets

CONSTANTS
    Clients,
    None,
    CLIENT_CHANNEL_CAPACITY,                  \* messages others sent to a client
    CLIENT_WEBSOCKET_TASK_CHANNEL_CAPACITY,   \* frames between main task and reader, writer
    PongTicks,                                \* ping intervals that fit into the pong timeout
    Requests,                                 \* what a client sends after the login
    MaxRequests,                              \* bound on the messages of one client
    Stalling,                                 \* clients whose connection may go silent
    Closing,                                  \* clients that may close their connection
    Kicked,                                   \* clients the server may disconnect
    MayShutDown                               \* whether the server may shut down

ASSUME SessionAssumption ==
    /\ CLIENT_CHANNEL_CAPACITY \in Nat \ {0}
    /\ CLIENT_WEBSOCKET_TASK_CHANNEL_CAPACITY \in Nat \ {0}
    /\ PongTicks \in Nat \ {0}
    /\ Stalling \cup Closing \cup Kicked \subseteq Clients
    /\ MayShutDown \in BOOLEAN

VARIABLES
    socket,      \* client -> what it has sent and the server has not read
    sent,        \* client -> how much it has sent so far
    link,        \* client -> "open", "silent" or "closed"
    main,        \* client -> what the main task does: [at, to]
    reader,      \* client -> "idle", "done", or the message it waits to pass on
    writer,      \* client -> "idle", "writing" or "done"
    ping,        \* client -> "idle", "queueing", "done" or "timeout"
    silence,     \* client -> ping intervals since the last sign of life
    inbound,     \* client -> messages for the main task
    direct,      \* client -> number of messages of other sessions
    outbound,    \* client -> number of frames for the writer
    registered,  \* clients the client manager knows
    removed,     \* clients the server has unregistered
    kick,        \* clients whose reader and writer are told to end
    calls,       \* clients the call manager has calls of
    shutdown     \* the server is shutting down

queues == <<inbound, direct, outbound>>
tasks  == <<main, reader, writer, ping>>
vars   == <<socket, sent, link, tasks, silence, queues, registered, removed, kick, calls, shutdown>>

At(x) == main[x].at

\* The main task of x does a next and, for a send, sends to y.
Goto(x, a, y) == main' = [main EXCEPT ![x] = [at |-> a, to |-> y]]

\* The session is over: its tasks are aborted, its queues and its socket dropped.
Finish(x) ==
    /\ Goto(x, "over", None)
    /\ reader' = [reader EXCEPT ![x] = "done"]
    /\ writer' = [writer EXCEPT ![x] = "done"]
    /\ ping' = [ping EXCEPT ![x] = "done"]
    /\ inbound' = [inbound EXCEPT ![x] = <<>>]
    /\ direct' = [direct EXCEPT ![x] = 0]
    /\ outbound' = [outbound EXCEPT ![x] = 0]
    /\ socket' = [socket EXCEPT ![x] = <<>>]
    /\ link' = [link EXCEPT ![x] = "closed"]
    /\ silence' = [silence EXCEPT ![x] = 0]

Running(x) == At(x) \notin {"login", "starting", "over"}

Init ==
    /\ socket = [x \in Clients |-> <<>>]
    /\ sent = [x \in Clients |-> 0]
    /\ link = [x \in Clients |-> "open"]
    /\ main = [x \in Clients |-> [at |-> "login", to |-> None]]
    /\ reader = [x \in Clients |-> "idle"]
    /\ writer = [x \in Clients |-> "idle"]
    /\ ping = [x \in Clients |-> "idle"]
    /\ silence = [x \in Clients |-> 0]
    /\ inbound = [x \in Clients |-> <<>>]
    /\ direct = [x \in Clients |-> 0]
    /\ outbound = [x \in Clients |-> 0]
    /\ registered = {}
    /\ removed = {}
    /\ kick = {}
    /\ calls = {}
    /\ shutdown = FALSE

-----------------------------------------------------------------------------
(* The client's end of the connection.                                      *)

\* The login request comes first. Then the client calls others, logs out, answers
\* pings, or sends what the server does not understand.
ClientSends(x) ==
    /\ link[x] = "open" /\ sent[x] < MaxRequests
    /\ \E r \in IF sent[x] = 0 THEN {"login", "pong", "malformed"} ELSE Requests \ {x} :
         socket' = [socket EXCEPT ![x] = Append(@, r)]
    /\ sent' = [sent EXCEPT ![x] = @ + 1]
    /\ UNCHANGED <<link, tasks, silence, queues, registered, removed, kick, calls, shutdown>>

\* Nothing gets through any more, and nobody notices.
ClientGoesSilent(x) ==
    /\ x \in Stalling
    /\ link[x] = "open"
    /\ link' = [link EXCEPT ![x] = "silent"]
    /\ UNCHANGED <<socket, sent, tasks, silence, queues, registered, removed, kick, calls, shutdown>>

ClientCloses(x) ==
    /\ x \in Closing
    /\ link[x] = "open"
    /\ link' = [link EXCEPT ![x] = "closed"]
    /\ UNCHANGED <<socket, sent, tasks, silence, queues, registered, removed, kick, calls, shutdown>>

-----------------------------------------------------------------------------
(* handle_socket: login and registration.                                   *)

\* handle_websocket_login: control frames are skipped, a login request is
\* answered, and anything else ends the connection. A client that is already
\* connected is turned away.
Login(x) ==
    /\ At(x) = "login"
    /\ socket[x] # <<>>
    /\ \/ /\ Head(socket[x]) = "pong"
          /\ socket' = [socket EXCEPT ![x] = Tail(@)]
          /\ UNCHANGED <<main, registered, reader, writer, ping, queues, link, silence>>
       \/ /\ Head(socket[x]) = "login"
          /\ x \notin registered
          /\ socket' = [socket EXCEPT ![x] = Tail(@)]
          /\ registered' = registered \cup {x}
          /\ Goto(x, "starting", None)
          /\ UNCHANGED <<reader, writer, ping, queues, link, silence>>
       \/ /\ Head(socket[x]) # "pong"
          /\ Finish(x)
          /\ UNCHANGED registered
    /\ UNCHANGED <<sent, removed, kick, calls, shutdown>>

\* The client has gone, or the login flow took too long.
LoginEnds(x) ==
    /\ At(x) = "login"
    /\ socket[x] = <<>> \/ link[x] = "silent"
    /\ Finish(x)
    /\ UNCHANGED <<sent, registered, removed, kick, calls, shutdown>>

\* handle_interaction: only now do reader and writer listen for the end of the
\* session. The first frames tell the client who is there.
Start(x) ==
    /\ At(x) = "starting"
    /\ Goto(x, "writing", None)
    /\ UNCHANGED <<socket, sent, link, reader, writer, ping, silence, queues,
                   registered, removed, kick, calls, shutdown>>

-----------------------------------------------------------------------------
(* The reader.                                                              *)

\* receive_message: what the reader makes of the next frame.
ReaderReceives(x) ==
    /\ Running(x)
    /\ reader[x] = "idle"
    /\ x \notin kick /\ ~shutdown
    /\ socket[x] # <<>>
    /\ socket' = [socket EXCEPT ![x] = Tail(@)]
    /\ LET m == Head(socket[x])
       IN  /\ reader' = [reader EXCEPT ![x] = CASE m = "malformed" -> "done"
                                                [] m = "pong"      -> "idle"
                                                [] OTHER           -> m]
           /\ silence' = IF m = "pong" THEN [silence EXCEPT ![x] = 0] ELSE silence
    /\ UNCHANGED <<sent, link, main, writer, ping, queues, registered, removed, kick, calls, shutdown>>

\* Passing a message on waits for room in the queue.
ReaderPassesOn(x) ==
    /\ Running(x)
    /\ reader[x] \notin {"idle", "done"}
    /\ Len(inbound[x]) < CLIENT_WEBSOCKET_TASK_CHANNEL_CAPACITY
    /\ inbound' = [inbound EXCEPT ![x] = Append(@, reader[x])]
    /\ reader' = [reader EXCEPT ![x] = "idle"]
    /\ UNCHANGED <<socket, sent, link, main, writer, ping, silence, direct, outbound,
                   registered, removed, kick, calls, shutdown>>


\* The reader watches for the end of the session and of the server while it waits
\* for the client.
ReaderEnds(x) ==
    /\ Running(x)
    /\ reader[x] = "idle"
    /\ x \in kick \/ shutdown \/ (link[x] = "closed" /\ socket[x] = <<>>)
    /\ reader' = [reader EXCEPT ![x] = "done"]
    /\ UNCHANGED <<socket, sent, link, main, writer, ping, silence, queues,
                   registered, removed, kick, calls, shutdown>>

-----------------------------------------------------------------------------
(* The writer.                                                              *)

WriterTakes(x) ==
    /\ Running(x)
    /\ writer[x] = "idle"
    /\ x \notin kick /\ ~shutdown
    /\ outbound[x] > 0
    /\ outbound' = [outbound EXCEPT ![x] = @ - 1]
    /\ writer' = [writer EXCEPT ![x] = "writing"]
    /\ UNCHANGED <<socket, sent, link, main, reader, ping, silence, inbound, direct,
                   registered, removed, kick, calls, shutdown>>

\* The socket takes the frame, or fails when the client has gone. A connection
\* that went silent does neither.
WriterWrites(x) ==
    /\ Running(x)
    /\ writer[x] = "writing"
    /\ link[x] # "silent"
    /\ writer' = [writer EXCEPT ![x] = IF link[x] = "open" THEN "idle" ELSE "done"]
    /\ UNCHANGED <<socket, sent, link, main, reader, ping, silence, queues,
                   registered, removed, kick, calls, shutdown>>

\* Told to end, the writer still sends why, and that it closes.
WriterEnds(x) ==
    /\ Running(x)
    /\ writer[x] = "idle"
    /\ x \in kick \/ shutdown
    /\ link[x] # "silent"
    /\ writer' = [writer EXCEPT ![x] = "done"]
    /\ UNCHANGED <<socket, sent, link, main, reader, ping, silence, queues,
                   registered, removed, kick, calls, shutdown>>

-----------------------------------------------------------------------------
(* The main task. The branches of its loop are tried in order: shutdown,    *)
(* ping timeout, the client's messages, what others sent.                   *)

Ended(x) == shutdown \/ ping[x] = "timeout"

\* handle_application_message: a call to somebody is recorded and the callee
\* told, a message nobody can take is answered with an error, and a logout ends
\* the session.
HandleMessage(x) ==
    /\ At(x) = "select"
    /\ ~Ended(x)
    /\ inbound[x] # <<>>
    /\ inbound' = [inbound EXCEPT ![x] = Tail(@)]
    /\ LET m == Head(inbound[x])
       IN  \/ /\ m \notin {"login","logout"}
              /\ calls' = calls \cup {x}
              /\ Goto(x, "sending", IF m \in registered THEN m ELSE x)
           \/ /\ m = "login"
              /\ Goto(x, "sending", x)
              /\ UNCHANGED calls
           \/ /\ m = "logout"
              /\ Goto(x, "leaving", None)
              /\ UNCHANGED calls
    /\ UNCHANGED <<socket, sent, link, reader, writer, ping, silence, direct, outbound,
                   registered, removed, kick, shutdown>>

\* state.send_message waits for room in the recipient's queue; a recipient whose
\* session is over makes it fail.
SendCompletes(x) ==
    /\ At(x) = "sending"
    /\ LET y == main[x].to
       IN  \/ /\ At(y) = "over"
              /\ UNCHANGED direct
           \/ /\ At(y) # "over"
              /\ direct[y] < CLIENT_CHANNEL_CAPACITY
              /\ direct' = [direct EXCEPT ![y] = @ + 1]
    /\ Goto(x, "select", None)
    /\ UNCHANGED <<socket, sent, link, reader, writer, ping, silence, inbound, outbound,
                   registered, removed, kick, calls, shutdown>>

\* A message of somebody else goes to the writer, once the client's own have
\* been handled.
ForwardMessage(x) ==
    /\ At(x) = "select"
    /\ ~Ended(x)
    /\ inbound[x] = <<>> /\ reader[x] # "done"
    /\ direct[x] > 0
    /\ direct' = [direct EXCEPT ![x] = @ - 1]
    /\ Goto(x, "writing", None)
    /\ UNCHANGED <<socket, sent, link, reader, writer, ping, silence, inbound, outbound,
                   registered, removed, kick, calls, shutdown>>

ForwardCompletes(x) ==
    /\ At(x) = "writing"
    /\ \/ /\ writer[x] = "done"
          /\ UNCHANGED outbound
       \/ /\ writer[x] # "done"
          /\ outbound[x] < CLIENT_WEBSOCKET_TASK_CHANNEL_CAPACITY
          /\ outbound' = [outbound EXCEPT ![x] = @ + 1]
    /\ Goto(x, "select", None)
    /\ UNCHANGED <<socket, sent, link, reader, writer, ping, silence, inbound, direct,
                   registered, removed, kick, calls, shutdown>>

\* The loop ends on shutdown, on silence, and when the reader has ended and all
\* it had read is handled.
LoopEnds(x) ==
    /\ At(x) = "select"
    /\ Ended(x) \/ (reader[x] = "done" /\ inbound[x] = <<>>)
    /\ Goto(x, "leaving", None)
    /\ UNCHANGED <<socket, sent, link, reader, writer, ping, silence, queues,
                   registered, removed, kick, calls, shutdown>>

\* unregister_client after the loop; a session that was already removed is not
\* looked at again.
UnregisterOnce(x) ==
    /\ At(x) = "leaving"
    /\ registered' = registered \ {x}
    /\ calls' = IF x \in registered THEN calls \ {x} ELSE calls
    /\ Finish(x)
    /\ UNCHANGED <<sent, removed, kick, shutdown>>

\* unregister_client after the loop: removed, and its calls cleaned up, whether
\* or not the server had already removed it.
Unregister(x) ==
    /\ At(x) = "leaving"
    /\ registered' = registered \ {x}
    /\ calls' = calls \ {x}
    /\ Finish(x)
    /\ UNCHANGED <<sent, removed, kick, shutdown>>

-----------------------------------------------------------------------------
(* The ping task. Its interval is long: the other tasks have come to rest   *)
(* when it has passed.                                                      *)

ReaderStep(x) == ReaderReceives(x) \/ ReaderPassesOn(x) \/ ReaderEnds(x)
WriterStep(x) == WriterTakes(x) \/ WriterWrites(x) \/ WriterEnds(x)
MainStep(x)   ==
    \/ Login(x) \/ LoginEnds(x) \/ Start(x)
    \/ HandleMessage(x) \/ SendCompletes(x)
    \/ ForwardMessage(x) \/ ForwardCompletes(x)
    \/ LoopEnds(x) \/ Unregister(x)

AtRest == \A x \in Clients : ~ENABLED (ReaderStep(x) \/ WriterStep(x) \/ MainStep(x))

\* A client that is there answers the last ping, unless the ping is still on its
\* way or the reader is stuck.
Silence(x) ==
    [silence EXCEPT ![x] = IF link[x] = "open" /\ reader[x] = "idle" /\ writer[x] = "idle"
                           THEN 0
                           ELSE IF @ <= PongTicks THEN @ + 1 ELSE @]

\* Every interval: too long a silence ends the session, otherwise a ping is queued.
PingTick(x) ==
    /\ Running(x)
    /\ ping[x] = "idle"
    /\ AtRest
    /\ ping' = [ping EXCEPT ![x] = IF silence[x] > PongTicks THEN "timeout" ELSE "queueing"]
    /\ silence' = Silence(x)
    /\ UNCHANGED <<socket, sent, link, main, reader, writer, queues,
                   registered, removed, kick, calls, shutdown>>

\* Queueing waits for room, and fails when the writer has stopped.
PingQueues(x) ==
    /\ Running(x)
    /\ ping[x] = "queueing"
    /\ \/ /\ writer[x] = "done"
          /\ ping' = [ping EXCEPT ![x] = "timeout"]
          /\ UNCHANGED outbound
       \/ /\ writer[x] # "done"
          /\ outbound[x] < CLIENT_WEBSOCKET_TASK_CHANNEL_CAPACITY
          /\ outbound' = [outbound EXCEPT ![x] = @ + 1]
          /\ ping' = [ping EXCEPT ![x] = "idle"]
    /\ UNCHANGED <<socket, sent, link, main, reader, writer, silence, inbound, direct,
                   registered, removed, kick, calls, shutdown>>

-----------------------------------------------------------------------------
(* The rest of the server.                                                  *)

\* unregister_client by the sync task, an administrator or the client's own
\* request to terminate its connection. Nobody hears of it while the session has
\* not started.
Kick(x) ==
    /\ x \in Kicked
    /\ x \in registered
    /\ registered' = registered \ {x}
    /\ removed' = removed \cup {x}
    /\ kick' = IF Running(x) THEN kick \cup {x} ELSE kick
    /\ calls' = calls \ {x}
    /\ UNCHANGED <<socket, sent, link, tasks, silence, queues, shutdown>>

Shutdown ==
    /\ MayShutDown
    /\ ~shutdown
    /\ shutdown' = TRUE
    /\ UNCHANGED <<socket, sent, link, tasks, silence, queues, registered, removed, kick, calls>>

PingStep(x) == PingTick(x) \/ PingQueues(x)

Next ==
    \/ \E x \in Clients :
         \/ ClientSends(x) \/ ClientGoesSilent(x) \/ ClientCloses(x)
         \/ ReaderStep(x) \/ WriterStep(x) \/ PingStep(x) \/ MainStep(x)
         \/ Kick(x)
    \/ Shutdown

\* The runtime polls every task that can go on, and every session's ping interval
\* passes again and again, whatever the others do; clients and administrators do
\* what they like.
Spec ==
    /\ Init /\ [][Next]_vars
    /\ \A x \in Clients : /\ WF_vars(ReaderStep(x))
                          /\ WF_vars(WriterStep(x))
                          /\ SF_vars(PingStep(x))
                          /\ WF_vars(MainStep(x))

-----------------------------------------------------------------------------
(* Properties.                                                              *)

\* The queues keep to their capacity and a session that is over is unknown.
TypeOK ==
    /\ \A x \in Clients :
         /\ Len(inbound[x]) <= CLIENT_WEBSOCKET_TASK_CHANNEL_CAPACITY
         /\ outbound[x] <= CLIENT_WEBSOCKET_TASK_CHANNEL_CAPACITY
         /\ direct[x] <= CLIENT_CHANNEL_CAPACITY
         /\ x \in registered => At(x) \notin {"login", "over"}
    /\ removed \cap registered = {}

\* Whatever a client had queued when the server removed it, no call of a client
\* outlives its session: the messages handled after the removal are cleaned up
\* after as well.
EndedSessionsLeaveNoCalls ==
    \A x \in DOMAIN main : At(x) = "over" => x \notin calls

\* The server disconnects "clients if no Pong reply is received in time": a
\* session whose client went silent comes to its end.
SilentClientsAreDisconnected ==
    \A x \in Clients : link[x] = "silent" ~> At(x) = "over"

\* The server's "endpoint to terminate websocket connection" does so: whoever it
\* unregisters does not stay connected.
TerminatedConnectionsEnd ==
    \A x \in Clients : x \in removed ~> At(x) = "over"

\* A session whose tasks are told to end comes to its end, as does every session once
\* the server shuts down.
KickedSessionsEnd ==
    \A x \in Clients : (x \in kick \/ shutdown) ~> At(x) = "over"

=============================================================================
