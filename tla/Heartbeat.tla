------------------------------ MODULE Heartbeat ------------------------------
(***************************************************************************)
(* How a client finds out that its connection is dead: the heartbeat of         *)
(* vacs-signaling/src/transport/tokio.rs. A task pings the server every             *)
(* interval, unless something was received of late, and gives the connection    *)
(* up when no pong comes in time; the receiver notes what arrives.               *)
(* A unit of time is half the timeout of a pong.                               *)
(***************************************************************************)
EXTENDS Integers, FiniteSets

CONSTANTS
    PingInterval, PongTimeout,  \* 15 s and 5 s: 6 and 2 units
    MaxDelay,       \* of the answer to a ping
    Pauses,         \* of the machine: how long it may sleep
    MaxTraffic, MaxPings,
    Preempted       \* whether the task may be held up between two statements without an await

ASSUME HeartbeatAssumption ==
    /\ \A n \in {PingInterval, PongTimeout, MaxDelay, MaxTraffic, MaxPings} : n \in Nat
    /\ Pauses \subseteq Nat
    /\ PongTimeout < PingInterval /\ Preempted \in BOOLEAN

VARIABLES
    alive,      \* whether the server still answers
    silent,     \* time since the last frame received: last_rx
    slept,      \* how much of it the machine slept
    toTick,     \* time to the next tick of the interval; negative when the tick is late
    sinceTick,  \* time since the tick before: last_tick
    task,       \* where the heartbeat is, and for how long it has waited
    pong,       \* the watch: the pongs marked, those the task has seen, the value it has compared with
    answers,    \* the time every pong under way still takes
    paused,     \* the machine was suspended since the last tick
    left

vars == <<alive, silent, slept, toTick, sinceTick, task, pong, answers, paused, left>>

Bound == PingInterval + PingInterval \div 2 + PongTimeout

TypeOK ==
    /\ alive \in BOOLEAN
    /\ silent \in Nat
    /\ slept \in 0 .. silent
    /\ toTick \in Int
    /\ sinceTick \in Nat
    /\ task \in [at : {"idle", "sent", "waiting", "disconnected"}, waited : 0 .. PongTimeout]
    /\ pong \in [marked : 0 .. MaxPings, seen : 0 .. MaxPings, before : 0 .. MaxPings]
    /\ answers \subseteq 0 .. MaxDelay
    /\ paused \in BOOLEAN
    /\ left \in [traffic : 0 .. MaxTraffic, pings : 0 .. MaxPings]

Init ==
    /\ alive = TRUE
    /\ silent = 0 /\ slept = 0 /\ toTick = 0 /\ sinceTick = 0
    /\ task = [at |-> "idle", waited |-> 0]
    /\ pong = [marked |-> 0, seen |-> 0, before |-> 0]
    /\ answers = {}
    /\ paused = FALSE
    /\ left = [traffic |-> MaxTraffic, pings |-> MaxPings]

At(where) == task' = [at |-> where, waited |-> 0]

\* Anything received within the interval makes the ping unnecessary.
RecentlyHeard(age) == age < PingInterval

\* last_rx().elapsed() < HEARTBEAT_PING_INTERVAL / 2
Recent(age) == 2 * age < PingInterval

\* A tick, with those that a pause has missed at once after it: after a long pause the connection is given up, after recent traffic nothing is
\* done, and otherwise a ping is sent.
Tick ==
    /\ task.at = "idle" /\ toTick <= 0
    /\ toTick' = toTick + PingInterval
    /\ sinceTick' = 0
    /\ paused' = FALSE
    /\ IF sinceTick > 3 * PingInterval
       THEN At("disconnected") /\ UNCHANGED <<answers, left>>
       ELSE IF Recent(silent)
       THEN UNCHANGED <<task, answers, left>>
       ELSE /\ left.pings > 0
            /\ left' = [left EXCEPT !.pings = @ - 1]
            /\ \E d \in 0 .. MaxDelay : answers' = IF alive THEN answers \union {d} ELSE answers
            /\ At("sent")
    /\ UNCHANGED <<alive, silent, slept, pong>>

\* *pong_rx.borrow(): what the watch holds by now is what a new pong has to differ from
ReadBefore ==
    /\ task.at = "sent"
    /\ At("waiting")
    /\ pong' = [pong EXCEPT !.before = pong.marked]
    /\ UNCHANGED <<alive, silent, slept, toTick, sinceTick, answers, paused, left>>

\* The pong is compared with the one seen before the ping.
UnansweredAsSeen(p) == p.before = p.seen

\* A change that the task has not seen ends the wait, whether or not it was there before it began.
Unanswered(p) == p.marked = p.before

Changed ==
    /\ task.at = "waiting" /\ pong.seen # pong.marked
    /\ pong' = [pong EXCEPT !.seen = pong.marked]
    /\ At(IF Unanswered(pong) THEN "disconnected" ELSE "idle")
    /\ UNCHANGED <<alive, silent, slept, toTick, sinceTick, answers, paused, left>>

TimedOut ==
    /\ task.at = "waiting" /\ pong.seen = pong.marked /\ task.waited = PongTimeout
    /\ At("disconnected")
    /\ UNCHANGED <<alive, silent, slept, toTick, sinceTick, pong, answers, paused, left>>

MarkPong(p) == [p EXCEPT !.marked = @ + 1]

\* mark_pong, by the receiver
Pong ==
    /\ 0 \in answers
    /\ Preempted \/ task.at # "sent"
    /\ answers' = answers \ {0}
    /\ silent' = 0 /\ slept' = 0
    /\ pong' = MarkPong(pong)
    /\ UNCHANGED <<alive, toTick, sinceTick, task, paused, left>>

\* mark_rx, for a message and for a ping of the server
Receive ==
    /\ alive /\ left.traffic > 0
    /\ silent' = 0 /\ slept' = 0
    /\ left' = [left EXCEPT !.traffic = @ - 1]
    /\ UNCHANGED <<alive, toTick, sinceTick, task, pong, answers, paused>>

\* The connection goes dead without a word: nothing under way arrives any more.
Die ==
    /\ alive
    /\ alive' = FALSE
    /\ answers' = {}
    /\ UNCHANGED <<silent, slept, toTick, sinceTick, task, pong, paused, left>>

Elapse(d) ==
    /\ silent' = silent + d
    /\ toTick' = toTick - d
    /\ sinceTick' = sinceTick + d
    /\ task' = IF task.at = "waiting" THEN [task EXCEPT !.waited = IF @ + d > PongTimeout THEN PongTimeout ELSE @ + d]
               ELSE task
    /\ answers' = {IF a > d THEN a - d ELSE 0 : a \in answers}
    /\ UNCHANGED <<alive, pong, left>>

\* Time does not pass a step that is due.
Wait ==
    /\ task.at # "disconnected"
    /\ 0 \notin answers
    /\ task.at # "sent"
    /\ ~(task.at = "idle" /\ toTick <= 0)
    /\ task.at = "waiting" => task.waited < PongTimeout /\ pong.seen = pong.marked
    /\ Elapse(1)
    /\ UNCHANGED <<slept, paused>>

\* The machine sleeps while the task waits for a tick or for a pong.
Pause ==
    /\ ~paused /\ task.at \in {"idle", "waiting"}
    /\ \E d \in Pauses : Elapse(d) /\ slept' = slept + d
    /\ paused' = TRUE

Next == Tick \/ ReadBefore \/ Changed \/ TimedOut \/ Pong \/ Receive \/ Die \/ Wait \/ Pause

Spec == Init /\ [][Next]_vars

-----------------------------------------------------------------------------
(* Properties. *)

\* A connection is given up only if it is dead, or after a long pause of the machine
\* ("Disconnecting due to heartbeat timeout"): one that answers within the timeout stays.
LiveConnectionsStay ==
    [][task.at # "disconnected" /\ task'.at = "disconnected" => ~alive \/ paused]_vars

\* A dead connection is found dead one and a half intervals and a timeout after the last
\* frame at the latest (spawn_heartbeat), the time not counted that the machine slept.
DeadConnectionsAreFound ==
    task.at # "disconnected" => silent - slept <= Bound

=============================================================================
