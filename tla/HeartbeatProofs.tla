--------------------------- MODULE HeartbeatProofs ---------------------------
(***************************************************************************)
(* What the heartbeat of a connection promises, for every interval,         *)
(* timeout, delay and pause: a dead connection is found in time, and one     *)
(* that answers in time is kept.                                            *)
(***************************************************************************)
EXTENDS Heartbeat, TLAPS

Typed ==
    /\ alive \in BOOLEAN
    /\ silent \in Nat /\ slept \in Nat /\ slept <= silent
    /\ toTick \in Int /\ toTick <= PingInterval
    /\ sinceTick \in Nat
    /\ task \in [at : {"idle", "sent", "waiting", "disconnected"}, waited : 0 .. PongTimeout]
    /\ pong \in [marked : Nat, seen : Nat, before : Nat]
    /\ answers \subseteq 0 .. MaxDelay
    /\ paused \in BOOLEAN
    /\ left \in [traffic : Nat, pings : Nat]

Awake == silent - slept
IdleBound == PingInterval + PingInterval \div 2

\* Between two pings the connection is silent for one and a half intervals at most, then for
\* as long as the task has waited; a pong that has come makes it an idle one again.
InTime ==
    /\ task.at = "idle" => Awake <= IdleBound /\ Awake + toTick <= IdleBound
    /\ task.at = "sent" => Awake <= IdleBound
    /\ task.at = "waiting" =>
          /\ Awake <= IdleBound + task.waited
          /\ pong.seen <= pong.before /\ pong.before <= pong.marked
          /\ pong.marked # pong.before => Awake <= IdleBound /\ Awake + toTick <= IdleBound
    /\ pong.seen <= pong.marked

\* The ticks come on time unless the machine slept, and the one pong that may be under way
\* is the answer to the last ping.
OnePong ==
    /\ ~alive => answers = {}
    /\ sinceTick + toTick <= PingInterval
    /\ ~paused => sinceTick <= PingInterval
    /\ task.at = "sent" => sinceTick = 0
    /\ task.at = "waiting" /\ ~paused => sinceTick <= task.waited
    /\ task.at = "idle" => answers = {} /\ pong.marked = pong.seen
    /\ task.at = "sent" => pong.marked = pong.seen /\ (alive => \E d \in 0 .. MaxDelay : answers = {d})
    /\ task.at = "waiting" =>
          /\ pong.before = pong.seen
          /\ \/ pong.marked # pong.seen /\ answers = {}
             \/ /\ pong.marked = pong.seen
                /\ alive => \E d \in 0 .. MaxDelay :
                               answers = {d} /\ (paused \/ d + task.waited <= MaxDelay)

-----------------------------------------------------------------------------
(* Time. *)

\* Elapse moves every clock by the same amount, and the one pong under way stays the only one.
LEMMA ElapseMovesClocks ==
    ASSUME Typed, NEW d \in Nat, Elapse(d)
    PROVE  /\ silent' = silent + d /\ toTick' = toTick - d /\ sinceTick' = sinceTick + d
           /\ task' \in [at : {"idle", "sent", "waiting", "disconnected"}, waited : 0 .. PongTimeout]
           /\ task'.at = task.at
           /\ task.at = "waiting" =>
                 task'.waited = IF task.waited + d > PongTimeout THEN PongTimeout ELSE task.waited + d
           /\ answers' \subseteq 0 .. MaxDelay
           /\ answers = {} => answers' = {}
           /\ \A a \in 0 .. MaxDelay : answers = {a} => answers' = {IF a > d THEN a - d ELSE 0}
  <1>1. /\ task' \in [at : {"idle", "sent", "waiting", "disconnected"}, waited : 0 .. PongTimeout]
        /\ task'.at = task.at
        /\ task.at = "waiting" =>
              task'.waited = IF task.waited + d > PongTimeout THEN PongTimeout ELSE task.waited + d
    BY HeartbeatAssumption DEF Typed, Elapse
  <1>2. answers' \subseteq 0 .. MaxDelay
    BY HeartbeatAssumption DEF Typed, Elapse
  <1>3. answers = {} => answers' = {}
    BY DEF Elapse
  <1>4. \A a \in 0 .. MaxDelay : answers = {a} => answers' = {IF a > d THEN a - d ELSE 0}
    BY DEF Elapse
  <1> QED BY <1>1, <1>2, <1>3, <1>4 DEF Elapse

\* The three ends of a tick.
GivesUp == sinceTick > 3 * PingInterval /\ At("disconnected") /\ UNCHANGED <<answers, left>>
Skips == sinceTick <= 3 * PingInterval /\ 2 * silent < PingInterval /\ UNCHANGED <<task, answers, left>>
Pings ==
    /\ left.pings > 0
    /\ left' = [left EXCEPT !.pings = @ - 1]
    /\ \E d \in 0 .. MaxDelay : answers' = IF alive THEN answers \union {d} ELSE answers
    /\ At("sent")

\* A tick gives the connection up, skips its ping or sends one.
LEMMA TickCases ==
    ASSUME Typed, Tick
    PROVE  GivesUp \/ Skips \/ Pings
  BY HeartbeatAssumption DEF Typed, Tick, Recent, GivesUp, Skips, Pings

\* Every step keeps the types.
LEMMA TypedStep ==
    ASSUME Typed, [Next]_vars
    PROVE  Typed'
  <1> USE HeartbeatAssumption
  <1>1. CASE Tick
    <2>1. /\ silent' \in Nat /\ slept' \in Nat /\ slept' <= silent'
          /\ toTick' \in Int /\ toTick' <= PingInterval /\ sinceTick' \in Nat
      BY <1>1 DEF Tick, Typed
    <2>2. /\ alive' \in BOOLEAN /\ paused' \in BOOLEAN
          /\ pong' \in [marked : Nat, seen : Nat, before : Nat]
      BY <1>1 DEF Tick, Typed
    <2>3. CASE Skips \/ GivesUp
      <3>1. task' \in [at : {"idle", "sent", "waiting", "disconnected"}, waited : 0 .. PongTimeout]
        BY <2>3 DEF Skips, GivesUp, At, Typed
      <3> QED BY <2>1, <2>2, <2>3, <3>1 DEF Skips, GivesUp, Typed
    <2>4. CASE Pings
      <3>1. left' \in [traffic : Nat, pings : Nat]
        BY <2>4 DEF Pings, Typed
      <3>2. answers' \subseteq 0 .. MaxDelay
        BY <2>4 DEF Pings, Typed
      <3> QED BY <2>1, <2>2, <2>4, <3>1, <3>2 DEF Pings, At, Typed
    <2> QED BY <1>1, <2>3, <2>4, TickCases
  <1>2. CASE ReadBefore
    BY <1>2 DEF ReadBefore, At, Typed
  <1>3. CASE Changed
    BY <1>3 DEF Changed, At, Typed
  <1>4. CASE TimedOut
    BY <1>4 DEF TimedOut, At, Typed
  <1>5. CASE Pong
    BY <1>5 DEF Pong, MarkPong, Typed
  <1>6. CASE Receive
    BY <1>6 DEF Receive, Typed
  <1>7. CASE Die
    BY <1>7 DEF Die, Typed
  <1>8. CASE Wait
    <2>1. Elapse(1) /\ UNCHANGED <<slept, paused>>
      BY <1>8 DEF Wait
    <2> QED BY <2>1, ElapseMovesClocks DEF Typed, Elapse
  <1>9. CASE Pause
    <2>1. PICK d \in Pauses : Elapse(d) /\ slept' = slept + d
      BY <1>9 DEF Pause
    <2>2. d \in Nat
      BY DEF HeartbeatAssumption
    <2> QED BY <1>9, <2>1, <2>2, ElapseMovesClocks DEF Typed, Elapse, Pause
  <1>10. CASE UNCHANGED vars
    BY <1>10 DEF vars, Typed
  <1> QED BY <1>1, <1>2, <1>3, <1>4, <1>5, <1>6, <1>7, <1>8, <1>9, <1>10 DEF Next

-----------------------------------------------------------------------------
(* Dead connections. *)

\* Every step keeps a connection that is not given up heard from in time.
LEMMA InTimeStep ==
    ASSUME Typed, Typed', InTime, [Next]_vars
    PROVE  InTime'
  <1> USE HeartbeatAssumption
  <1> DEFINE half == PingInterval \div 2
  <1>0. half \in Nat /\ 2 * half <= PingInterval /\ PingInterval <= 2 * half + 1
    BY SMT
  <1> HIDE DEF half
  <1>i. IdleBound = PingInterval + half
    BY DEF IdleBound, half
  <1>1. CASE Tick
    <2>1. CASE GivesUp
      BY <1>1, <2>1 DEF GivesUp, Tick, At, InTime, Typed
    <2>2. CASE Skips
      BY <1>0, <1>i, <1>1, <2>2 DEF Skips, Tick, InTime, Typed, Awake
    <2>3. CASE Pings
      BY <1>1, <2>3 DEF Pings, Tick, At, InTime, Typed, Awake, IdleBound
    <2> QED BY <1>1, <2>1, <2>2, <2>3, TickCases
  <1>2. CASE ReadBefore
    BY <1>0, <1>i, <1>2 DEF ReadBefore, At, Typed, InTime, Awake
  <1>3. CASE Changed
    BY <1>0, <1>i, <1>3 DEF Changed, Unanswered, At, Typed, InTime, Awake
  <1>4. CASE TimedOut
    BY <1>4 DEF TimedOut, At, Typed, InTime
  <1>5. CASE Pong
    BY <1>0, <1>i, <1>5 DEF Pong, MarkPong, Typed, InTime, Awake
  <1>6. CASE Receive
    BY <1>0, <1>i, <1>6 DEF Receive, Typed, InTime, Awake
  <1>7. CASE Die
    BY <1>0, <1>i, <1>7 DEF Die, Typed, InTime, Awake
  <1>8. CASE Wait
    <2>1. Elapse(1) /\ slept' = slept /\ pong' = pong
      BY <1>8 DEF Wait, Elapse
    <2> QED BY <1>0, <1>i, <1>8, <2>1, ElapseMovesClocks DEF Wait, Typed, InTime, Awake
  <1>9. CASE Pause
    <2>1. PICK d \in Pauses : Elapse(d) /\ slept' = slept + d
      BY <1>9 DEF Pause
    <2>2. d \in Nat /\ pong' = pong
      BY <2>1 DEF HeartbeatAssumption, Elapse
    <2> QED BY <1>0, <1>i, <1>9, <2>1, <2>2, ElapseMovesClocks DEF Pause, Typed, InTime, Awake
  <1>10. CASE UNCHANGED vars
    BY <1>0, <1>i, <1>10 DEF vars, InTime, Awake
  <1> QED BY <1>1, <1>2, <1>3, <1>4, <1>5, <1>6, <1>7, <1>8, <1>9, <1>10 DEF Next

\* A new connection was just heard from.
LEMMA InitTyped == Init => Typed /\ InTime
  <1> SUFFICES ASSUME Init PROVE Typed /\ InTime
    OBVIOUS
  <1> USE HeartbeatAssumption
  <1>1. Typed
    <2>1. alive \in BOOLEAN /\ paused \in BOOLEAN
      BY DEF Init
    <2>2. left \in [traffic : Nat, pings : Nat] /\ answers \subseteq 0 .. MaxDelay
      BY DEF Init
    <2>3. task \in [at : {"idle", "sent", "waiting", "disconnected"}, waited : 0 .. PongTimeout]
      BY DEF Init
    <2> QED BY <2>1, <2>2, <2>3 DEF Init, Typed
  <1>2. InTime
    <2>1. PingInterval \div 2 \in Nat
      BY SMT
    <2> QED BY <2>1 DEF Init, InTime, Awake, IdleBound
  <1> QED BY <1>1, <1>2

\* Whatever the interval, the timeout, the delays and the pauses are, and even when the task
\* is held up between its ping and its look at the watch, a connection that is not given up
\* was heard from within one and a half intervals and a timeout (spawn_heartbeat).
THEOREM DeadConnectionsDoNotLast == Spec => []DeadConnectionsAreFound
  <1>1. Typed /\ InTime /\ [Next]_vars => (Typed /\ InTime)'
    BY TypedStep, InTimeStep
  <1>2. Typed /\ InTime => DeadConnectionsAreFound
    BY HeartbeatAssumption DEF Typed, InTime, Awake, IdleBound, DeadConnectionsAreFound, Bound
  <1> QED BY <1>1, <1>2, InitTyped, PTL DEF Spec

-----------------------------------------------------------------------------
(* Live connections. *)

\* Every step keeps the ticks on time and at most one pong under way.
LEMMA OnePongStep ==
    ASSUME ~Preempted, Typed, Typed', OnePong, [Next]_vars
    PROVE  OnePong'
  <1> USE HeartbeatAssumption
  <1>1. CASE Tick
    <2>1. CASE GivesUp
      BY <1>1, <2>1 DEF GivesUp, Tick, At, OnePong, Typed
    <2>2. CASE Skips
      BY <1>1, <2>2 DEF Skips, Tick, OnePong, Typed
    <2>3. CASE Pings
      BY <1>1, <2>3 DEF Pings, Tick, At, OnePong, Typed
    <2> QED BY <1>1, <2>1, <2>2, <2>3, TickCases
  <1>2. CASE ReadBefore
    BY <1>2 DEF ReadBefore, At, Typed, OnePong
  <1>3. CASE Changed
    BY <1>3 DEF Changed, Unanswered, At, Typed, OnePong
  <1>4. CASE TimedOut
    BY <1>4 DEF TimedOut, At, Typed, OnePong
  <1>5. CASE Pong
    BY <1>5 DEF Pong, MarkPong, Typed, OnePong
  <1>6. CASE Receive
    BY <1>6 DEF Receive, Typed, OnePong
  <1>7. CASE Die
    BY <1>7 DEF Die, Typed, OnePong
  <1>8. CASE Wait
    <2>1. Elapse(1) /\ UNCHANGED <<alive, pong, paused>>
      BY <1>8 DEF Wait, Elapse
    <2> QED BY <1>8, <2>1, ElapseMovesClocks DEF Wait, Typed, OnePong
  <1>9. CASE Pause
    <2>1. PICK d \in Pauses : Elapse(d)
      BY <1>9 DEF Pause
    <2>2. d \in Nat /\ UNCHANGED <<alive, pong>> /\ paused'
      BY <1>9, <2>1 DEF HeartbeatAssumption, Elapse, Pause
    <2> QED BY <1>9, <2>1, <2>2, ElapseMovesClocks DEF Pause, Typed, OnePong
  <1>10. CASE UNCHANGED vars
    BY <1>10 DEF vars, OnePong
  <1> QED BY <1>1, <1>2, <1>3, <1>4, <1>5, <1>6, <1>7, <1>8, <1>9, <1>10 DEF Next

\* If every pong comes before the timeout and the task is not held up between its ping and
\* its look at the watch, a connection is given up only when it is dead or the machine slept.
THEOREM LiveConnectionsLast ==
    ASSUME MaxDelay < PongTimeout, ~Preempted
    PROVE  Spec => LiveConnectionsStay
  <1> DEFINE Inv == Typed /\ OnePong
  <1>1. Init => Inv
    <2>1. Init => OnePong
      BY HeartbeatAssumption DEF Init, OnePong
    <2> QED BY <2>1, InitTyped
  <1>2. Inv /\ [Next]_vars => Inv'
    BY TypedStep, OnePongStep
  <1>3. Inv /\ [Next]_vars => [task.at # "disconnected" /\ task'.at = "disconnected" => ~alive \/ paused]_vars
    <2> SUFFICES ASSUME Typed, OnePong, Next, task.at # "disconnected", task'.at = "disconnected", alive
                 PROVE  paused
      BY DEF vars
    <2> USE HeartbeatAssumption
    <2>1. CASE Tick
      <3>1. task'.at = "sent" \/ task' = task \/ GivesUp
        BY <2>1, TickCases DEF Pings, Skips, At
      <3> QED BY <2>1, <3>1 DEF GivesUp, OnePong, Typed
    <2>2. CASE Changed
      BY <2>2 DEF Changed, Unanswered, OnePong, At
    <2>3. CASE TimedOut
      BY <2>3 DEF TimedOut, OnePong, Typed
    <2>4. CASE Wait \/ Pause
      <3>1. \E d \in Nat : Elapse(d)
        BY <2>4 DEF Wait, Pause, HeartbeatAssumption
      <3> QED BY <3>1, ElapseMovesClocks
    <2>5. CASE ReadBefore
      BY <2>5 DEF ReadBefore, At
    <2>6. CASE Pong \/ Receive \/ Die
      <3>1. task' = task
        BY <2>6 DEF Pong, Receive, Die
      <3> QED BY <3>1
    <2> QED BY <2>1, <2>2, <2>3, <2>4, <2>5, <2>6 DEF Next
  <1> QED BY <1>1, <1>2, <1>3, PTL DEF Spec, LiveConnectionsStay

=============================================================================
