---------------------------- MODULE ClientLocks ----------------------------
(***************************************************************************)
(* The four read-write locks of the client registry (ClientManager in      *)
(* vacs-server/src/state/clients/manager.rs) and the order in which its    *)
(* operations take them. A lock is tokio's fair RwLock: requests are served *)
(* in the order they were made, so a reader waits behind a waiting writer. *)
(* What an operation does under its locks is left out; whether it takes an *)
(* optional lock depends on data and is a free choice.                     *)
(***************************************************************************)
EXTENDS Naturals, Sequences, FiniteSets, SequencesExt

CONSTANTS
    Tasks,      \* sessions, the sync task, HTTP requests
    Kinds       \* the operations each task runs

VARIABLES
    program,    \* what is left of each task's operation: the locks of this stage, later stages
    holders,    \* who holds each lock: set of <<task, mode>>
    queue       \* who waits for each lock, in order

vars == <<program, holders, queue>>

\* clients, online_positions, vatsim_only_positions, online_stations
Locks == {"C", "P", "V", "S"}

-----------------------------------------------------------------------------
(* Operations: sequences of stages; a stage is a set of alternatives, each a    *)
(* sequence of locks to take and to release.                               *)

R(l)     == <<"read", l>>
W(l)     == <<"write", l>>
Free(l)  == <<"free", l>>
Brief(s) == <<s, Free(s[2])>>           \* a guard dropped at once
Maybe(s) == {<<>>, s}

\* update_online_stations takes no lock when there is nothing to change
UpdateStations == Maybe(Brief(W("S")))

\* broadcast_station_changes, then emit_coverage_gauges
Announce == <<Maybe(Brief(R("C"))),
              {<<R("P"), R("S"), R("V"), Free("P"), Free("S"), Free("V")>>}>>

ListStations == <<R("P"), R("S"), Free("S"), Free("P")>>

CoverageSnapshot == <<R("P"), R("V"), R("S"), Free("S"), Free("V"), Free("P")>>

StationCoverage == Brief(R("S")) \o <<R("P"), R("V"), Free("V"), Free("P")>>

\* the position gains a client, was VATSIM-only, or comes online
AddClient ==
    <<{Brief(W("C"))},
      {<<>>, <<W("P"), Free("P")>>,
       <<W("P"), W("V"), Free("V"), R("S"), Free("S"), Free("P")>>,
       <<W("P"), W("V"), Free("V"), W("S"), Free("S"), Free("P")>>}>> \o Announce

\* the position keeps other clients, becomes VATSIM-only, or goes offline
LeavePosition ==
    <<{Brief(R("P")), Brief(R("P")) \o Brief(R("C"))},
      {<<W("P"), Free("P")>>,
       <<W("P"), W("V"), Free("V"), R("S"), Free("S"), Free("P")>>,
       <<W("P"), R("V"), Free("V"), W("S"), Free("S"), Free("P")>>}>>

\* the last client clears what only VATSIM keeps online
RemoveClient(left) == <<{Brief(W("C"))}>> \o left \o <<{Brief(R("C"))}>>

LastClient == <<{Brief(W("V")) \o Brief(W("S"))}>>

SyncVatsimState ==
    <<{<<W("C"), W("P"), W("V")>>},
      {<<>>, Brief(R("S")), Brief(W("S")) \o Brief(R("S"))},
      {<<Free("V"), Free("P"), Free("C")>>},
      Maybe(ListStations)>> \o Announce

ReplaceNetwork ==
    <<{Brief(R("S")) \o <<W("P"), W("C"), W("V")>>},
      UpdateStations,
      {<<Free("V"), Free("C"), Free("P")>>}>> \o Announce

Stages(kind) ==
    CASE kind = "add"      -> AddClient
      [] kind = "remove"   -> RemoveClient(LeavePosition) \o Announce
      [] kind = "remove_last" -> RemoveClient(LeavePosition) \o LastClient
      [] kind = "remove_last_unmanned" -> RemoveClient(<<>>) \o LastClient
      [] kind = "sync"     -> SyncVatsimState
      [] kind = "reload"   -> ReplaceNetwork
      [] kind = "list"     -> <<{ListStations}>>
      [] kind = "snapshot" -> <<{CoverageSnapshot}>>
      [] kind = "station"  -> <<{StationCoverage}>>

-----------------------------------------------------------------------------
(* Locks *)

Compatible(mode, held) == held = {} \/ (mode = "read" /\ \A h \in held : h[2] = "read")

Waiting(t) == \E l \in Locks : \E i \in DOMAIN queue[l] : queue[l][i][1] = t

Idle == [now |-> <<>>, later |-> <<>>]

\* the step is done; after the last one of a stage the next stage is chosen
Advance(t, p) ==
    IF p.now # <<>> \/ p.later = <<>> THEN program' = [program EXCEPT ![t] = p]
    ELSE \E now \in Head(p.later) :
            program' = [program EXCEPT ![t] = [now |-> now, later |-> Tail(p.later)]]

Begin(t) ==
    /\ program[t] = Idle
    /\ \E kind \in Kinds[t] : Advance(t, [now |-> <<>>, later |-> Stages(kind)])
    /\ UNCHANGED <<holders, queue>>

Done(t) == Advance(t, [program[t] EXCEPT !.now = Tail(@)])

\* a stage without locks
Skip(t) ==
    /\ program[t].now = <<>> /\ program[t].later # <<>>
    /\ Advance(t, program[t])
    /\ UNCHANGED <<holders, queue>>

\* mutant: an unfair lock, whose readers overtake waiting writers
AcquireUnfairly(t) ==
    /\ program[t].now # <<>> /\ Head(program[t].now)[1] # "free" /\ ~Waiting(t)
    /\ LET mode == Head(program[t].now)[1]
           l    == Head(program[t].now)[2]
       IN  IF Compatible(mode, holders[l])
           THEN /\ holders' = [holders EXCEPT ![l] = @ \union {<<t, mode>>}]
                /\ Done(t)
                /\ UNCHANGED queue
           ELSE /\ queue' = [queue EXCEPT ![l] = Append(@, <<t, mode>>)]
                /\ UNCHANGED <<holders, program>>

\* the lock is free for this mode and nobody waits for it, or the task queues up
Acquire(t) ==
    /\ program[t].now # <<>> /\ Head(program[t].now)[1] # "free" /\ ~Waiting(t)
    /\ LET mode == Head(program[t].now)[1]
           l    == Head(program[t].now)[2]
       IN  IF queue[l] = <<>> /\ Compatible(mode, holders[l])
           THEN /\ holders' = [holders EXCEPT ![l] = @ \union {<<t, mode>>}]
                /\ Done(t)
                /\ UNCHANGED queue
           ELSE /\ queue' = [queue EXCEPT ![l] = Append(@, <<t, mode>>)]
                /\ UNCHANGED <<holders, program>>

Granted(t) ==
    \E l \in Locks :
        /\ queue[l] # <<>> /\ Head(queue[l])[1] = t
        /\ Compatible(Head(queue[l])[2], holders[l])
        /\ holders' = [holders EXCEPT ![l] = @ \union {Head(queue[l])}]
        /\ queue' = [queue EXCEPT ![l] = Tail(@)]
        /\ Done(t)

Release(t) ==
    /\ program[t].now # <<>> /\ Head(program[t].now)[1] = "free"
    /\ LET l == Head(program[t].now)[2]
       IN  holders' = [holders EXCEPT ![l] = {h \in @ : h[1] # t}]
    /\ Done(t)
    /\ UNCHANGED queue

Init ==
    /\ program = [t \in Tasks |-> Idle]
    /\ holders = [l \in Locks |-> {}]
    /\ queue = [l \in Locks |-> <<>>]

Next ==
    \/ \E t \in Tasks : Begin(t)
    \/ \E t \in Tasks : Skip(t)
    \/ \E t \in Tasks : Acquire(t)
    \/ \E t \in Tasks : Granted(t)
    \/ \E t \in Tasks : Release(t)

\* a task that can go on is scheduled, and the lock serves its queue
Fairness == \A t \in Tasks : WF_vars(Skip(t)) /\ WF_vars(Acquire(t)) /\ WF_vars(Granted(t)) /\ WF_vars(Release(t))

Spec == Init /\ [][Next]_vars /\ Fairness

-----------------------------------------------------------------------------
(* Properties *)

\* A lock has one writer or readers only, and nobody holds and awaits the same lock.
TypeOK ==
    /\ \A l \in Locks : \/ \A h \in holders[l] : h[2] = "read"
                        \/ Cardinality(holders[l]) = 1
    /\ \A l \in Locks : \A i \in DOMAIN queue[l] : \A h \in holders[l] : h[1] # queue[l][i][1]

\* who a waiting task waits for: those that hold the lock in its way and those ahead in the queue
Blockers(t) ==
    UNION {LET i == CHOOSE j \in DOMAIN queue[l] : queue[l][j][1] = t
           IN  {queue[l][j][1] : j \in 1 .. i - 1}
               \union {h[1] : h \in {x \in holders[l] : ~Compatible(queue[l][i][2], {x})}}
           : l \in {k \in Locks : \E j \in DOMAIN queue[k] : queue[k][j][1] = t}}

\* "To prevent deadlocks, locks must always be acquired in this order" (ClientManager):
\* no group of tasks waits only for one another.
NoCircularWait ==
    \A group \in SUBSET Tasks \ {{}} :
        ~(\A t \in group : Waiting(t) /\ Blockers(t) \cap group # {})

\* Every operation on the registry comes to its end, although the sync and the
\* sessions keep starting new ones.
OperationsEnd == \A t \in Tasks : program[t] # Idle ~> program[t] = Idle

=============================================================================
