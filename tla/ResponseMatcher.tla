--------------------------- MODULE ResponseMatcher ---------------------------
(***************************************************************************)
(* The waiters for messages of the server:                                 *)
(* vacs-signaling/src/matcher.rs. A waiter queues an entry with a predicate    *)
(* and waits for a message or its timeout; the reader task gives a message to   *)
(* the first entry it satisfies. A predicate is the set of the kinds of          *)
(* messages it accepts.                                                      *)
(***************************************************************************)
EXTENDS Naturals, Sequences, FiniteSets, SequencesExt

CONSTANTS Waiters, Kinds, MaxMessages, MaxWaits,
          TimeoutsHappen    \* whether a wait may time out: one with wait_for does not

VARIABLES
    inner,      \* the queue of entries
    wait,       \* what every waiter does, and what its last wait returned
    missed,     \* by waiter: matching messages that came during its wait and that no wait returned
    left

vars == <<inner, wait, missed, left>>

Results == Kinds \union {"none", "timeout", "disconnected"}
Idle(result) == [predicate |-> {}, result |-> result, n |-> 0]

TypeOK ==
    /\ Len(inner) <= MaxWaits
    /\ \A i \in 1 .. Len(inner) : inner[i].waiter \in Waiters /\ inner[i].predicate \subseteq Kinds
    /\ \A w \in Waiters : wait[w].predicate \subseteq Kinds /\ wait[w].result \in Results
    /\ missed \in [Waiters -> 0 .. MaxMessages]

Init ==
    /\ inner = <<>>
    /\ wait = [w \in Waiters |-> Idle("none")]
    /\ missed = [w \in Waiters |-> 0]
    /\ left = [messages |-> MaxMessages, waits |-> MaxWaits]

Waits(w)   == wait[w].predicate # {}
Open(e)    == Waits(e.waiter) /\ wait[e.waiter].n = e.n

\* wait_for_with_timeout up to the await
WaitFor(w) ==
    /\ ~Waits(w) /\ left.waits > 0
    /\ \E predicate \in SUBSET Kinds \ {{}} :
           /\ wait' = [wait EXCEPT ![w] = [predicate |-> predicate, result |-> "none", n |-> left.waits]]
           /\ inner' = Append(inner, [waiter |-> w, predicate |-> predicate, n |-> left.waits])
    /\ missed' = [missed EXCEPT ![w] = 0]
    /\ left' = [left EXCEPT !.waits = @ - 1]

\* The timeout drops the receiving end. The entry stays in the queue.
TimeOut(w) ==
    /\ TimeoutsHappen /\ Waits(w)
    /\ wait' = [wait EXCEPT ![w] = Idle("timeout")]
    /\ UNCHANGED <<inner, missed, left>>

\* The message goes to the newest entry.
TryMatchNewest(queue, k) == SelectLastInSeq(queue, LAMBDA e : k \in e.predicate)

\* try_match: the first entry in the queue that accepts the message
TryMatchEntry(queue, k) == SelectInSeq(queue, LAMBDA e : k \in e.predicate)

\* remove(pos)
Without(queue, i) == RemoveAt(queue, i)

\* try_match: a message for an entry nobody waits for any more is sent all the same
TryMatch(k) ==
    /\ left.messages > 0
    /\ left' = [left EXCEPT !.messages = @ - 1]
    /\ LET pos    == TryMatchEntry(inner, k)
           served == {w \in Waiters : pos # 0 /\ inner[pos].waiter = w /\ Open(inner[pos])} IN
       /\ inner' = IF pos = 0 THEN inner ELSE Without(inner, pos)
       /\ wait' = [w \in Waiters |-> IF w \in served THEN Idle(k) ELSE wait[w]]
       /\ missed' = [w \in Waiters |->
                        IF served = {} /\ Waits(w) /\ k \in wait[w].predicate THEN missed[w] + 1 ELSE missed[w]]

\* clear: the entries are dropped, and with them the sending ends.
Clear ==
    /\ inner # <<>>
    /\ inner' = <<>>
    /\ wait' = [w \in Waiters |-> IF Waits(w) THEN Idle("disconnected") ELSE wait[w]]
    /\ UNCHANGED <<missed, left>>

Next ==
    \/ \E w \in Waiters : WaitFor(w) \/ TimeOut(w)
    \/ \E k \in Kinds : TryMatch(k)
    \/ Clear

Spec == Init /\ [][Next]_vars

-----------------------------------------------------------------------------
(* Properties. *)

\* Whoever waits has an entry in the queue, one of its own (wait_for_with_timeout, clear).
WaitersAreQueued ==
    \A w \in Waiters : Waits(w) => Cardinality({i \in 1 .. Len(inner) : inner[i].waiter = w /\ Open(inner[i])}) = 1

\* A message answers at most one wait, the one that began first among those it matches:
\* "Only the first successful matcher will receive the message".
FirstComeFirstServed ==
    [][\A w, v \in Waiters :
           Waits(w) /\ ~Waits(w)' /\ wait'[w].result \in Kinds /\ Waits(v) /\ v # w
           /\ wait'[w].result \in wait[v].predicate => wait[w].n > wait[v].n /\ wait'[v] = wait[v]]_vars

\* A wait does not go on when a message that matches it has come and answered nobody
\* ("`Ok(Message)` if a matching message was received within the timeout").
NoMatchIsLost == \A w \in Waiters : missed[w] = 0

=============================================================================
