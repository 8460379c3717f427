----------------------------- MODULE Conference -----------------------------
(***************************************************************************)
(* What the call manager promises its clients about running calls, as the  *)
(* conference leadership decision record (docs/decisions/0002) states it   *)
(* and the manager's operations are meant to bring about: who takes part   *)
(* in which call, and who leads it.  Ringing, link failures, disconnects   *)
(* and the server's indices do not exist at this level.                    *)
(***************************************************************************)
EXTENDS Naturals, FiniteSets

CONSTANTS CallIds, Clients, None

VARIABLES
    members,  \* call -> the clients taking part in it
    leader    \* call -> the client leading it, or None

Free(x) == \A c \in CallIds : x \notin members[c]

Init ==
    /\ members = [c \in CallIds |-> {}]
    /\ leader = [c \in CallIds |-> None]

\* A call starts between two clients that are in no call, and has no leader.
Start(c, x, y) ==
    /\ members[c] = {}
    /\ x # y /\ Free(x) /\ Free(y)
    /\ members' = [members EXCEPT ![c] = {x, y}]
    /\ UNCHANGED leader

\* A free client joins a running call on the invitation of a participant: its
\* leader, or the one that becomes the leader by inviting the third.
Join(c, x, inviter) ==
    /\ inviter \in members[c]
    /\ leader[c] \in {None, inviter}
    /\ Free(x)
    /\ members' = [members EXCEPT ![c] = @ \cup {x}]
    /\ leader' = [leader EXCEPT ![c] = inviter]

\* A participant other than the leader leaves a conference, which becomes an
\* ordinary call again when only two remain.
Leave(c, x) ==
    /\ x \in members[c]
    /\ x # leader[c]
    /\ Cardinality(members[c]) >= 3
    /\ members' = [members EXCEPT ![c] = @ \ {x}]
    /\ leader' = [leader EXCEPT ![c] = IF Cardinality(members'[c]) <= 2
                                       THEN None ELSE @]

\* The leader of a conference leaves, or anybody leaves an ordinary call.
End(c) ==
    /\ members[c] # {}
    /\ members' = [members EXCEPT ![c] = {}]
    /\ leader' = [leader EXCEPT ![c] = None]

Next ==
    \E c \in CallIds :
        \/ \E x, y \in Clients : Start(c, x, y) \/ Join(c, x, y)
        \/ \E x \in Clients : Leave(c, x)
        \/ End(c)

Spec == Init /\ [][Next]_<<members, leader>>

=============================================================================
