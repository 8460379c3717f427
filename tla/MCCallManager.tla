---------------------------- MODULE MCCallManager ----------------------------
(***************************************************************************)
(* Instances of CallManager and of CallManagerLocks for TLC.               *)
(***************************************************************************)
EXTENDS CallManagerLocks

CONSTANTS a, b, d, e, ta, tb, td, pos, c1, c2

\* A client target resolves to its client.  The position is staffed by d and
\* e, and d may meanwhile have left it.
MCResolves ==
    [t \in Targets |-> CASE t = ta -> {{a}}
                         [] t = tb -> {{b}}
                         [] t = td -> {{d}}
                         [] OTHER -> {{d, e}, {e}}]

\* d and e call as their shared position where there is one, the others as
\* themselves.
MCSourceTargets ==
    [x \in Clients |-> CASE x = a -> {ta}
                         [] x = b -> {tb}
                         [] OTHER -> Targets \cap {td, pos}]

\* Who starts which call, where operations are not atomic.
MCCreator == [c \in CallIds |-> IF c = c1 THEN a ELSE b]

\* CallManager by itself: no task is ever in the middle of an operation.
AtomicSpec == LocksInit /\ [][Next /\ UNCHANGED running]_lockVars

=============================================================================
