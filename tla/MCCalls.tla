------------------------------ MODULE MCCalls ------------------------------
(***************************************************************************)
(* Calls end to end, for TLC: server and clients with the messages between   *)
(* them (CallSystem), and the window that shows a client's calls             *)
(* (FrontendCalls).  They share no variable: a behaviour is one of the       *)
(* component that part names, the others stay as they start.                 *)
(***************************************************************************)
EXTENDS CallSystem, TLC

CONSTANTS a, b, e, ta, tb, te, tpos, c1, c2, me, p, q

VARIABLES
    part,
    store, cur, rings, events, asked, used, left        \* FrontendCalls

uiVars == <<store, cur, rings, events, asked, used, left>>

-----------------------------------------------------------------------------
(* CallSystem: every client is a target of its own, and b and e work one     *)
(* position.  In the instance of the configuration file a calls b or e, one  *)
(* call at a time, and b's connection may break.                             *)

Three      == {a, b, e}
AllTargets == {ta, tb, te, tpos}

MCResolves == [t \in AllTargets |->
    CASE t = ta -> {{a}} [] t = tb -> {{b}} [] t = te -> {{e}} [] t = tpos -> {{b, e}}]
MCSources == [x \in Three |->
    CASE x = a -> {ta} [] x = b -> {tb} [] x = e -> {te}]

Everything == {"invite", "accept", "drop", "end", "fail", "link"}
Singles    == {{tb}, {te}}

\* Two targets are invited at once.
Group == INSTANCE CallSystem WITH
    InviteSets <- {{tb, te}}, Commands <- Everything \ {"drop"}, Reconnects <- {}

\* Two clients call each other at a time.
Crossing == INSTANCE CallSystem WITH
    CallIds <- {c1, c2}, InviteSets <- {{ta}, {tb}}, Callers <- {a, b}, Careful <- FALSE, Reconnects <- {},
    MaxMoves <- 3

\* The limits of conferences and of the rate of calls are hit.
Limits == INSTANCE CallSystem WITH
    CallIds <- {c1, c2}, max_conf_size <- 2, RateLimiting <- TRUE, InviteSets <- {{tpos}}, Callers <- {a, b},
    Reconnects <- {}

\* The link between two participants is dead.
DeadLinks == INSTANCE CallSystem WITH
    FlakyLinks <- {{a, b}}, InviteSets <- {{tb, te}}, Commands <- {"invite", "accept", "link"}, Reconnects <- {},
    MaxMoves <- 5

-----------------------------------------------------------------------------
(* FrontendCalls: two calls, with answers before the user acts again; one    *)
(* call, with answers that come late.                                        *)

Shown == INSTANCE FrontendCalls WITH
    Me <- me, Peers <- {p, q}, Calls <- {c1, c2}, MaxConferenceSize <- 3, EndActive <- TRUE, Prompt <- TRUE,
    LateAnswers <- FALSE, Prios <- BOOLEAN, MaxServer <- 4, MaxUser <- 3, MaxFails <- 1, MaxAsked <- 1

Marks == INSTANCE FrontendCalls WITH
    Me <- me, Peers <- {p, q}, Calls <- {c1}, MaxConferenceSize <- 3, EndActive <- TRUE, Prompt <- FALSE,
    LateAnswers <- TRUE, Prios <- {FALSE}, MaxServer <- 3, MaxUser <- 2, MaxFails <- 0, MaxAsked <- 1

-----------------------------------------------------------------------------

PartInit ==
    /\ part \in {"reconnect", "group", "crossing", "limits", "links", "shown", "marks"}
    /\ SystemInit
    /\ IF part = "marks" THEN Marks!Init ELSE Shown!Init

PartNext ==
    \/ part = "reconnect" /\ SystemNext /\ UNCHANGED <<part, uiVars>>
    \/ part = "group" /\ Group!SystemNext /\ UNCHANGED <<part, uiVars>>
    \/ part = "crossing" /\ Crossing!SystemNext /\ UNCHANGED <<part, uiVars>>
    \/ part = "limits" /\ Limits!SystemNext /\ UNCHANGED <<part, uiVars>>
    \/ part = "links" /\ DeadLinks!SystemNext /\ UNCHANGED <<part, uiVars>>
    \/ part = "shown" /\ Shown!Next /\ UNCHANGED <<part, systemVars>>
    \/ part = "marks" /\ Marks!Next /\ UNCHANGED <<part, systemVars>>

PartSpec == PartInit /\ [][PartNext]_<<part, systemVars, uiVars>>

-----------------------------------------------------------------------------
(* Properties of the components, in the part they belong to.                *)


\* The window shows the calls the backend has: once everything has settled the call display,
\* its label and the ringing keys are those of the backend's calls and every call that is over
\* is listed as it went; nothing that asks for attention stands still, nobody is shown both
\* talking and rejected, and what tells how a call ended stays (call-store, calllist-store).
WindowShowsTheCalls ==
    /\ [](part = "shown" => /\ Shown!TypeOK /\ Shown!ShowsTheCall /\ Shown!LabelNamesTheOther /\ Shown!ListIsSettled
                            /\ Shown!AttentionBlinks /\ Shown!ConferenceHasACall)
    /\ [](part = "marks" => Marks!TypeOK /\ Marks!NeverBoth)
    /\ [][part = "shown" => Shown!KeepsAnswers]_uiVars
    /\ [][part = "marks" => Marks!KeepsTerminalDisplay]_uiVars

=============================================================================
