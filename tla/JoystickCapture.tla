--------------------------- MODULE JoystickCapture ---------------------------
(***************************************************************************)
(* "Press a button to bind": the capture sessions of the settings pages    *)
(* (frontend/src/components/settings/KeyCapture.tsx), on the desktop and   *)
(* in remote browsers, and the commands that serve them                    *)
(* (vacs-client/src/keybinds/commands.rs).  A session asks for the next    *)
(* button, asks again when none came, and cancels its capture when it      *)
(* ends.  The commands of a browser run one after the other on its         *)
(* connection and are given up after the dispatch timeout, which is        *)
(* shorter than the time a capture waits.                                  *)
(***************************************************************************)
EXTENDS Naturals, FiniteSets

CONSTANTS
    Sessions,   \* capture sessions, each opened at most once
    Remote,     \* the sessions opened in a remote browser
    Devices,    \* joysticks
    MaxPress,   \* bound: buttons pressed
    MaxIgnore,  \* bound: changes of the ignored devices
    Parallel    \* sessions that may be open at once

VARIABLES
    ui,         \* what the page shows for a session: new, prompt, bound, closed
    call,       \* its keybinds_capture_joystick_button
    cancel,     \* its keybinds_cancel_joystick_capture: none, sent, done
    active,     \* JoystickCaptureState: the sessions whose token is held
    ignored,    \* the devices in ignored_joysticks
    left        \* what the bounds leave

vars == <<ui, call, cancel, active, ignored, left>>

NoCall == [at |-> "idle"]
Nobody == {}

Init ==
    /\ ui = [s \in Sessions |-> "new"]
    /\ call = [s \in Sessions |-> NoCall]
    /\ cancel = [s \in Sessions |-> "none"]
    /\ active = Nobody
    /\ ignored \in SUBSET Devices
    /\ left = [press |-> MaxPress, ignore |-> MaxIgnore]

TypeOK ==
    /\ ui \in [Sessions -> {"new", "prompt", "bound", "closed"}]
    /\ \A s \in Sessions :
         \/ call[s] \in [at : {"idle", "asked", "gone", "null", "error"}]
         \/ call[s] \in [at : {"waiting"}, ignored : SUBSET Devices, cancelled : BOOLEAN]
         \/ call[s] \in [at : {"button"}, device : Devices]
    /\ \A s \in Sessions : (cancel[s] # "none") = (ui[s] \in {"bound", "closed"})
    /\ Cardinality(active) <= 1
    /\ ignored \subseteq Devices

(* ------------------------------ the pages ------------------------------ *)
Open(s) ==
    /\ ui[s] = "new"
    /\ Cardinality({t \in Sessions : ui[t] = "prompt"}) < Parallel
    /\ ui' = [ui EXCEPT ![s] = "prompt"]
    /\ call' = [call EXCEPT ![s] = [at |-> "asked"]]
    /\ UNCHANGED <<cancel, active, ignored, left>>

\* A click, or a key of the keyboard that commits first.
Close(s) ==
    /\ ui[s] = "prompt"
    /\ ui' = [ui EXCEPT ![s] = "closed"]
    /\ cancel' = [cancel EXCEPT ![s] = "sent"]
    /\ UNCHANGED <<call, active, ignored, left>>

\* The session is over: whatever comes is dropped.
AnsweredTooLate(s) ==
    /\ call[s].at \in {"null", "error", "button"} /\ ui[s] # "prompt"
    /\ call' = [call EXCEPT ![s] = NoCall]
    /\ UNCHANGED <<ui, cancel, active, ignored, left>>

Rearm(s) ==
    /\ call[s].at = "null" /\ ui[s] = "prompt"
    /\ call' = [call EXCEPT ![s] = [at |-> "asked"]]
    /\ UNCHANGED <<ui, cancel, active, ignored, left>>

\* catch {}: the page keeps its prompt and its keyboard, the loop ends.
CaptureFailed(s) ==
    /\ call[s].at = "error" /\ ui[s] = "prompt"
    /\ call' = [call EXCEPT ![s] = [at |-> "gone"]]
    /\ UNCHANGED <<ui, cancel, active, ignored, left>>

CommitCapture(s) ==
    /\ call[s].at = "button" /\ ui[s] = "prompt"
    /\ ui' = [ui EXCEPT ![s] = "bound"]
    /\ cancel' = [cancel EXCEPT ![s] = "sent"]
    /\ call' = [call EXCEPT ![s] = NoCall]
    /\ UNCHANGED <<active, ignored, left>>

(* ----------------------------- the commands ---------------------------- *)
\* A cancelled capture that still waits returns null before anything else.
Cancelled(S) ==
    [t \in Sessions |-> IF t \in S /\ call[t].at = "waiting" THEN [call[t] EXCEPT !.cancelled = TRUE] ELSE call[t]]

Start(s) ==
    /\ call[s].at = "asked"
    /\ active' = {s}
    /\ call' = [Cancelled(active \ {s}) EXCEPT
                 ![s] = [at |-> "waiting", ignored |-> ignored, cancelled |-> FALSE]]
    /\ UNCHANGED <<ui, cancel, ignored, left>>

ReturnCancelled(s) ==
    /\ call[s].at = "waiting" /\ call[s].cancelled
    /\ call' = [call EXCEPT ![s] = [at |-> "null"]]
    /\ UNCHANGED <<ui, cancel, active, ignored, left>>

\* Every subscriber sees the press; the token stays in the slot, spent.
Press(d) ==
    /\ left.press > 0
    /\ \E s \in Sessions : call[s].at = "waiting"
    /\ call' = [s \in Sessions |->
         IF call[s].at # "waiting" THEN call[s]
         ELSE IF call[s].cancelled THEN [at |-> "null"]
         ELSE IF d \in call[s].ignored THEN call[s] ELSE [at |-> "button", device |-> d]]
    /\ left' = [left EXCEPT !.press = @ - 1]
    /\ UNCHANGED <<ui, cancel, active, ignored>>

\* On the desktop the capture itself times out ...
TimesOut(s) ==
    /\ s \notin Remote
    /\ call[s].at = "waiting" /\ ~call[s].cancelled
    /\ call' = [call EXCEPT ![s] = [at |-> "null"]]
    /\ UNCHANGED <<ui, cancel, active, ignored, left>>

\* ... while the connection of a browser gives the command up before, or is
\* lost with it: the future is dropped, the token stays in the slot.
DispatchTimesOut(s) ==
    /\ s \in Remote
    /\ call[s].at = "waiting" /\ ~call[s].cancelled
    /\ call' = [call EXCEPT ![s] = [at |-> "error"]]
    /\ UNCHANGED <<ui, cancel, active, ignored, left>>


\* A browser's cancel waits behind its capture.
CancelCapture(s) ==
    /\ cancel[s] = "sent"
    /\ s \in Remote => call[s].at \notin {"asked", "waiting"}
    /\ cancel' = [cancel EXCEPT ![s] = "done"]
    /\ active' = active \ {s}
    /\ call' = Cancelled(active \cap {s})
    /\ UNCHANGED <<ui, ignored, left>>

SetIgnored ==
    /\ left.ignore > 0
    /\ \E S \in SUBSET Devices : ignored' = S
    /\ left' = [left EXCEPT !.ignore = @ - 1]
    /\ UNCHANGED <<ui, call, cancel, active>>

Step(s) ==
    \/ AnsweredTooLate(s) \/ Rearm(s) \/ CaptureFailed(s) \/ CommitCapture(s)
    \/ Start(s) \/ ReturnCancelled(s) \/ CancelCapture(s)

Next ==
    \/ SetIgnored \/ \E d \in Devices : Press(d)
    \/ \E s \in Sessions : Open(s) \/ Close(s) \/ Step(s) \/ TimesOut(s) \/ DispatchTimesOut(s)

Spec == Init /\ [][Next]_vars

\* Commands run and return, at the latest when they time out, and their
\* answers are handled.
FairSpec == Spec /\ \A s \in Sessions : WF_vars(Step(s)) /\ WF_vars(TimesOut(s) \/ DispatchTimesOut(s))

(* ----------------------------- properties ------------------------------ *)
\* "Starting a new capture cancels a previous one still in flight": one
\* capture waits, and it is the one a cancel would find.
OneCapture == \A s \in Sessions : call[s].at = "waiting" /\ ~call[s].cancelled => active = {s}

\* "a stale cancel cannot abort a newer capture".
CancelIsOwn ==
    [][\A s \in Sessions : cancel[s] = "sent" /\ cancel'[s] = "done" =>
         \A t \in Sessions \ {s} : call'[t] = call[t]]_vars

\* A session that has ended binds nothing any more, whatever its capture
\* still returns.
EndedBindsNothing == [][\A s \in Sessions : ui[s] = "closed" => ui'[s] = "closed"]_vars

\* A device that was ignored while the session was open wins no capture
\* ("latched switches that would instantly win every capture").
IgnoredNeverWins == MaxIgnore = 0 => \A s \in Sessions : call[s].at = "button" => call[s].device \notin ignored

\* A page that prompts for a button has a capture that waits for one or asks
\* for one ("on timeout we re-arm as long as this capture session is still
\* active").
PromptListens == \A s \in Sessions : ui[s] = "prompt" => call[s].at # "gone"

\* The capture of a session that ended ends, even when its cancel overtook
\* it on the way.
CaptureEnds == \A s \in Sessions : ui[s] \in {"bound", "closed"} ~> call[s].at # "waiting"

\* A session that was superseded gives way: captures do not go on
\* cancelling each other ("Starting a new capture cancels a previous one
\* still in flight").
SupersedingStops == <>[](\A s \in Sessions : ui[s] = "prompt" /\ call[s].at = "waiting" => ~call[s].cancelled)
=============================================================================
