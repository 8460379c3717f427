------------------------------ MODULE StoreSync ------------------------------
(***************************************************************************)
(* How the frontends of one client are kept alike: the desktop window and  *)
(* the pages in remote browsers (frontend/src/transport/store-sync.ts and  *)
(* hydrate.ts).  An instance broadcasts a whole store when one of its      *)
(* fields changes and ignores its own broadcasts; a page that connects     *)
(* takes a snapshot of the session from the backend and then asks the      *)
(* desktop to broadcast everything.  Calls, and what the snapshot holds of *)
(* the session, come as events of the backend.  The connection of a page   *)
(* sends events before queued responses (handle_ws_connection).            *)
(*                                                                         *)
(* The settings store stands for the stores that are mirrored as they are  *)
(* (stations, call list, settings, radio, playback), with one field that   *)
(* the snapshot carries and one that it does not.  The call store is       *)
(* mirrored in part.                                                       *)
(***************************************************************************)
EXTENDS Naturals, Sequences, FiniteSets

CONSTANTS
    Desk, Pages,    \* the instances
    MaxEdits,       \* bound: changes of a setting
    MaxPrio,        \* bound: changes of the priority flag
    MaxCalls,       \* bound: calls
    MaxSession,     \* bound: changes of the session
    MaxDrops,       \* bound: connections lost
    Grain           \* "one": inputs come when the last one is mirrored; "any"

VARIABLES
    store,      \* the stores of every instance
    backend,    \* the backend's call config, session and call
    up,         \* what an instance has sent to the backend
    events,     \* the events on their way to an instance
    resp,       \* the snapshots on their way to a page
    link,       \* a page's connection
    left        \* what the bounds leave

vars == <<store, backend, up, events, resp, link, left>>

Inst == {Desk} \cup Pages
Fields == {"callConfig", "other"}
Default == 0        \* the initial value of a field in a frontend
Saved == 1          \* its value in the client's configuration
NoDisplay == [kind |-> "none", call |-> 0]
Display(k, c) == [kind |-> k, call |-> c]
EventDriven == [kind |-> "null", call |-> 0]

Init ==
    /\ store = [i \in Inst |-> [settings |-> [f \in Fields |-> IF i = Desk THEN Saved ELSE Default],
                                prio |-> FALSE, display |-> NoDisplay, session |-> 0]]
    /\ backend = [callConfig |-> Saved, session |-> 0, call |-> NoDisplay]
    /\ up = [i \in Inst |-> << >>] /\ events = [i \in Inst |-> << >>] /\ resp = [p \in Pages |-> << >>]
    /\ link = [p \in Pages |-> "off"]
    /\ left = [edits |-> MaxEdits, prio |-> MaxPrio, calls |-> MaxCalls, session |-> MaxSession, drops |-> MaxDrops]

Vals == 0 .. MaxEdits + 1
Displays == [kind : {"none", "live", "rejected"}, call : 0 .. MaxCalls]

TypeOK ==
    /\ \A i \in Inst : store[i] \in
         [settings : [Fields -> Vals], prio : BOOLEAN, display : Displays, session : 0 .. MaxSession]
    /\ \A i \in Inst : (store[i].display.kind = "none") = (store[i].display.call = 0)
    /\ \A p \in Pages : link[p] \in {"off", "new", "subscribed", "hydrated", "synced"}
    /\ \A p \in Pages : link[p] = "off" => events[p] = << >> /\ resp[p] = << >>
    /\ \A p \in Pages : Len(resp[p]) = (IF link[p] = "subscribed" THEN 1 ELSE 0)

Linked(i) == IF i = Desk THEN "synced" ELSE link[i]
Hears(i) == Linked(i) \notin {"off", "new"}
Emit(m, from) == [i \in Inst |-> IF Hears(i) /\ i # from THEN Append(events[i], m) ELSE events[i]]
Drained == \A i \in Inst : up[i] = << >> /\ events[i] = << >>
Settled == Drained /\ \A p \in Pages : link[p] \in {"off", "synced"}
Quiet == Drained /\ \A p \in Pages : link[p] = "synced"
MayChange(i) == Grain = "any" \/ (Settled /\ Linked(i) = "synced")

(* --------------------------- live broadcasts --------------------------- *)
\* selectLiveCallSync: a display that calls drive is not carried.
SelectLiveCallSync(s) ==
    [prio |-> s.prio, display |-> IF s.display.kind = "live" THEN EventDriven ELSE s.display]


SkipSync(next, prev) == SelectLiveCallSync(next).display = EventDriven /\ next.prio = prev.prio

\* The messages the subscriptions of instance i send when its stores change.
Broadcasts(i, next) ==
    LET prev == store[i]
        settings == IF next.settings = prev.settings THEN << >>
                    ELSE <<[type |-> "settings", from |-> i, state |-> next.settings]>>
        call == IF SkipSync(next, prev) \/ SelectLiveCallSync(next) = SelectLiveCallSync(prev) THEN << >>
                ELSE <<[type |-> "call", from |-> i, full |-> FALSE, state |-> SelectLiveCallSync(next)]>>
    IN settings \o call

Change(i, next) ==
    /\ store' = [store EXCEPT ![i] = next]
    /\ up' = [up EXCEPT ![i] = @ \o Broadcasts(i, next)]

(* ------------------------------- inputs -------------------------------- *)
\* A setting is changed by hand: saved by the backend, then stored.
EditSetting(i, f) ==
    /\ left.edits > 0 /\ MayChange(i)
    /\ LET v == MaxEdits + 2 - left.edits IN
       /\ Change(i, [store[i] EXCEPT !.settings[f] = v])
       /\ backend' = IF f = "callConfig" THEN [backend EXCEPT !.callConfig = v] ELSE backend
    /\ left' = [left EXCEPT !.edits = @ - 1]
    /\ UNCHANGED <<events, resp, link>>

TogglePrio(i) ==
    /\ left.prio > 0 /\ MayChange(i)
    /\ Change(i, [store[i] EXCEPT !.prio = ~@])
    /\ left' = [left EXCEPT !.prio = @ - 1]
    /\ UNCHANGED <<backend, events, resp, link>>

Dismiss(i) ==
    /\ store[i].display.kind = "rejected" /\ MayChange(i)
    /\ Change(i, [store[i] EXCEPT !.display = NoDisplay])
    /\ UNCHANGED <<backend, events, resp, link, left>>

CallEvent ==
    /\ Grain = "any" \/ Settled
    /\ \/ /\ backend.call.kind # "live" /\ left.calls > 0
          /\ backend' = [backend EXCEPT !.call = Display("live", MaxCalls + 1 - left.calls)]
          /\ left' = [left EXCEPT !.calls = @ - 1]
       \/ /\ backend.call.kind = "live"
          /\ \E k \in {"none", "rejected"} : backend' = [backend EXCEPT !.call.kind = k]
          /\ UNCHANGED left
    /\ events' = Emit([type |-> "call event", call |-> backend'.call], "backend")
    /\ UNCHANGED <<store, up, resp, link>>

SessionEvent ==
    /\ left.session > 0 /\ (Grain = "any" \/ Settled)
    /\ backend' = [backend EXCEPT !.session = @ + 1]
    /\ left' = [left EXCEPT !.session = @ - 1]
    /\ events' = Emit([type |-> "session", session |-> backend'.session], "backend")
    /\ UNCHANGED <<store, up, resp, link>>

(* ----------------------------- connections ----------------------------- *)
\* What waited for the connection is sent first, then the page subscribes
\* and asks for the snapshot.
Open(p) ==
    /\ link[p] = "off" /\ (Grain = "any" \/ Settled)
    /\ link' = [link EXCEPT ![p] = "new"]
    /\ up' = [up EXCEPT ![p] = Append(@, [type |-> "snapshot"])]
    /\ UNCHANGED <<store, backend, events, resp, left>>

Lose(p) ==
    /\ link[p] # "off" /\ left.drops > 0
    /\ link' = [link EXCEPT ![p] = "off"]
    /\ up' = [up EXCEPT ![p] = << >>]
    /\ events' = [events EXCEPT ![p] = << >>]
    /\ resp' = [resp EXCEPT ![p] = << >>]
    /\ left' = [left EXCEPT !.drops = @ - 1]
    /\ UNCHANGED <<store, backend>>

(* ------------------------------- backend ------------------------------- *)
\* remote_broadcast_store_sync, remote_get_session_state and
\* remote_request_store_sync.
Dispatch(i) ==
    /\ up[i] # << >> /\ Linked(i) # "off"
    /\ LET m == Head(up[i]) IN
       \/ /\ m.type = "snapshot"
          /\ link' = [link EXCEPT ![i] = "subscribed"]
          /\ resp' = [resp EXCEPT ![i] = Append(@, [callConfig |-> backend.callConfig, session |-> backend.session])]
          /\ UNCHANGED events
       \/ /\ m.type = "request"
          /\ events' = [events EXCEPT ![Desk] = Append(@, m)]
          /\ UNCHANGED <<link, resp>>
       \/ /\ m.type \in {"settings", "call"}
          /\ events' = Emit(m, i)
          /\ UNCHANGED <<link, resp>>
    /\ up' = [up EXCEPT ![i] = Tail(@)]
    /\ UNCHANGED <<store, backend, left>>

(* ------------------------------ instances ------------------------------ *)

ApplySync(s, m) ==
    IF m.type = "settings" THEN [s EXCEPT !.settings = m.state]
    ELSE [s EXCEPT !.prio = m.state.prio,
                   !.display = IF m.state.display = EventDriven THEN @ ELSE m.state.display]

Take(i) == events' = [events EXCEPT ![i] = Tail(@)]

\* With the suppression nothing is sent.
ReceiveSync(i) ==
    /\ events[i] # << >> /\ Head(events[i]).type \in {"settings", "call"}
    /\ store' = [store EXCEPT ![i] = ApplySync(@, Head(events[i]))]
    /\ link' = IF Head(events[i]).type = "call" /\ Head(events[i]).full /\ Linked(i) = "hydrated"
               THEN [link EXCEPT ![i] = "synced"] ELSE link
    /\ Take(i)
    /\ UNCHANGED <<backend, up, resp, left>>

\* The listeners of the call events set the display of their instance.
ReceiveCallEvent(i) ==
    /\ events[i] # << >> /\ Head(events[i]).type = "call event"
    /\ LET c == Head(events[i]).call
           d == store[i].display
           shown == IF c.kind = "live" THEN c
                    ELSE IF d # Display("live", c.call) THEN d
                    ELSE IF c.kind = "none" THEN NoDisplay ELSE c
       IN Change(i, [store[i] EXCEPT !.display = shown])
    /\ Take(i)
    /\ UNCHANGED <<backend, resp, link, left>>

ReceiveSession(i) ==
    /\ events[i] # << >> /\ Head(events[i]).type = "session"
    /\ store' = [store EXCEPT ![i].session = Head(events[i]).session]
    /\ Take(i)
    /\ UNCHANGED <<backend, up, resp, link, left>>

\* broadcastAllStoreState: the call store with its display, live or not.
BroadcastAllStoreState ==
    <<[type |-> "settings", from |-> Desk, state |-> store[Desk].settings],
      [type |-> "call", from |-> Desk, full |-> TRUE,
       state |-> [prio |-> store[Desk].prio, display |-> store[Desk].display]]>>

ReceiveRequest ==
    /\ events[Desk] # << >> /\ Head(events[Desk]).type = "request"
    /\ up' = [up EXCEPT ![Desk] = @ \o BroadcastAllStoreState]
    /\ Take(Desk)
    /\ UNCHANGED <<store, backend, resp, link, left>>

\* hydrateFromSnapshot and hydrateStores, once no event is to be sent.
Hydrate(p) ==
    /\ resp[p] # << >> /\ events[p] = << >>
    /\ store' = [store EXCEPT ![p].settings["callConfig"] = Head(resp[p]).callConfig,
                              ![p].session = Head(resp[p]).session]
    /\ up' = [up EXCEPT ![p] = Append(@, [type |-> "request"])]
    /\ resp' = [resp EXCEPT ![p] = << >>]
    /\ link' = [link EXCEPT ![p] = "hydrated"]
    /\ UNCHANGED <<backend, events, left>>

Inputs ==
    \/ CallEvent \/ SessionEvent
    \/ \E i \in Inst : TogglePrio(i) \/ Dismiss(i) \/ \E f \in Fields : EditSetting(i, f)
    \/ \E p \in Pages : Lose(p)

Steps(i) == Dispatch(i) \/ ReceiveSync(i) \/ ReceiveCallEvent(i) \/ ReceiveSession(i)

Next ==
    \/ Inputs \/ ReceiveRequest
    \/ \E p \in Pages : Open(p) \/ Hydrate(p)
    \/ \E i \in Inst : Steps(i)

Spec == Init /\ [][Next]_vars

\* What was sent arrives and is handled, and pages reconnect.
FairSpec ==
    /\ Spec /\ WF_vars(ReceiveRequest)
    /\ \A i \in Inst : WF_vars(Steps(i))
    /\ \A p \in Pages : WF_vars(Open(p)) /\ WF_vars(Hydrate(p))

(* ----------------------------- properties ------------------------------ *)
\* When everything has arrived the pages hold what the desktop holds.
InStep ==
    Quiet => \A p \in Pages : store[p].settings = store[Desk].settings /\ store[p].prio = store[Desk].prio

\* "Echoing a partially-default state back would clobber the desktop's
\* stores": the desktop never gets a default for what is configured.
DeskKeepsItsSettings == \A f \in Fields : store[Desk].settings[f] # Default

\* Live syncs leave "event-driven call state alone": every instance shows
\* the call the backend is in.
DisplaysFollowCalls ==
    Quiet /\ backend.call.kind = "live" => \A i \in Inst : store[i].display = backend.call

\* An instance mirrors the session of the backend.
SessionMirrored == Quiet => \A i \in Inst : store[i].session = backend.session

\* A page that is connected gets the desktop's stores, call state included.
PagesBootstrap == \A p \in Pages : link[p] = "new" ~> link[p] \in {"off", "synced"}
=============================================================================
