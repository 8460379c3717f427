--------------------------- MODULE CoverageProofs ---------------------------
(***************************************************************************)
(* The differences the server works with are exact, for every network: they *)
(* turn the old station map into the new one, and what a client may call   *)
(* before into what it may call after.                                     *)
(***************************************************************************)
EXTENDS Coverage, TLAPS

\* A position that does not control a station in either set has no say in who
\* controls it: stations outside the candidates of coverage_diff keep their position.
LEMMA OthersKeepTheirPosition ==
    ASSUME NEW net, WellFormed(net), NEW from, NEW to,
           NEW s \in DOMAIN net.stations, s \notin CandidateStations(net, from, to)
    PROVE  ControllingPosition(net, s, from) = ControllingPosition(net, s, to)
<1> DEFINE order == net.stations[s]
           live(S) == {i \in 1 .. Len(order) : order[i] \in S /\ order[i] \in DOMAIN net.positions}
<1>1. \A i \in 1 .. Len(order) : order[i] \in DOMAIN net.positions =>
          s \in net.positions[order[i]].controlled_stations
  BY DEF WellFormed
<1>2. \A i \in 1 .. Len(order) : order[i] \in DOMAIN net.positions =>
          (order[i] \in from <=> order[i] \in to)
  BY <1>1 DEF CandidateStations
<1>3. live(from) = live(to)
  BY <1>2
<1> DEFINE first(L) == IF L = {} THEN None ELSE order[CHOOSE i \in L : \A j \in L : i <= j]
<1>4. ControllingPosition(net, s, from) = first(live(from))
  BY DEF ControllingPosition
<1>5. ControllingPosition(net, s, to) = first(live(to))
  BY DEF ControllingPosition
<1> HIDE DEF live, first
<1> QED
  BY <1>3, <1>4, <1>5

\* A change of coverage_diff names its station, and carries the position that
\* controls it afterwards, or none.
LEMMA ChangeNamesStation ==
    ASSUME NEW s, NEW before, NEW after
    PROVE  LET c == StationChange(s, before, after)
           IN  /\ c = [station |-> s, from |-> c.from, to |-> c.to]
               /\ c.station = s
               /\ c.to = IF before = None THEN after ELSE IF after = None THEN None ELSE after
BY DEF StationChange, Online, Offline, Handoff

\* Every change of coverage_diff is about a station whose position differs, and
\* there is one for every such station.
LEMMA DiffHasEveryChange ==
    ASSUME NEW net, WellFormed(net), NEW from, NEW to
    PROVE  LET B(s) == ControllingPosition(net, s, from)
               A(s) == ControllingPosition(net, s, to)
           IN  CoverageDiff(net, from, to) =
                   {StationChange(s, B(s), A(s)) : s \in {t \in DOMAIN net.stations : B(t) # A(t)}}
<1>1. {t \in CandidateStations(net, from, to) :
          ControllingPosition(net, t, from) # ControllingPosition(net, t, to)} =
      {t \in DOMAIN net.stations :
          ControllingPosition(net, t, from) # ControllingPosition(net, t, to)}
  BY OthersKeepTheirPosition DEF CandidateStations
<1> QED
  BY <1>1 DEF CoverageDiff

\* update_online_stations applied to what coverage_diff returns: the incrementally
\* kept map is the one the coverage rules give for the positions online now.
THEOREM DifferencesAreExact ==
    ASSUME NEW net, WellFormed(net), NEW from, NEW to
    PROVE  Applied(CoverageOf(net, from), CoverageDiff(net, from, to)) = CoverageOf(net, to)
<1> DEFINE B(s) == ControllingPosition(net, s, from)
           A(s) == ControllingPosition(net, s, to)
           D == CoverageDiff(net, from, to)
           changed == {t \in DOMAIN net.stations : B(t) # A(t)}
           gone == {c.station : c \in {d \in D : d.to = None}}
           set  == {c.station : c \in {d \in D : d.to # None}}
<1>1. D = {StationChange(s, B(s), A(s)) : s \in changed}
  BY DiffHasEveryChange
<1>2. \A s : StationChange(s, B(s), A(s)).station = s
  BY ChangeNamesStation
<1>3. \A s \in changed : StationChange(s, B(s), A(s)).to = A(s)
  BY ChangeNamesStation
<1> HIDE DEF B, A
<1>4. gone = {s \in changed : A(s) = None}
  BY <1>1, <1>2, <1>3
<1>5. set = {s \in changed : A(s) # None}
  BY <1>1, <1>2, <1>3
<1>6. \A s \in set : (CHOOSE c \in D : c.station = s /\ c.to # None).to = A(s)
  <2> TAKE s \in set
  <2>1. \E c \in D : c.station = s /\ c.to # None
    OBVIOUS
  <2>2. \A c \in D : c.station = s => c.to = A(s)
    BY <1>1, <1>2, <1>3
  <2> QED  BY <2>1, <2>2
<1>7. CoverageOf(net, from) = [s \in {t \in DOMAIN net.stations : B(t) # None} |-> B(s)]
  BY DEF CoverageOf, CoveredStations, B
<1>8. CoverageOf(net, to) = [s \in {t \in DOMAIN net.stations : A(t) # None} |-> A(s)]
  BY DEF CoverageOf, CoveredStations, A
<1> HIDE DEF D
<1>9. Applied(CoverageOf(net, from), D) =
          [s \in (DOMAIN CoverageOf(net, from) \ gone) \union set |->
              IF s \in set THEN (CHOOSE c \in D : c.station = s /\ c.to # None).to
                           ELSE CoverageOf(net, from)[s]]
  BY DEF Applied
<1>10. (DOMAIN CoverageOf(net, from) \ gone) \union set = {t \in DOMAIN net.stations : A(t) # None}
  BY <1>4, <1>5, <1>7
<1>11. \A s \in {t \in DOMAIN net.stations : A(t) # None} \ set :
           CoverageOf(net, from)[s] = A(s)
  BY <1>5, <1>7
<1> QED
  BY <1>6, <1>8, <1>9, <1>10, <1>11 DEF D

\* A set of changes that is sound (whatever it sets is right, whatever it removes
\* is not to be there) and complete (whatever differs is set or removed) takes
\* one map of stations to another.
LEMMA SoundAndComplete ==
    ASSUME NEW old, NEW new, NEW changes,
           old = [s \in DOMAIN old |-> old[s]],
           new = [s \in DOMAIN new |-> new[s]],
           \A c \in changes : c.to # None => c.station \in DOMAIN new /\ c.to = new[c.station],
           \A c \in changes : c.to = None => c.station \notin DOMAIN new,
           \A s \in DOMAIN new : s \notin DOMAIN old \/ old[s] # new[s] =>
               \E c \in changes : c.station = s /\ c.to # None,
           \A s \in DOMAIN old \ DOMAIN new : \E c \in changes : c.station = s /\ c.to = None
    PROVE  Applied(old, changes) = new
<1> DEFINE gone == {c.station : c \in {d \in changes : d.to = None}}
           set  == {c.station : c \in {d \in changes : d.to # None}}
<1>1. Applied(old, changes) =
          [s \in (DOMAIN old \ gone) \union set |->
              IF s \in set THEN (CHOOSE c \in changes : c.station = s /\ c.to # None).to ELSE old[s]]
  BY DEF Applied
<1>2. \A s \in set : (CHOOSE c \in changes : c.station = s /\ c.to # None).to = new[s]
  <2> TAKE s \in set
  <2>1. \E c \in changes : c.station = s /\ c.to # None
    OBVIOUS
  <2>2. \A c \in changes : c.station = s /\ c.to # None => c.to = new[s]
    OBVIOUS
  <2> QED  BY <2>1, <2>2
<1>3. \A s \in set : s \in DOMAIN new
  OBVIOUS
<1>4. \A s \in gone : s \notin DOMAIN new
  OBVIOUS
<1>5. \A s \in DOMAIN new \ set : s \in DOMAIN old /\ old[s] = new[s]
  OBVIOUS
<1>6. \A s \in DOMAIN old \ DOMAIN new : s \in gone
  OBVIOUS
<1> DEFINE value(s) == IF s \in set THEN (CHOOSE c \in changes : c.station = s /\ c.to # None).to
                       ELSE old[s]
<1> HIDE DEF set, gone
<1>7. (DOMAIN old \ gone) \union set = DOMAIN new
  BY <1>3, <1>4, <1>5, <1>6
<1>8. \A s \in DOMAIN new : value(s) = new[s]
  BY <1>2, <1>5
<1>9. Applied(old, changes) = [s \in DOMAIN new |-> value(s)]
  BY <1>1, <1>7
<1> HIDE DEF value
<1> QED
  BY <1>8, <1>9

\* What sync_vatsim_state tells the clients is exact: the visible part of the
\* coverage changes, together with the stations that only change between vacs and
\* VATSIM-only coverage, takes the stations that could be called before to those
\* that can be called after.
THEOREM VisibleChangesAreExact ==
    ASSUME NEW net, WellFormed(net), NEW from, NEW to, NEW before, NEW after,
           None \notin before, None \notin after
    PROVE  LET diff    == CoverageDiff(net, from, to)
               new     == CoverageOf(net, to)
               visible == ClientVisibleChanges(diff, before, after) \union
                          CallabilityChanges(new, {d.station : d \in diff}, before, after)
           IN  Applied(Callable(CoverageOf(net, from), before), visible) = Callable(new, after)
<1> DEFINE B(s) == ControllingPosition(net, s, from)
           A(s) == ControllingPosition(net, s, to)
           diff == CoverageDiff(net, from, to)
           changed == {t \in DOMAIN net.stations : B(t) # A(t)}
           new == CoverageOf(net, to)
           shown == Callable(CoverageOf(net, from), before)
           wanted == Callable(new, after)
           seen == ClientVisibleChanges(diff, before, after)
           moved == CallabilityChanges(new, {d.station : d \in diff}, before, after)
<1>1. diff = {StationChange(s, B(s), A(s)) : s \in changed}
  BY DiffHasEveryChange
<1>2. {d.station : d \in diff} = changed
  BY <1>1, ChangeNamesStation
<1>3. CoverageOf(net, from) = [s \in {t \in DOMAIN net.stations : B(t) # None} |-> B(s)]
  BY DEF CoverageOf, CoveredStations
<1>4. new = [s \in {t \in DOMAIN net.stations : A(t) # None} |-> A(s)]
  BY DEF CoverageOf, CoveredStations
<1> HIDE DEF B, A, diff, new
<1>5. shown = [s \in {t \in DOMAIN net.stations : B(t) \in before} |-> B(s)]
  BY <1>3 DEF Callable
<1>6. wanted = [s \in {t \in DOMAIN net.stations : A(t) \in after} |-> A(s)]
  BY <1>4 DEF Callable
<1>7. seen = UNION {VisibleChange(StationChange(s, B(s), A(s)), before, after) : s \in changed}
  BY <1>1 DEF ClientVisibleChanges
<1>8. \A s \in changed : VisibleChange(StationChange(s, B(s), A(s)), before, after) =
          IF A(s) \in after
          THEN {IF B(s) \in before THEN Handoff(s, B(s), A(s)) ELSE Online(s, A(s))}
          ELSE IF A(s) = None \/ B(s) \in before THEN {Offline(s)} ELSE {}
  BY DEF VisibleChange, StationChange, Online, Offline, Handoff
<1>8a. DOMAIN new \ changed = {t \in DOMAIN net.stations \ changed : A(t) # None}
       /\ \A t \in DOMAIN new : new[t] = A(t)
  BY <1>4
<1>8b. {t \in DOMAIN new \ changed : new[t] \in before /\ new[t] \notin after} =
       {t \in DOMAIN net.stations \ changed : A(t) \in before /\ A(t) \notin after}
  BY <1>8a
<1>8c. {t \in DOMAIN new \ changed : new[t] \notin before /\ new[t] \in after} =
       {t \in DOMAIN net.stations \ changed : A(t) # None /\ A(t) \notin before /\ A(t) \in after}
  BY <1>8a
<1>8d. {Online(s, new[s]) : s \in {t \in DOMAIN new \ changed : new[t] \notin before /\ new[t] \in after}} =
       {Online(s, A(s)) : s \in {t \in DOMAIN net.stations \ changed :
                                      A(t) # None /\ A(t) \notin before /\ A(t) \in after}}
  BY <1>8a, <1>8c
<1>9. moved = {Offline(s) : s \in {t \in DOMAIN net.stations \ changed :
                                      A(t) \in before /\ A(t) \notin after}}
              \union {Online(s, A(s)) : s \in {t \in DOMAIN net.stations \ changed :
                                      A(t) # None /\ A(t) \notin before /\ A(t) \in after}}
  BY <1>2, <1>8b, <1>8d DEF CallabilityChanges
<1> DEFINE visible == seen \union moved
<1>10. \A c \in visible : c.to # None => c.station \in DOMAIN wanted /\ c.to = wanted[c.station]
  <2>1. \A c \in seen : c.to # None => c.station \in DOMAIN wanted /\ c.to = wanted[c.station]
    BY <1>6, <1>7, <1>8 DEF Online, Offline, Handoff
  <2>2. \A c \in moved : c.to # None => c.station \in DOMAIN wanted /\ c.to = wanted[c.station]
    BY <1>6, <1>9 DEF Online, Offline
  <2> QED  BY <2>1, <2>2
<1>11. \A c \in visible : c.to = None => c.station \notin DOMAIN wanted
  <2>1. \A c \in seen : c.to = None => c.station \notin DOMAIN wanted
    BY <1>6, <1>7, <1>8 DEF Online, Offline, Handoff
  <2>2. \A c \in moved : c.to = None => c.station \notin DOMAIN wanted
    BY <1>6, <1>9 DEF Online, Offline
  <2> QED  BY <2>1, <2>2
<1>12. \A s \in DOMAIN wanted : s \notin DOMAIN shown \/ shown[s] # wanted[s] =>
           \E c \in visible : c.station = s /\ c.to # None
  <2> TAKE s \in DOMAIN wanted
  <2> HAVE s \notin DOMAIN shown \/ shown[s] # wanted[s]
  <2>1. s \in DOMAIN net.stations /\ A(s) \in after
    BY <1>6
  <2>2. CASE s \in changed
    <3> DEFINE c == IF B(s) \in before THEN Handoff(s, B(s), A(s)) ELSE Online(s, A(s))
    <3>1. c \in seen
      BY <1>7, <1>8, <2>1, <2>2
    <3>2. c.station = s /\ c.to # None
      BY <2>1 DEF Handoff, Online
    <3> QED  BY <3>1, <3>2
  <2>3. CASE s \notin changed
    <3>1. A(s) \notin before
      BY <1>5, <1>6, <2>1, <2>3
    <3>2. Online(s, A(s)) \in moved
      BY <1>9, <2>1, <2>3, <3>1
    <3>3. Online(s, A(s)).station = s /\ Online(s, A(s)).to # None
      BY <2>1 DEF Online
    <3> QED  BY <3>2, <3>3
  <2> QED  BY <2>2, <2>3
<1>13. \A s \in DOMAIN shown \ DOMAIN wanted : \E c \in visible : c.station = s /\ c.to = None
  <2> TAKE s \in DOMAIN shown \ DOMAIN wanted
  <2>1. s \in DOMAIN net.stations /\ B(s) \in before /\ A(s) \notin after
    BY <1>5, <1>6
  <2>2. Offline(s) \in seen \/ Offline(s) \in moved
    BY <1>7, <1>8, <1>9, <2>1
  <2>3. Offline(s).station = s /\ Offline(s).to = None
    BY DEF Offline
  <2> QED  BY <2>2, <2>3
<1>14. shown = [s \in DOMAIN shown |-> shown[s]] /\ wanted = [s \in DOMAIN wanted |-> wanted[s]]
  BY <1>5, <1>6
<1> HIDE DEF shown, wanted, seen, moved, visible
<1>15. Applied(shown, visible) = wanted
  BY <1>10, <1>11, <1>12, <1>13, <1>14, SoundAndComplete
<1> QED
  BY <1>15 DEF shown, wanted, seen, moved, visible, diff, new

=============================================================================
