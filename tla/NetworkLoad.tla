---------------------------- MODULE NetworkLoad ----------------------------
(***************************************************************************)
(* Loading of a coverage dataset, Network::load_from_dir of               *)
(* vacs-vatsim/src/coverage: one directory per flight information region   *)
(* (FIR), read in the order the file system returns them, then checked and *)
(* joined into one network. A value that a check refuses because of its    *)
(* form (an empty label, a negative size) carries the name of the fault.   *)
(***************************************************************************)
EXTENDS Coverage, FiniteSets, SequencesExt

CONSTANTS Datasets      \* each a set of FIR directories

VARIABLES
    dataset,    \* the directories to load
    unread,     \* those not read yet
    raws,       \* the FIRs read, in order
    next,       \* the FIR to build next
    built,      \* what has been built, and the errors
    outcome

vars == <<dataset, unread, raws, next, built, outcome>>

-----------------------------------------------------------------------------
(* Profiles. A profile is a tree of tabs, containers, buttons, dividers, pages *)
(* and keys; a node records the kinds of its ancestors.                    *)

ContainerFaults == {"height", "width", "padding", "padding_left", "padding_right",
                    "padding_top", "padding_bottom", "gap", "no children"}
ButtonFaults    == {"no label", "long label", "size", "station and page"}
DividerFaults   == {"thickness", "color"}
PageFaults      == {"rows"}
KeyFaults       == {"long label", "station and page"}
TabFaults       == {"no label", "long label"}

\* a page that shows clients instead of keys is not checked
NodeFaults(kind) ==
    CASE kind = "container" -> ContainerFaults
      [] kind = "button"    -> ButtonFaults
      [] kind = "divider"   -> DividerFaults
      [] kind = "page"      -> PageFaults
      [] kind = "key"       -> KeyFaults
      [] kind = "tab"       -> TabFaults

ValidProfile(p) ==
    /\ p.fault \notin {"id", "geo profile with a view", "no tabs"}
    /\ \A n \in p.nodes : n.fault \notin NodeFaults(n.kind)

\* collect_station_ids
RelevantStations(p) == {n.station : n \in p.nodes} \ {None}

\* the stations validate_references looks at: it does not enter the page of a key
ReferencedStations(p) ==
    {n.station : n \in {m \in p.nodes : ~Contains(m.inside, "key")}} \ {None}

-----------------------------------------------------------------------------
(* FIR directories *)

\* read_profiles: a lone profile file that cannot be parsed is passed over, a
\* file of the profiles directory is not; the last file with an id wins
ProfileFiles(dir, order) == SelectSeq(dir.profile, LAMBDA p : p.parses) \o order

ReadsProfiles(dir, order) ==
    /\ \A i \in DOMAIN order : order[i].parses
    /\ \A i \in DOMAIN ProfileFiles(dir, order) : ValidProfile(ProfileFiles(dir, order)[i])

LastWithId(files, id) == files[SelectLastInSeq(files, LAMBDA p : p.id = id)]

FirRaw(dir, order) ==
    LET files == ProfileFiles(dir, order)
    IN  [id |-> dir.id, stations |-> dir.stations, positions |-> dir.positions,
         profiles |-> [id \in {p.id : p \in ToSet(files)} |-> LastWithId(files, id)]]

ValidFir(fir) == fir.id # "" /\ fir.stations # <<>> /\ fir.positions # <<>>

-----------------------------------------------------------------------------
(* Positions and stations *)

PositionFaults == {"id", "prefixes", "frequency", "facility", "facility of id", "profile_id"}

ValidPosition(p) ==
    /\ p.fault \notin PositionFaults
    /\ \A i, j \in DOMAIN p.sources : i # j => p.sources[i] # p.sources[j]

Declared(field(_)) == FlattenSeq([i \in DOMAIN raws |-> field(raws[i])])

\* all_stations: the last declaration of an id wins
AllStations ==
    LET all == Declared(LAMBDA fir : fir.stations)
    IN  [id \in {s.id : s \in ToSet(all)} |-> all[SelectLastInSeq(all, LAMBDA s : s.id = id)]]

AllPositionIds == {p.id : p \in ToSet(Declared(LAMBDA fir : fir.positions))}
AllProfileIds  == UNION {DOMAIN raws[i].profiles : i \in DOMAIN raws}

\* the walk of resolve_controlled_by from a station to its root: it stops at a
\* station seen before and at a parent that does not exist
RECURSIVE ParentChain(_, _)
ParentChain(s, visited) ==
    IF s.id \in visited THEN <<None>>
    ELSE IF s.parent = None THEN <<s>>
    ELSE IF s.parent \notin DOMAIN AllStations THEN <<None>>
    ELSE <<s>> \o ParentChain(AllStations[s.parent], visited \union {s.id})

\* each station adds the positions that no station before it named; the loop
\* also drops a position named twice by one station
ControlledBy(chain) ==
    FoldLeft(LAMBDA found, p : IF Contains(found, p) THEN found ELSE Append(found, p),
             <<>>, FlattenSeq([i \in DOMAIN chain |-> chain[i].controlled_by]))

-----------------------------------------------------------------------------
(* Building *)

Error(b, e) == [b EXCEPT !.errors = @ \union {e}]

Put(f, k, v) == [x \in DOMAIN f \union {k} |-> IF x = k THEN v ELSE f[x]]

AddPosition(b, p) ==
    IF p.id \in DOMAIN b.positions THEN Error(b, "duplicate position")
    ELSE IF ~ValidPosition(p) THEN Error(b, "invalid position")
    ELSE [b EXCEPT !.positions = Put(@, p.id, [profile |-> p.profile, sources |-> p.sources,
                                               controlled_stations |-> {}])]

\* mutant: the first declaration is replaced
ReplaceStation(b, s) ==
    LET chain == ParentChain(s, {})
    IN  IF Contains(chain, None) THEN Error(b, "invalid station")
        ELSE IF ControlledBy(chain) = <<>> THEN Error(b, "no coverage")
        ELSE [b EXCEPT !.stations = Put(@, s.id, ControlledBy(chain))]

AddStation(b, s) ==
    LET chain == ParentChain(s, {})
    IN  IF s.id \in DOMAIN b.stations THEN Error(b, "duplicate station")
        ELSE IF s.id = "" \/ Contains(chain, None) THEN Error(b, "invalid station")
        ELSE IF ControlledBy(chain) = <<>> THEN Error(b, "no coverage")
        ELSE [b EXCEPT !.stations = Put(@, s.id, ControlledBy(chain))]

AddProfile(b, p) ==
    IF p.id \in DOMAIN b.profiles THEN Error(b, "duplicate profile")
    ELSE [b EXCEPT !.profiles = Put(@, p.id, RelevantStations(p))]

ReferencesHold(fir) ==
    /\ \A s \in ToSet(fir.stations) : ToSet(s.controlled_by) \subseteq AllPositionIds
    /\ \A p \in ToSet(fir.positions) : /\ p.profile \in AllProfileIds \union {None}
                                       /\ ToSet(p.sources) \subseteq DOMAIN AllStations
    /\ \A id \in DOMAIN fir.profiles : ReferencedStations(fir.profiles[id]) \subseteq DOMAIN AllStations

\* one turn of the loop over the FIRs
WithFir(b, fir) ==
    LET checked == IF ReferencesHold(fir) THEN b ELSE Error(b, "missing reference")
        withPositions == FoldLeft(AddPosition, [checked EXCEPT !.firs = @ \union {fir.id}], fir.positions)
        withStations  == FoldLeft(AddStation, withPositions, fir.stations)
        profiles      == SetToSeq({fir.profiles[id] : id \in DOMAIN fir.profiles})
    IN  IF fir.id \in b.firs THEN Error(checked, "duplicate FIR")
        ELSE IF ~ValidFir(fir) THEN Error(checked, "invalid FIR")
        ELSE FoldLeft(AddProfile, withStations, profiles)

\* controlled_stations is filled from controlled_by
Link(b) ==
    LET named == UNION {ToSet(b.stations[s]) : s \in DOMAIN b.stations}
        linked == [b EXCEPT !.positions =
                     [p \in DOMAIN @ |-> [@[p] EXCEPT !.controlled_stations =
                        {s \in DOMAIN b.stations : Contains(b.stations[s], p)}]]]
    IN  IF named \subseteq DOMAIN b.positions THEN linked ELSE Error(linked, "missing position")

-----------------------------------------------------------------------------
(* The load *)

Empty == [firs |-> {}, positions |-> <<>>, stations |-> <<>>, profiles |-> <<>>, errors |-> {}]

Init ==
    /\ dataset \in Datasets
    /\ unread = dataset
    /\ raws = <<>>
    /\ next = 1
    /\ built = Empty
    /\ outcome = "loading"

\* one entry of the directory, and the files of its profiles in some order
ReadFir(dir) ==
    /\ dir \in unread
    /\ unread' = unread \ {dir}
    /\ \E order \in SetToSeqs(dir.profiles) :
          IF dir.readable /\ ReadsProfiles(dir, order)
          THEN raws' = Append(raws, FirRaw(dir, order)) /\ built' = built
          ELSE raws' = raws /\ built' = Error(built, "FIR not loaded")
    /\ UNCHANGED <<dataset, next, outcome>>

BuildFir ==
    /\ unread = {} /\ next \in DOMAIN raws
    /\ built' = WithFir(built, raws[next])
    /\ next' = next + 1
    /\ UNCHANGED <<dataset, unread, raws, outcome>>

Finish ==
    /\ unread = {} /\ next > Len(raws) /\ outcome = "loading"
    /\ built' = Link(built)
    /\ outcome' = IF Link(built).errors = {} THEN "loaded" ELSE "failed"
    /\ UNCHANGED <<dataset, unread, raws, next>>

Next == (\E dir \in unread : ReadFir(dir)) \/ BuildFir \/ Finish

Spec == Init /\ [][Next]_vars

-----------------------------------------------------------------------------
(* What a dataset means, stated without the loader's order of work *)

Loaded == outcome = "loaded"

\* every declaration of the dataset with the FIR it stands in
StationDecls  == UNION {{<<d, i>> : i \in DOMAIN d.stations} : d \in dataset}
PositionDecls == UNION {{<<d, i>> : i \in DOMAIN d.positions} : d \in dataset}
StationOf(x)  == x[1].stations[x[2]]
PositionOf(x) == x[1].positions[x[2]]
StationIds    == {StationOf(x).id : x \in StationDecls}
PositionIds   == {PositionOf(x).id : x \in PositionDecls}

ProfileFilesOf(d) == {p \in ToSet(d.profile) : p.parses} \union d.profiles

Parent(id) == (CHOOSE s \in {StationOf(x) : x \in StationDecls} : s.id = id).parent
Positions(id) == (CHOOSE s \in {StationOf(x) : x \in StationDecls} : s.id = id).controlled_by

\* the station k generations above, None above the root
Ancestor(id) ==
    LET up[k \in 0 .. Cardinality(StationIds)] ==
            IF k = 0 THEN id
            ELSE IF up[k - 1] \notin StationIds THEN None ELSE Parent(up[k - 1])
    IN  up

\* the places at which the chain above a station names a position
Places(id, p) ==
    UNION {{<<k, i>> : i \in {j \in DOMAIN Positions(Ancestor(id)[k]) : Positions(Ancestor(id)[k])[j] = p}} :
              k \in {g \in DOMAIN Ancestor(id) : Ancestor(id)[g] \in StationIds}}

Before(x, y) == x[1] < y[1] \/ (x[1] = y[1] /\ x[2] < y[2])

\* a dataset whose ids are unique, whose references hold and in which every
\* station is covered through its chain of parents
Acceptable ==
    /\ \A d \in dataset : /\ d.readable /\ d.id # "" /\ d.stations # <<>> /\ d.positions # <<>>
                          /\ \A p \in d.profiles : p.parses
                          /\ \A p \in ProfileFilesOf(d) : ValidProfile(p)
    /\ \A d, e \in dataset : d # e => /\ d.id # e.id
                                      /\ \A p \in ProfileFilesOf(d), q \in ProfileFilesOf(e) : p.id # q.id
    /\ \A x, y \in StationDecls : x # y => StationOf(x).id # StationOf(y).id
    /\ \A x, y \in PositionDecls : x # y => PositionOf(x).id # PositionOf(y).id
    /\ \A x \in PositionDecls :
          /\ ValidPosition(PositionOf(x))
          /\ ToSet(PositionOf(x).sources) \subseteq StationIds
          /\ PositionOf(x).profile = None
                \/ \E d \in dataset : \E p \in ProfileFilesOf(d) : p.id = PositionOf(x).profile
    /\ \A x \in StationDecls : ToSet(StationOf(x).controlled_by) \subseteq PositionIds
    /\ \A id \in StationIds :
          /\ id # "" /\ \A k \in DOMAIN Ancestor(id) : Ancestor(id)[k] \in StationIds \union {None}
          /\ Ancestor(id)[Cardinality(StationIds)] = None
          /\ \E p \in PositionIds : Places(id, p) # {}

-----------------------------------------------------------------------------
(* Properties *)

TypeOK ==
    /\ dataset \in Datasets /\ unread \subseteq dataset
    /\ Len(raws) + Cardinality(unread) <= Cardinality(dataset)
    /\ next \in 1 .. Len(raws) + 1
    /\ \A s \in DOMAIN built.stations : s \in StationIds /\ built.stations[s] # <<>>
    /\ DOMAIN built.positions \subseteq PositionIds
    /\ outcome \in {"loading", "loaded", "failed"}

\* load_from_dir accepts exactly the datasets without a contradiction, whatever
\* order the directories come in. The one thing it lets pass, a station that only
\* the page of a key names, is left out here and stated in ProfilesNameStations.
AcceptsExactlySoundDatasets ==
    outcome # "loading" =>
        (Loaded <=> /\ Acceptable
                    /\ \A i \in DOMAIN raws : \A id \in DOMAIN raws[i].profiles :
                          ReferencedStations(raws[i].profiles[id]) \subseteq StationIds)

\* What coverage is computed from: a loaded network is well-formed, and a station's
\* positions come in the order its chain of parents names them first.
CoverageFollowsParents ==
    Loaded =>
        /\ WellFormed(built)
        /\ DOMAIN built.stations = StationIds
        /\ \A s \in StationIds :
              LET order == built.stations[s]
                  first(p) == CHOOSE x \in Places(s, p) : \A y \in Places(s, p) : x = y \/ Before(x, y)
              IN  /\ ToSet(order) = {p \in PositionIds : Places(s, p) # {}}
                  /\ \A i, j \in DOMAIN order : i < j => Before(first(order[i]), first(order[j]))

\* A profile that names a station which does not exist is refused, as
\* load_from_dir_cross_fir_references has it ("verify invalid reference fails").
ProfilesNameStations ==
    Loaded => \A p \in DOMAIN built.profiles : built.profiles[p] \subseteq DOMAIN built.stations

=============================================================================
