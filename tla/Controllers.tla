---------------------------- MODULE Controllers ----------------------------
(***************************************************************************)
(* Which of a member's VATSIM connections counts: ControllerInfo::index_by_cid *)
(* of vacs-vatsim/src/lib.rs over the entries of the data feed               *)
(* (data_feed/vatsim.rs), and the first valid line of the slurper's answer at   *)
(* login (slurper.rs). An entry is a record of the member, the suffix and the    *)
(* stem of the callsign, and the visibility range.                          *)
(***************************************************************************)
EXTENDS Integers, Sequences, FiniteSets, SequencesExt, FiniteSetsExt

CONSTANTS None, Entries, MaxEntries, MaxRange

VARIABLES feed, read, byCid
vars == <<feed, read, byCid>>

\* FacilityType: the order of the declaration, the spellings of a suffix in any case
Facilities == <<"UNKNOWN", "FMP", "RDO", "RMP", "DEL", "GND", "TWR", "APP", "DEP", "CTR", "FSS">>

Spellings == [FMP |-> {"FMP", "TMU"}, RDO |-> {"RDO", "RADIO"}, RMP |-> {"RMP", "RAMP"}, DEL |-> {"DEL", "DELIVERY"},
              GND |-> {"GND", "GROUND"}, TWR |-> {"TWR", "TOWER"}, APP |-> {"APP", "APPROACH"},
              DEP |-> {"DEP", "DEPARTURE"}, CTR |-> {"CTR", "CENTER", "ENROUTE"}, FSS |-> {"FSS"}]

FacilityType(suffix) ==
    LET of == {f \in DOMAIN Spellings : suffix \in Spellings[f]}
    IN  IF of = {} THEN "UNKNOWN" ELSE CHOOSE f \in of : TRUE

Order(f) == CHOOSE i \in DOMAIN Facilities : Facilities[i] = f

\* lenient_visual_range: what is no unsigned number of 32 bits counts as absent
LenientVisualRange(range) == IF range # None /\ range \in 0 .. MaxRange THEN range ELSE None

ControllerInfo(e) ==
    [cid |-> e.cid, stem |-> e.stem, suffix |-> e.suffix,
     facility |-> FacilityType(e.suffix), range |-> LenientVisualRange(e.range)]

\* Traffic flow and radio count as little as an observer, whatever their order.
ClassByRangeOnly(f) == 0

\* rank, compared place by place. Stems are numbers in the order of the callsigns.
Class(f) == CASE f = "UNKNOWN" -> 0 [] f \in {"FMP", "RDO"} -> 1 [] OTHER -> 2
Rank(c) ==
    <<Class(c.facility), CASE c.range = 0 -> 0 [] c.range = None -> 1 [] OTHER -> 2, Order(c.facility), c.stem>>

Above(r, s) == \E i \in DOMAIN r : r[i] > s[i] /\ \A j \in 1 .. i - 1 : r[j] = s[j]

\* One round of the loop of index_by_cid. Supervisors are dropped.
Better(c, index) ==
    c.suffix # "SUP" /\ (c.cid \in DOMAIN index => Above(Rank(c), Rank(index[c.cid])))

With(c, index) == [x \in DOMAIN index \union {c.cid} |-> IF x = c.cid THEN c ELSE index[x]]

TypeOK ==
    /\ read \in 0 .. Len(feed)
    /\ \A x \in DOMAIN byCid : byCid[x].cid = x /\ byCid[x].range \in (0 .. MaxRange) \union {None}

Init == /\ feed \in BoundedSeq(Entries, MaxEntries)
        /\ read = 0
        /\ byCid = <<>>

IndexNext ==
    /\ read < Len(feed)
    /\ LET c == ControllerInfo(feed[read + 1])
       IN  byCid' = IF Better(c, byCid) THEN With(c, byCid) ELSE byCid
    /\ read' = read + 1
    /\ UNCHANGED feed

Done == read = Len(feed) /\ UNCHANGED vars
Next == IndexNext \/ Done
Spec == Init /\ [][Next]_vars

\* extract_controller_info: a line of the slurper that is an ATC connection with a range
\* and a facility; the range is any signed number.
Extract(e) ==
    IF e.range \in {None, 0} \/ FacilityType(e.suffix) = "UNKNOWN" THEN None
    ELSE [cid |-> e.cid, stem |-> e.stem, suffix |-> e.suffix, facility |-> FacilityType(e.suffix),
          range |-> IF e.range >= 0 THEN e.range ELSE None]

\* get_controller_info: the first line that gives something
SlurperInfo(lines, cid) ==
    LET good == {i \in DOMAIN lines : lines[i].cid = cid /\ Extract(lines[i]) # None}
    IN  IF good = {} THEN None ELSE Extract(lines[Min(good)])

-----------------------------------------------------------------------------
(* Properties. *)

Finished  == read = Len(feed)
Of(x)     == {ControllerInfo(feed[i]) : i \in {j \in DOMAIN feed : feed[j].cid = x /\ feed[j].suffix # "SUP"}}

\* The index has everyone with a connection that is not a supervisor's, and for each the
\* connection above all their others: "the result never depends on the order of entries
\* in the feed" (index_by_cid, used by start_controller_update_task).
IndexIsTheHighest ==
    Finished =>
        /\ DOMAIN byCid = {e.cid : e \in {f \in Range(feed) : f.suffix # "SUP"}}
        /\ \A x \in DOMAIN byCid : byCid[x] \in Of(x) /\ \A c \in Of(x) : ~Above(Rank(c), Rank(byCid[x]))

\* A member whom the slurper lets log in is not dropped by the next update from the feed
\* for lack of a position: with the same connections, the index has them with a known
\* facility as well.
LoginsAreConfirmedByTheFeed ==
    Finished => \A x \in {e.cid : e \in Range(feed)} :
        SlurperInfo(feed, x) # None => x \in DOMAIN byCid /\ byCid[x].facility # "UNKNOWN"

=============================================================================
