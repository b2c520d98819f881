----------------------------- MODULE PaperTable -----------------------------
(***************************************************************************)
(* The Stage6 paper table: from measured points, each bound to a record of *)
(* evidence, to one representative point or one explicit failure per cell, *)
(* and to the four artifacts of the command line.  Two layers select: the  *)
(* frozen build_backend_tables, which takes an arm's points as they come,  *)
(* and the public select_representative_points, which orders them by their *)
(* evidence id.  Model and backend of a cell are one device here; accuracy,*)
(* latency and energy are small integers, and "within one percent" is      *)
(* compared exactly, by cross-multiplication.                              *)
(***************************************************************************)
EXTENDS Integers, Sequences, FiniteSets, SequencesExt

CONSTANTS
  Inputs,      \* inputs to consider: [points : Seq(Point), evidence : [ids -> status], cells : Seq(Cell)]
  Later,       \* those a later run in the same root may be given
  Deltas,      \* the accuracy losses of the frozen tables
  PublicDelta, \* PUBLIC_DELTA_AP70
  MaxRuns,     \* bound: runs of the command line
  MaxCrashes   \* bound: runs that die while they write

ASSUME TableAssumption ==
  /\ PublicDelta \in Deltas /\ Deltas \subseteq Nat \ {0}
  /\ MaxRuns \in Nat /\ MaxCrashes \in Nat

Baseline == "original_default"
\* Mutated form: the manifest is written before what it describes.
ManifestFirst == <<"manifest.json", "paper_table.raw.json", "paper_table.csv", "paper_table.md">>

\* OUTPUT_NAMES, in the order they are written
Names == <<"paper_table.raw.json", "paper_table.csv", "paper_table.md", "manifest.json">>
Absent == [state |-> "absent"]
Torn == [state |-> "torn"]
Whole(body) == [state |-> "whole", body |-> body]

VARIABLES
  input,   \* what this run of the command line was given
  report,  \* its report: <<>> or <<one result per cell>>
  tables,  \* the frozen table of each delta for the same points: <<>> or <<[Deltas -> rows]>>
  root,    \* the output root: [names -> file]
  step,    \* "idle", "writing", "refused"
  next,    \* index in Names of the artifact to be written
  runs, crashes

tableVars == <<input, report, tables, root, step, next, runs, crashes>>

----------------------------------------------------------------------------
(* The frozen helpers *)

Trusted(p) == p.gold /\ p.validated /\ p.verified

Cheaper(p, q) == p.energy < q.energy \/ (p.energy = q.energy /\ p.latency < q.latency)

\* The first of the points no other one is cheaper than.
Cheapest(s) ==
  s[CHOOSE i \in DOMAIN s :
      /\ \A j \in DOMAIN s : ~Cheaper(s[j], s[i])
      /\ \A j \in 1..(i - 1) : Cheaper(s[i], s[j])]

Close(s) == SelectSeq(s, LAMBDA p : \A j \in DOMAIN s : p.latency * 100 <= s[j].latency * 101)

Best(s) == IF s = <<>> THEN <<>> ELSE <<Cheapest(Close(s))>>

\* Mutated form: the fastest is looked for first, its accuracy afterwards.
FilterLast(points, floor) ==
  SelectSeq(Best(SelectSeq(points, Trusted)), LAMBDA p : p.ap70 >= floor)

Select(points, floor) == Best(SelectSeq(points, LAMBDA p : Trusted(p) /\ p.ap70 >= floor))
FastestTrusted(points) == Best(SelectSeq(points, Trusted))

Representative(points, floor) ==
  IF Select(points, floor) # <<>> THEN Select(points, floor) ELSE FastestTrusted(points)

----------------------------------------------------------------------------
(* build_backend_tables *)

ArmPoints(points, device, method) ==
  SelectSeq(points, LAMBDA p : p.device = device /\ p.method = method)

Row(method, points, status, floor) ==
  [method |-> method,
   status |-> IF Select(points, floor) # <<>> THEN "selected"
              ELSE IF status = "complete_failure" THEN "feasibility_failure" ELSE "no_feasible_point",
   point  |-> Representative(points, floor)]

BaselineRow(base) == [method |-> Baseline, status |-> "selected", point |-> <<base>>]

FasterRow(r, s) ==
  \/ r.point[1].latency < s.point[1].latency
  \/ r.point[1].latency = s.point[1].latency /\ r.point[1].energy < s.point[1].energy

\* latency_rank of the selected rows; sorted is stable, so equal rows keep their order.
LatencyRank(rows, i) ==
  1 + Cardinality({j \in DOMAIN rows :
        /\ rows[j].status = "selected"
        /\ FasterRow(rows[j], rows[i]) \/ (j < i /\ ~FasterRow(rows[i], rows[j]))})

\* The arms are the cells of the baseline's device, each with the status its cell claims.
BackendTable(in, base, delta) ==
  LET arms == SelectSeq(in.cells, LAMBDA c : c.device = base.device)
      rows == <<BaselineRow(base)>> \o
        [i \in DOMAIN arms |->
           Row(arms[i].method, ArmPoints(in.points, base.device, arms[i].method),
               arms[i].status, base.ap70 - delta)]
  IN [i \in DOMAIN rows |->
        [row |-> rows[i],
         rank |-> IF rows[i].status = "selected" THEN LatencyRank(rows, i) ELSE 0]]

----------------------------------------------------------------------------
(* The public layer *)

\* _bind_evidence: a point is verified when it says so and its record does.
Bind(in) ==
  [i \in DOMAIN in.points |->
     [in.points[i] EXCEPT !.verified = @ /\ in.evidence[in.points[i].id] = "verified"]]

\* What the input validation refuses: repeated identities, undeclared evidence, no cell.
InputValid(in) ==
  /\ \A i \in DOMAIN in.points : in.points[i].id \in DOMAIN in.evidence
  /\ IsInjective([i \in DOMAIN in.points |-> in.points[i].id])
  /\ in.cells # <<>>
  /\ \A i, j \in DOMAIN in.cells :
       in.cells[i].device = in.cells[j].device /\ in.cells[i].method = in.cells[j].method => i = j

ByEvidenceId(s) == SortSeq(s, LAMBDA p, q : p.id < q.id)

CellResult(points, cell) ==
  LET bases == ArmPoints(points, cell.device, Baseline)
      arm == ByEvidenceId(ArmPoints(points, cell.device, cell.method))
      floor == bases[1].ap70 - PublicDelta
      selected == Select(arm, floor)
      shown == Representative(arm, floor)
  IN IF Len(bases) # 1 \/ ~Trusted(bases[1])
       THEN [cell |-> cell, status |-> "no_trusted_baseline", shown |-> <<>>, violated |-> "no"]
       ELSE [cell |-> cell, shown |-> shown,
             status |-> IF selected # <<>> THEN "selected"
                        ELSE IF cell.status = "complete_failure" THEN "feasibility_failure"
                        ELSE IF shown = <<>> THEN "no_trusted_point" ELSE "no_feasible_point",
             violated |-> IF selected # <<>> THEN "no"
                          ELSE IF cell.status = "complete_failure" THEN "unknown"
                          ELSE IF shown = <<>> THEN "no" ELSE "yes"]

Report(in) == [i \in DOMAIN in.cells |-> CellResult(Bind(in), in.cells[i])]

\* The csv rows name every point of the cell and of its baseline, selected or not.
Rows(in) ==
  [i \in DOMAIN in.cells |->
     [result |-> Report(in)[i],
      inputIds |-> {in.points[j].id : j \in {k \in DOMAIN in.points :
                      /\ in.points[k].device = in.cells[i].device
                      /\ in.points[k].method \in {Baseline, in.cells[i].method}}}]]

Markdown(in) == [i \in DOMAIN in.cells |-> [cell |-> Report(in)[i].cell, shown |-> Report(in)[i].shown]]

Artifact(in, name) ==
  CASE name = "paper_table.raw.json" -> Whole(Report(in))
    [] name = "paper_table.csv" -> Whole(Rows(in))
    [] name = "paper_table.md" -> Whole(Markdown(in))
    [] name = "manifest.json" ->
         Whole([inputs |-> in, raw |-> Report(in), csv |-> Rows(in), md |-> Markdown(in)])

----------------------------------------------------------------------------
(* The command line, run again and again in one output root *)

TableInit ==
  /\ input \in Inputs
  /\ report = <<>> /\ tables = <<>>
  /\ root = [n \in Range(Names) |-> Absent]
  /\ step = "idle" /\ next = 1 /\ runs = 0 /\ crashes = 0

\* _preflight_artifacts: whatever is there must be what would be written.
Preflight(r, in) == \A n \in Range(Names) : r[n] # Absent => r[n] = Artifact(in, n)

\* run, up to the first artifact; invalid input is refused before anything is read from the root.
Start ==
  /\ step \in {"idle", "refused"} /\ runs < MaxRuns
  /\ runs' = runs + 1
  /\ \E in \in IF runs = 0 THEN {input} ELSE Later :
       /\ input' = in
       /\ IF ~InputValid(in)
            THEN report' = <<>> /\ tables' = <<>> /\ step' = "refused"
            ELSE /\ report' = <<Report(in)>>
                 /\ tables' = LET points == Bind(in)
                                  bases == SelectSeq(points, LAMBDA p : p.method = Baseline)
                              IN IF bases = <<>> THEN <<>>
                                 ELSE <<[d \in Deltas |-> BackendTable([in EXCEPT !.points = points], bases[1], d)]>>
                 /\ step' = IF Preflight(root, in) THEN "writing" ELSE "refused"
  /\ next' = 1
  /\ UNCHANGED <<root, crashes>>

\* _write_artifact: a file that is there is compared and left alone.  Its comparison cannot fail
\* here: one run at a time writes in the root, and its preflight has just passed.
Write ==
  /\ step = "writing"
  /\ root' = IF root[Names[next]] # Absent THEN root
             ELSE [root EXCEPT ![Names[next]] = Artifact(input, Names[next])]
  /\ next' = IF next = Len(Names) THEN 1 ELSE next + 1
  /\ step' = IF next = Len(Names) THEN "idle" ELSE "writing"
  /\ UNCHANGED <<input, report, tables, runs, crashes>>

\* The process dies, before an artifact or with one written in part.
Crash ==
  /\ step = "writing" /\ crashes < MaxCrashes
  /\ crashes' = crashes + 1
  /\ root' \in {root} \cup
       (IF root[Names[next]] = Absent THEN {[root EXCEPT ![Names[next]] = Torn]} ELSE {})
  /\ step' = "idle" /\ next' = 1
  /\ UNCHANGED <<input, report, tables, runs>>

TableNext == Start \/ Write \/ Crash

TableSpec == TableInit /\ [][TableNext]_tableVars

----------------------------------------------------------------------------
(* Properties *)

\* The state has its types; a result shows at most one point.
TableTypeOK ==
  /\ step \in {"idle", "writing", "refused"}
  /\ next \in 1..Len(Names) /\ runs \in 0..MaxRuns /\ crashes \in 0..MaxCrashes
  /\ Len(report) <= 1 /\ Len(tables) <= 1
  /\ report # <<>> => \A i \in DOMAIN report[1] : Len(report[1][i].shown) <= 1
  /\ \A n \in Range(Names) : root[n].state \in {"absent", "torn", "whole"}

Permuted(in) == {[in EXCEPT !.points = Reverse(@)], [in EXCEPT !.points = Tail(@) \o <<Head(@)>>]}

\* The report does not depend on the order of the measurements in the file, even between
\* points of equal latency and energy (the sort by evidence_id in select_representative_points).
RepresentativeIgnoresArrival ==
  report # <<>> /\ input.points # <<>> => \A other \in Permuted(input) : Report(other) = report[1]

Eligible(cell) ==
  LET points == Bind(input)
      base == ArmPoints(points, cell.device, Baseline)[1]
  IN {i \in DOMAIN points :
        /\ points[i].device = cell.device /\ points[i].method = cell.method
        /\ Trusted(points[i]) /\ points[i].ap70 >= base.ap70 - PublicDelta}

\* A selected point is one of its own cell's trusted points above the floor, no more than one
\* percent slower than the fastest of them, and none of them is as fast, as frugal and better in
\* one of the two.
SelectedIsUndominated ==
  report # <<>> => \A i \in DOMAIN report[1] :
    LET r == report[1][i] IN
      r.status = "selected" =>
        /\ \E j \in Eligible(r.cell) : input.points[j].id = r.shown[1].id
        /\ \A j \in Eligible(r.cell) :
             LET q == input.points[j] IN
               /\ r.shown[1].latency * 100 <= q.latency * 101
               /\ ~(q.latency <= r.shown[1].latency /\ q.energy <= r.shown[1].energy
                    /\ (q.latency < r.shown[1].latency \/ q.energy < r.shown[1].energy))

\* Where one trusted baseline sets a floor, a cell with a trusted point above it is reported as
\* selected whatever the arm's own status says, and a point shown below the floor is either
\* flagged or stands for an arm that failed; without that baseline nothing is shown.
FloorIsHonest ==
  report # <<>> => \A i \in DOMAIN report[1] :
    LET r == report[1][i]
        bases == SelectSeq(Bind(input), LAMBDA p : p.device = r.cell.device /\ p.method = Baseline)
    IN IF Len(bases) = 1 /\ Trusted(bases[1])
         THEN /\ Eligible(r.cell) # {} <=> r.status = "selected"
              /\ r.shown # <<>> /\ r.shown[1].ap70 < bases[1].ap70 - PublicDelta =>
                   r.violated = "yes" \/ r.cell.status = "complete_failure"
         ELSE r.shown = <<>>

\* The public layer and the frozen table of the public delta tell the same of an arm: selected or
\* not, and a point of the same latency and energy (its accuracy may differ: equal points are
\* taken by evidence id in one layer, in the order of the file in the other).
LayersAgree ==
  report # <<>> /\ tables # <<>> => \A i \in DOMAIN report[1] :
    LET r == report[1][i] IN
      r.status # "no_trusted_baseline" =>
        \A k \in DOMAIN tables[1][PublicDelta] :
          LET row == tables[1][PublicDelta][k].row IN
            k > 1 /\ row.method = r.cell.method =>
              /\ r.status = "selected" <=> row.status = "selected"
              /\ r.status = "feasibility_failure" <=> row.status = "feasibility_failure"
              /\ Len(r.shown) = Len(row.point)
              /\ r.shown # <<>> => /\ r.shown[1].latency = row.point[1].latency
                                   /\ r.shown[1].energy = row.point[1].energy

\* Of two frozen tables the one that allows the greater loss of accuracy never loses an arm and
\* shows it at most one percent slower (the energy tie-break may cost that much, never more).
LooserDeltaKeepsArms ==
  tables # <<>> => \A d, e \in Deltas : d < e =>
    \A k \in DOMAIN tables[1][d] :
      LET strict == tables[1][d][k].row
          loose == tables[1][e][k].row
      IN strict.status = "selected" =>
           /\ loose.status = "selected"
           /\ loose.point[1].latency * 100 <= strict.point[1].latency * 101

\* In a frozen table the selected rows, the baseline among them, have the ranks 1, 2, ... and a
\* row of better rank is never slower.
RanksFollowSpeed ==
  tables # <<>> => \A d \in Deltas :
    LET rows == tables[1][d]
        ranked == {k \in DOMAIN rows : rows[k].rank > 0}
    IN /\ {rows[k].rank : k \in ranked} = 1..Cardinality(ranked)
       /\ \A k, l \in ranked : rows[k].rank < rows[l].rank =>
            rows[k].row.point[1].latency <= rows[l].row.point[1].latency

\* A whole manifest in the root stands beside the three files whose digests it carries, all of
\* them whole, through crashes, runs on other inputs and files torn earlier.
ManifestSealsRoot ==
  root["manifest.json"].state = "whole" =>
    LET manifest == root["manifest.json"].body IN
      /\ root["paper_table.raw.json"] = Whole(manifest.raw)
      /\ root["paper_table.csv"] = Whole(manifest.csv)
      /\ root["paper_table.md"] = Whole(manifest.md)

\* The public table tells what was measured, in both layers alike and in any order of the file.
TableIsHonest ==
  /\ RepresentativeIgnoresArrival /\ SelectedIsUndominated /\ FloorIsHonest /\ LayersAgree
  /\ LooserDeltaKeepsArms /\ RanksFollowSpeed
=============================================================================
