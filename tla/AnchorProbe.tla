----------------------------- MODULE AnchorProbe -----------------------------
(***************************************************************************)
(* The schedule anchors of stage 1 (scripts/phase2): the runner that       *)
(* measures a matrix of cells and publishes what it has after each one     *)
(* (stage1_s2_anchor_runner.py), the completion report made of the scan    *)
(* (stage1_s2_probe_completion_report.py), and the mini search over its    *)
(* cells (stage1_s4_three_arm_validation.py).                              *)
(*                                                                         *)
(* A scan is a sequence of results, the k-th belonging to the k-th cell of *)
(* the plan.  A result gives each arm a latency, 0 where it failed.        *)
(*                                                                         *)
(* External: the tuner, which keeps its records in the work directory of a *)
(* cell.  The runner takes a directory an earlier run left as it is        *)
(* (mkdir with exist_ok), so records of several runs may lie in it.        *)
(***************************************************************************)
EXTENDS Integers, Sequences, FiniteSets

CONSTANTS
  Plan,       \* the cells in the order of the loops: [probe, batch, label, precision]
  Latencies,  \* what an arm can measure
  Restarts    \* bound: how often the runner is started again

ASSUME PlanAssumption ==
  /\ Plan \in Seq([probe : STRING, batch : Nat, label : Nat, precision : {"fp16", "int8"}])
  /\ Latencies \subseteq Nat \ {0} /\ Restarts \in Nat

ArmsOf == {"default", "own", "swap"}
Outcomes == Latencies \cup {0}
Scan(run, status, s) == [run |-> run, status |-> status, cells |-> s]
Absent == Scan(0, "absent", <<>>)
WorkDirs == {Plan[k] : k \in DOMAIN Plan}

VARIABLES
  cells,     \* the runner's list: what this run has measured
  pc,        \* "measuring", "publishing", "final", "done", "dead"
  restarts,  \* how often it was started again
  work,      \* the runs that tuned in the work directory of each cell
  file,      \* the scan on disk: "absent", "running", "completed" or "torn",
             \* and as a ghost the run that wrote it
  report     \* the completion report: its phase and the scan it read

vars == <<cells, pc, restarts, work, file, report>>

Init ==
  /\ cells = <<>> /\ pc = "measuring" /\ restarts = 0
  /\ work = [d \in WorkDirs |-> {}]
  /\ file = Absent
  /\ report = [phase |-> "idle", scan |-> Absent]

----------------------------------------------------------------------------
(* The runner *)

Cell == Plan[Len(cells) + 1]

\* Mutated form: the fp16 database is taken whether or not it was tuned.
SwapUntuned(c) ==
  c.precision = "int8" /\ \E k \in DOMAIN cells : Plan[k] = [c EXCEPT !.precision = "fp16"]

Twin(c) == [c EXCEPT !.precision = "fp16"]

\* an int8 cell has the database of its fp16 twin of this run
SwapPossible(c) ==
  /\ c.precision = "int8"
  /\ \E k \in DOMAIN cells : Plan[k] = Twin(c) /\ cells[k]["own"] > 0

\* lent is a ghost: the runs that tuned in the database the swap was made with
Result(c, r) ==
  [default |-> r["default"], own |-> r["own"], swap |-> r["swap"],
   lent |-> IF r["swap"] > 0 THEN work[Twin(c)] ELSE {}]

Tuned(c) == [work EXCEPT ![c] = @ \cup {restarts}]

\* Mutated form: the loop goes one cell past the plan.
MeasureAgain ==
  /\ pc = "measuring" /\ Len(cells) <= Len(Plan)
  /\ cells' = Append(cells, [default |-> 1, own |-> 1, swap |-> 0, lent |-> {}])
  /\ pc' = "publishing"
  /\ UNCHANGED <<restarts, work, file, report>>

\* A tuning that fails may have left something all the same.
Measure ==
  /\ pc = "measuring" /\ Len(cells) < Len(Plan)
  /\ \E r \in [ArmsOf -> Outcomes] :
       /\ ~SwapPossible(Cell) => r["swap"] = 0
       /\ cells' = Append(cells, Result(Cell, r))
       /\ \/ work' = Tuned(Cell)
          \/ r["own"] = 0 /\ UNCHANGED work
  /\ pc' = "publishing"
  /\ UNCHANGED <<restarts, file, report>>

\* Mutated form: the partial scan is written in place.
PublishInPlace ==
  /\ pc = "publishing"
  /\ \/ file' = Scan(restarts, "running", cells) /\ pc' = "measuring"
     \/ file' = Scan(restarts, "torn", <<>>) /\ pc' = "dead"
  /\ UNCHANGED <<cells, restarts, work, report>>

\* the partial scan, through a temporary file and a rename
Publish ==
  /\ pc = "publishing"
  /\ file' = Scan(restarts, "running", cells)
  /\ pc' = "measuring"
  /\ UNCHANGED <<cells, restarts, work, report>>

\* the completed scan is written in place
OpenFinal ==
  /\ pc = "measuring" /\ Len(cells) = Len(Plan)
  /\ file' = Scan(restarts, "torn", <<>>)
  /\ pc' = "final"
  /\ UNCHANGED <<cells, restarts, work, report>>

WriteFinal ==
  /\ pc = "final"
  /\ file' = Scan(restarts, "completed", cells)
  /\ pc' = "done"
  /\ UNCHANGED <<cells, restarts, work, report>>

Crash ==
  /\ pc \notin {"done", "dead"}
  /\ pc' = "dead"
  /\ \/ UNCHANGED work
     \/ pc = "measuring" /\ Len(cells) < Len(Plan) /\ work' = Tuned(Cell)
  /\ UNCHANGED <<cells, restarts, file, report>>

Restart ==
  /\ pc = "dead" /\ restarts < Restarts
  /\ pc' = "measuring" /\ cells' = <<>> /\ restarts' = restarts + 1
  /\ UNCHANGED <<work, file, report>>

----------------------------------------------------------------------------
(* The analysis the runner keeps beside the cells *)

Probes == {Plan[k].probe : k \in DOMAIN Plan}
Rows(s, probe) == {k \in DOMAIN s : Plan[k].probe = probe}
Slice(s, probe, q, b) == {k \in Rows(s, probe) : Plan[k].precision = q /\ Plan[k].batch = b}
Slices(s, probe) == {Plan[k].precision : k \in Rows(s, probe)} \X {Plan[k].batch : k \in Rows(s, probe)}

\* the order of the labels of some rows under an arm, failed ones left out
Rank(s, R, arm) ==
  LET usable == {k \in R : s[k][arm] > 0}
      InOrder(i, j) == s[i][arm] < s[j][arm] \/ (s[i][arm] = s[j][arm] /\ Plan[i].label <= Plan[j].label)
  IN  {<<Plan[p[1]].label, Plan[p[2]].label>> : p \in {q \in usable \X usable : InOrder(q[1], q[2])}}

RankFlip(s, R) == Rank(s, R, "default") # Rank(s, R, "own")
Gains(s, R) == {k \in R : s[k]["default"] > 0 /\ s[k]["own"] > 0}
Gaps(s, R) == {k \in R : Plan[k].precision = "int8" /\ s[k]["own"] > 0 /\ s[k]["swap"] > 0}

----------------------------------------------------------------------------
(* The completion report *)

Expected(probe) == {k \in DOMAIN Plan : Plan[k].probe = probe}

MatrixComplete(s, probe) ==
  /\ Rows(s, probe) = Expected(probe)
  /\ \A k \in Expected(probe) : /\ s[k]["default"] > 0 /\ s[k]["own"] > 0
                                /\ Plan[k].precision = "int8" => s[k]["swap"] > 0

\* the fastest tuned label of a slice: the first of its rank
FirstLabel(rank) == CHOOSE l \in {pair[1] : pair \in rank} : \A pair \in rank : <<l, pair[2]>> \in rank
BestLabel(s, R) == FirstLabel(Rank(s, R, "own"))

RiskFlags(s, probe) ==
  {f \in {"rank_flip", "gain_drift", "swap_gap", "batch_flip"} :
     CASE f = "rank_flip" ->
            \E qb \in Slices(s, probe) : RankFlip(s, Slice(s, probe, qb[1], qb[2]))
       [] f = "gain_drift" ->
            \E i, j \in Gains(s, Rows(s, probe)) :
              2 * s[i]["default"] * s[j]["own"] > 3 * s[j]["default"] * s[i]["own"]
       [] f = "swap_gap" ->
            \E k \in Gaps(s, Rows(s, probe)) :
              4 * s[k]["swap"] > 5 * s[k]["own"] \/ 5 * s[k]["swap"] < 4 * s[k]["own"]
       [] f = "batch_flip" ->
            \E x, y \in Slices(s, probe) :
              /\ x[1] = y[1]
              /\ \A qb \in {x, y} : Rank(s, Slice(s, probe, qb[1], qb[2]), "own") # {}
              /\ LET R == Slice(s, probe, x[1], x[2])  T == Slice(s, probe, y[1], y[2])
                 IN  BestLabel(s, R) # BestLabel(s, T)}

Verdict(s, probe) ==
  IF ~MatrixComplete(s, probe) THEN "MEASUREMENT_INCOMPLETE_OR_FAILED"
  ELSE IF RiskFlags(s, probe) # {} THEN "COUPLING_SIGNAL_DETECTED"
  ELSE "LOW_RISK_ANCHOR"

\* The report reads a scan, whatever its status, and writes its JSON.  A scan
\* without a row of some probe has no analysis of it and stops the report.
ReadScan ==
  /\ report.phase = "idle" /\ file.status # "absent"
  /\ report' =
       [phase |-> IF file.status = "torn" \/ \E p \in Probes : Rows(file.cells, p) = {}
                  THEN "unreadable" ELSE "json",
        scan |-> file]
  /\ UNCHANGED <<cells, pc, restarts, work, file>>

\* the tables need a gain in every slice and a swap in every probe
Renderable(s) ==
  \A p \in Probes :
    /\ \A qb \in Slices(s, p) : Gains(s, Slice(s, p, qb[1], qb[2])) # {}
    /\ Gaps(s, Rows(s, p)) # {}

RenderReport ==
  /\ report.phase = "json"
  /\ report' = [report EXCEPT !.phase = IF Renderable(report.scan.cells) THEN "whole" ELSE "half"]
  /\ UNCHANGED <<cells, pc, restarts, work, file>>

Next ==
  \/ Measure \/ Publish \/ OpenFinal \/ WriteFinal \/ Crash \/ Restart
  \/ ReadScan \/ RenderReport

Spec == Init /\ [][Next]_vars

----------------------------------------------------------------------------
(* The mini search over a scan: candidates are <<cell, arm>> *)

Candidates(s, probe, b) ==
  {c \in Rows(s, probe) \X ArmsOf : Plan[c[1]].batch = b /\ s[c[1]][c[2]] > 0}

ArmPlace == [default |-> 1, own |-> 2, swap |-> 3]

\* {} or the one fastest candidate, the first of equals
Winner(s, C) ==
  {c \in C : \A d \in C \ {c} :
     LET lc == s[c[1]][c[2]]  ld == s[d[1]][d[2]]
     IN  \/ lc < ld
         \/ lc = ld /\ (c[1] < d[1] \/ (c[1] = d[1] /\ ArmPlace[c[2]] < ArmPlace[d[2]]))}

Labels(C) == {Plan[c[1]].label : c \in C}
Precisions(C) == {Plan[c[1]].precision : c \in C}

\* P under fp16 and the default schedule, then Q under the default schedule
PPick(s, C) == Winner(s, {c \in C : Plan[c[1]].precision = "fp16" /\ c[2] = "default"})
QPick(s, C) ==
  LET P == Labels(PPick(s, C))
  IN  Winner(s, {c \in C : Plan[c[1]].label \in P /\ c[2] = "default"})

LocalOnly(s, C) ==
  LET P == Labels(PPick(s, C))  Q == Precisions(QPick(s, C))
  IN  Winner(s, {c \in C : Plan[c[1]].label \in P /\ Plan[c[1]].precision \in Q})
PairPS(s, C) ==
  LET Q == Precisions(QPick(s, C)) IN Winner(s, {c \in C : Plan[c[1]].precision \in Q})
PairQS(s, C) ==
  LET P == Labels(PPick(s, C)) IN Winner(s, {c \in C : Plan[c[1]].label \in P})

\* the better of the two pairs, P x S on a tie
PairSearch(s, C) ==
  LET PS == PairPS(s, C)  QS == PairQS(s, C)
  IN  {c \in PS : \A d \in QS : s[c[1]][c[2]] <= s[d[1]][d[2]]}
        \cup {d \in QS : \A c \in PS : s[d[1]][d[2]] < s[c[1]][c[2]]}

JointSearch(s, C) == Winner(s, C)

----------------------------------------------------------------------------
(* Properties *)

\* The scan on disk, when it can be read, is a prefix of the plan with an
\* outcome for each arm.
TypeOK ==
  /\ Len(cells) <= Len(Plan) /\ Len(file.cells) <= Len(Plan)
  /\ \A k \in DOMAIN cells :
       cells[k] \in [default : Outcomes, own : Outcomes, swap : Outcomes, lent : SUBSET (0 .. Restarts)]
  /\ restarts \in 0 .. Restarts /\ work \in [WorkDirs -> SUBSET (0 .. Restarts)]
  /\ file.status \in {"absent", "running", "completed", "torn"}
  /\ report.phase \in {"idle", "unreadable", "json", "half", "whole"}

\* Only the last write can tear the scan: until every cell is measured, a
\* crash leaves the cells published before it.
OnlyTheLastWriteTears ==
  [][file'.status = "torn" /\ file.status # "torn" => Len(cells) = Len(Plan)]_vars

\* What a reader of the scan takes for a swap was measured with a database the
\* run of that very scan has tuned, in the directory of the same probe, width
\* and batch, with success: what a failed twin or an earlier run left there is
\* never taken alone.
SwapHasItsTwin ==
  \A k \in DOMAIN file.cells :
    file.cells[k]["swap"] > 0 =>
      /\ file.run \in file.cells[k]["lent"]
      /\ \E j \in 1 .. k - 1 : Plan[j] = Twin(Plan[k]) /\ file.cells[j]["own"] > 0

\* A probe is called a low risk or a coupling signal only from a scan in which
\* every width is ranked under both schedules, so that no flip comes from a
\* failed or a missing cell.
VerdictIsMeasured ==
  report.phase \in {"json", "half", "whole"} =>
    \A p \in Probes :
      LET s == report.scan.cells
      IN  Verdict(s, p) # "MEASUREMENT_INCOMPLETE_OR_FAILED" =>
            \A k \in Expected(p), arm \in {"default", "own"} :
              <<Plan[k].label, Plan[k].label>> \in
                 Rank(s, Slice(s, p, Plan[k].precision, Plan[k].batch), arm)

\* Such a verdict is final: read from a scan that is still running, or whose run
\* dies, it is what the run has measured since says as well.
VerdictIsFinal ==
  \A p \in Probes :
    file.run = restarts /\ Verdict(file.cells, p) # "MEASUREMENT_INCOMPLETE_OR_FAILED"
      => Verdict(cells, p) = Verdict(file.cells, p)

\* The arms of the mini search are ordered: joint is never slower than pair
\* search, nor pair search than the local baseline, whatever has failed.
WiderArmsAreNoSlower ==
  \A p \in Probes, b \in {Plan[k].batch : k \in DOMAIN Plan} :
    LET s == file.cells
        C == Candidates(s, p, b)
        pair == PairSearch(s, C)
        joint == JointSearch(s, C)
    IN  /\ \A c \in LocalOnly(s, C) : \E d \in pair : s[d[1]][d[2]] <= s[c[1]][c[2]]
        /\ \A c \in pair : \E d \in joint : s[d[1]][d[2]] <= s[c[1]][c[2]]

\* What is told of a probe was measured: swaps have the databases of their twins, verdicts every
\* cell and no later change, and an arm that may choose more is never told to be slower.
ProbeIsHonest == SwapHasItsTwin /\ VerdictIsMeasured /\ VerdictIsFinal /\ WiderArmsAreNoSlower
=============================================================================
