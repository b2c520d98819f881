----------------------------- MODULE Stage1Proofs -----------------------------
(***************************************************************************)
(* Proofs about stage 1: the schedule anchors (AnchorProbe) and the reports *)
(* of the coupling predictor (CouplingReports).  Of the anchors an          *)
(* inductive invariant on the three scans is proved, and from it that the   *)
(* mini search always has a winner.  Of the reports it is that each rule    *)
(* writes what the manifest and the evidence support, which growing         *)
(* evidence cannot undo.                                                    *)
(***************************************************************************)
EXTENDS AnchorProbe, CouplingReports, WellFoundedInduction, TLAPS

\* What the runner can measure for a cell.
Runs == 0 .. Restarts
Arms == [default : Outcomes, own : Outcomes, swap : Outcomes, lent : SUBSET Runs]

\* Every swap result of a run's scan has its successful fp16 twin before it, and
\* a database that run has tuned.
TwinsIn(s, run) ==
  \A k \in DOMAIN s : s[k]["swap"] > 0 =>
    /\ run \in s[k]["lent"]
    /\ \E j \in 1 .. k - 1 : Plan[j] = Twin(Plan[k]) /\ s[j]["own"] > 0

\* Where this run's own tuning succeeded, its work directory is tuned.
WorkInv ==
  /\ work \in [WorkDirs -> SUBSET Runs]
  /\ \A j \in DOMAIN cells : cells[j]["own"] > 0 => restarts \in work[Plan[j]]

\* What this run has written is the beginning of what it has measured.
Begins(s, t) == Len(s) <= Len(t) /\ \A k \in DOMAIN s : s[k] = t[k]

\* A scan is a sequence of results, no longer than the plan.
ScanOK(s) == s \in Seq(Arms) /\ Len(s) <= Len(Plan)

\* The inductive invariant: the runner's list, the scan on disk and the scan the
\* report read are scans of the plan, the first two have their twins, and the
\* scan on disk, if it is of this run, begins the runner's list.
ProbeInv ==
  /\ restarts \in Runs /\ WorkInv
  /\ ScanOK(cells) /\ TwinsIn(cells, restarts)
  /\ pc = "final" => Len(cells) = Len(Plan)
  /\ file = Scan(file.run, file.status, file.cells)
  /\ ScanOK(file.cells) /\ TwinsIn(file.cells, file.run)
  /\ file.run <= restarts /\ file.run \in Nat
  /\ file.run = restarts => Begins(file.cells, cells)
  /\ file.status \in {"absent", "running", "completed", "torn"}
  /\ report.phase \in {"idle", "unreadable", "json", "half", "whole"}
  /\ report = [phase |-> report.phase, scan |-> report.scan] /\ ScanOK(report.scan.cells)

\* What appending a result to a scan changes and what it keeps.
LEMMA AppendScan ==
  ASSUME NEW s \in Seq(Arms), NEW r \in Arms
  PROVE  /\ Append(s, r) \in Seq(Arms) /\ Len(Append(s, r)) = Len(s) + 1
         /\ DOMAIN s = 1 .. Len(s) /\ DOMAIN Append(s, r) = 1 .. Len(s) + 1
         /\ \A k \in 1 .. Len(s) : Append(s, r)[k] = s[k]
         /\ Append(s, r)[Len(s) + 1] = r
  OBVIOUS

\* The fields of a cell of the plan, one by one.
LEMMA PlanTyped ==
  ASSUME NEW k \in DOMAIN Plan
  PROVE  Plan[k].label \in Nat /\ Plan[k].batch \in Nat /\ k \in Nat
<1> DEFINE Row == [probe : STRING, batch : Nat, label : Nat, precision : {"fp16", "int8"}]
<1>1. Plan \in Seq(Row)
  BY PlanAssumption
<1>2. k \in 1 .. Len(Plan) /\ Len(Plan) \in Nat /\ Plan[k] \in Row
  <2> HIDE DEF Row
  <2> QED
    BY <1>1
<1> QED
  BY <1>2

\* The empty scan, with which a run and a torn file start.
LEMMA EmptyScan ==
  /\ ScanOK(<<>>) /\ \A run : TwinsIn(<<>>, run)
  /\ \A t : Len(t) \in Nat => Begins(<<>>, t)
  BY PlanAssumption DEF ScanOK, TwinsIn, Begins

\* Measuring the next cell: a swap is possible only where the twin was tuned.
LEMMA MeasureTwins ==
  ASSUME ProbeInv, Len(cells) < Len(Plan), NEW r \in [ArmsOf -> Outcomes],
         ~SwapPossible(Cell) => r["swap"] = 0
  PROVE  /\ ScanOK(Append(cells, Result(Cell, r))) /\ TwinsIn(Append(cells, Result(Cell, r)), restarts)
         /\ Begins(cells, Append(cells, Result(Cell, r)))
<1> DEFINE n == Len(cells)  x == Result(Cell, r)  new == Append(cells, x)
<1>1. cells \in Seq(Arms) /\ n \in Nat /\ Cell = Plan[n + 1] /\ TwinsIn(cells, restarts)
  BY DEF ScanOK, ProbeInv, Cell
<1>2. SwapPossible(Cell) =>
        \E j \in DOMAIN cells : Plan[j] = Twin(Cell) /\ cells[j]["own"] > 0 /\ restarts \in work[Plan[j]]
  BY DEF SwapPossible, ProbeInv, WorkInv
<1>3. /\ SwapPossible(Cell) => work[Twin(Cell)] \in SUBSET Runs /\ restarts \in work[Twin(Cell)]
      /\ x["swap"] = r["swap"] /\ x["own"] = r["own"]
      /\ r["swap"] > 0 => SwapPossible(Cell) /\ x["lent"] = work[Twin(Cell)]
  <2>1. ASSUME SwapPossible(Cell) PROVE work[Twin(Cell)] \in SUBSET Runs /\ restarts \in work[Twin(Cell)]
    <3>1. PICK j \in DOMAIN cells : Plan[j] = Twin(Cell) /\ restarts \in work[Plan[j]]
      BY <1>2, <2>1
    <3>2. j \in DOMAIN Plan
      BY <1>1, PlanAssumption DEF ProbeInv, ScanOK
    <3>3. Twin(Cell) \in WorkDirs
      BY <3>1, <3>2 DEF WorkDirs
    <3> QED
      BY <3>1, <3>3 DEF ProbeInv, WorkInv
  <2> QED
    BY <2>1 DEF Result
<1>4. x \in Arms
  <2>1. r["default"] \in Outcomes /\ r["own"] \in Outcomes /\ r["swap"] \in Outcomes
    BY DEF ArmsOf
  <2>2. CASE r["swap"] > 0
    BY <1>3, <2>1, <2>2 DEF Result, Arms
  <2>3. CASE ~(r["swap"] > 0)
    BY <2>1, <2>3 DEF Result, Arms
  <2> QED
    BY <2>2, <2>3
<1> HIDE DEF x
<1>5. /\ new \in Seq(Arms) /\ Len(new) = n + 1 /\ DOMAIN cells = 1 .. n /\ DOMAIN new = 1 .. n + 1
      /\ \A k \in 1 .. n : new[k] = cells[k]
      /\ new[n + 1] = x
  BY <1>1, <1>4, AppendScan
<1>6. ScanOK(new) /\ Begins(cells, new)
  BY <1>1, <1>5, PlanAssumption DEF ScanOK, Begins
<1>7. ASSUME NEW k \in 1 .. n + 1, new[k]["swap"] > 0
      PROVE  /\ restarts \in new[k]["lent"]
             /\ \E j \in 1 .. k - 1 : Plan[j] = Twin(Plan[k]) /\ new[j]["own"] > 0
  <2>1. CASE k \in 1 .. n
    BY <1>5, <1>7, <2>1, <1>1 DEF TwinsIn
  <2>2. CASE k = n + 1
    <3>1. SwapPossible(Cell) /\ restarts \in new[k]["lent"]
      BY <1>3, <1>5, <1>7, <2>2
    <3>2. PICK j \in DOMAIN cells : Plan[j] = Twin(Plan[k]) /\ cells[j]["own"] > 0
      BY <1>1, <1>2, <2>2, <3>1
    <3> QED
      BY <3>1, <3>2, <1>5, <2>2, <1>1
  <2> QED
    BY <2>1, <2>2, <1>1
<1> QED
  BY <1>5, <1>6, <1>7 DEF TwinsIn, x

\* And its work directory is tuned by this run, where the tuning succeeded.
LEMMA MeasureWork ==
  ASSUME ProbeInv, Len(cells) < Len(Plan), NEW r \in [ArmsOf -> Outcomes],
         cells' = Append(cells, Result(Cell, r)), restarts' = restarts,
         work' = Tuned(Cell) \/ (r["own"] = 0 /\ work' = work)
  PROVE  WorkInv'
<1> DEFINE n == Len(cells)
<1>1. n \in Nat /\ DOMAIN cells = 1 .. n /\ n + 1 \in DOMAIN Plan /\ Cell = Plan[n + 1] /\ Cell \in WorkDirs
  BY PlanAssumption DEF ProbeInv, ScanOK, Cell, WorkDirs
<1>2. /\ DOMAIN cells' = 1 .. n + 1 /\ \A k \in 1 .. n : cells'[k] = cells[k]
      /\ cells'[n + 1]["own"] = r["own"]
  BY <1>1 DEF ProbeInv, ScanOK, Result
<1>3. \A d \in WorkDirs : work[d] \subseteq work'[d] /\ work'[d] \in SUBSET Runs
  BY <1>1 DEF ProbeInv, WorkInv, Tuned
<1>4. work' \in [WorkDirs -> SUBSET Runs]
  BY <1>1 DEF ProbeInv, WorkInv, Tuned
<1>5. ASSUME NEW k \in 1 .. n + 1, cells'[k]["own"] > 0 PROVE restarts \in work'[Plan[k]]
  <2>1. Plan[k] \in WorkDirs
    BY <1>1, <1>5, PlanAssumption DEF WorkDirs
  <2>2. CASE k \in 1 .. n
    BY <1>1, <1>2, <1>3, <1>5, <2>1, <2>2 DEF ProbeInv, WorkInv
  <2>3. CASE k = n + 1
    BY <1>1, <1>2, <1>5, <2>3 DEF ProbeInv, WorkInv, Tuned
  <2> QED
    BY <1>1, <2>2, <2>3
<1> QED
  BY <1>2, <1>4, <1>5 DEF WorkInv

\* The runner starts with no result and no file.
LEMMA ProbeInit == Init => ProbeInv
  BY EmptyScan, PlanAssumption DEF Init, ProbeInv, WorkInv, Absent, Scan, Runs, Begins

\* Every step of the runner and of the report keeps the invariant.
LEMMA ProbeNext == ProbeInv /\ [Next]_vars => ProbeInv'
<1> SUFFICES ASSUME ProbeInv, [Next]_vars PROVE ProbeInv'
  OBVIOUS
<1>1. CASE Measure
  <2>1. PICK r \in [ArmsOf -> Outcomes] :
          /\ ~SwapPossible(Cell) => r["swap"] = 0
          /\ cells' = Append(cells, Result(Cell, r))
          /\ work' = Tuned(Cell) \/ (r["own"] = 0 /\ work' = work)
    BY <1>1 DEF Measure
  <2>2. Len(cells) < Len(Plan) /\ restarts' = restarts /\ file' = file /\ report' = report /\ pc' = "publishing"
    BY <1>1 DEF Measure
  <2>3. ScanOK(cells)' /\ TwinsIn(cells, restarts)' /\ Begins(cells, cells')
    BY <2>1, <2>2, MeasureTwins DEF ScanOK, TwinsIn
  <2>4. WorkInv'
    BY <2>1, <2>2, MeasureWork
  <2>5. file.run = restarts => Begins(file.cells, cells')
    BY <2>3 DEF ProbeInv, Begins, ScanOK
  <2> QED
    BY <2>2, <2>3, <2>4, <2>5 DEF ProbeInv, ScanOK, TwinsIn, Begins, Scan
<1>2. CASE Publish
  BY <1>2 DEF Publish, ProbeInv, WorkInv, ScanOK, TwinsIn, Begins, Scan, Runs
<1>3. CASE OpenFinal
  BY <1>3, EmptyScan DEF OpenFinal, ProbeInv, WorkInv, ScanOK, TwinsIn, Begins, Scan, Runs
<1>4. CASE WriteFinal
  BY <1>4 DEF WriteFinal, ProbeInv, WorkInv, ScanOK, TwinsIn, Begins, Scan, Runs
<1>5. CASE Crash
  <2>1. WorkInv'
    <3>1. CASE work' = work
      BY <1>5, <3>1 DEF Crash, ProbeInv, WorkInv
    <3>2. CASE pc = "measuring" /\ Len(cells) < Len(Plan) /\ work' = Tuned(Cell)
      <4>1. Cell \in WorkDirs /\ DOMAIN cells \subseteq DOMAIN Plan
        BY <3>2, PlanAssumption DEF ProbeInv, ScanOK, Cell, WorkDirs
      <4>2. work' \in [WorkDirs -> SUBSET Runs] /\ \A d \in WorkDirs : work[d] \subseteq work'[d]
        BY <3>2, <4>1 DEF ProbeInv, WorkInv, Tuned
      <4>3. \A j \in DOMAIN cells : Plan[j] \in WorkDirs
        BY <4>1 DEF WorkDirs
      <4> QED
        BY <1>5, <4>2, <4>3 DEF Crash, ProbeInv, WorkInv
    <3> QED
      BY <1>5, <3>1, <3>2 DEF Crash
  <2> QED
    BY <1>5, <2>1 DEF Crash, ProbeInv, ScanOK, TwinsIn, Begins, Scan, Runs
<1>6. CASE Restart
  <2>1. /\ restarts' \in Runs /\ WorkInv' /\ pc' = "measuring" /\ restarts' = restarts + 1
        /\ ScanOK(cells)' /\ TwinsIn(cells, restarts)' /\ file' = file /\ report' = report
    BY <1>6, EmptyScan, PlanAssumption DEF Restart, ProbeInv, WorkInv, Runs, ScanOK, TwinsIn
  <2>2. restarts \in Nat /\ file.run < restarts'
    BY <2>1 DEF ProbeInv, Runs
  <2> QED
    BY <2>1, <2>2 DEF ProbeInv, ScanOK, TwinsIn, Begins, Scan, Runs
<1>7. CASE ReadScan
  BY <1>7 DEF ReadScan, ProbeInv, WorkInv, ScanOK, TwinsIn, Begins, Scan, Runs
<1>8. CASE RenderReport
  BY <1>8 DEF RenderReport, ProbeInv, WorkInv, ScanOK, TwinsIn, Begins, Scan, Runs
<1>9. CASE UNCHANGED vars
  BY <1>9 DEF vars, ProbeInv, WorkInv, ScanOK, TwinsIn, Begins, Scan, Runs
<1> QED
  BY <1>1, <1>2, <1>3, <1>4, <1>5, <1>6, <1>7, <1>8, <1>9 DEF Next

\* The invariant gives the types.
LEMMA ProbeTypes == ProbeInv => TypeOK
<1> SUFFICES ASSUME ProbeInv PROVE TypeOK
  OBVIOUS
<1>1. \A k \in DOMAIN cells : cells[k] \in Arms
  BY DEF ProbeInv, ScanOK
<1> QED
  BY <1>1 DEF ProbeInv, WorkInv, Runs, ScanOK, TypeOK, Arms

\* The scan on disk has its twins.
LEMMA TwinsStand == ProbeInv => SwapHasItsTwin
  BY DEF ProbeInv, SwapHasItsTwin, TwinsIn

\* A row that was measured is in the rank of any set of rows it belongs to.
LEMMA SelfRanked ==
  ASSUME NEW s, NEW R, NEW arm, NEW k \in R, s[k][arm] \in Nat \ {0}, Plan[k].label \in Nat
  PROVE  <<Plan[k].label, Plan[k].label>> \in Rank(s, R, arm)
<1> DEFINE usable == {i \in R : s[i][arm] > 0}
           InOrder(i, j) == s[i][arm] < s[j][arm] \/ (s[i][arm] = s[j][arm] /\ Plan[i].label <= Plan[j].label)
<1>1. k \in usable /\ InOrder(k, k)
  OBVIOUS
<1>2. <<k, k>> \in {q \in usable \X usable : InOrder(q[1], q[2])}
  BY <1>1
<1> QED
  BY <1>2 DEF Rank

\* A verdict other than "incomplete" needs every cell, and then each is ranked.
LEMMA VerdictsStand == ProbeInv => VerdictIsMeasured
<1> SUFFICES ASSUME ProbeInv, report.phase \in {"json", "half", "whole"}, NEW p \in Probes,
                    Verdict(report.scan.cells, p) # "MEASUREMENT_INCOMPLETE_OR_FAILED",
                    NEW k \in Expected(p), NEW arm \in {"default", "own"}
             PROVE  <<Plan[k].label, Plan[k].label>> \in
                      Rank(report.scan.cells, Slice(report.scan.cells, p, Plan[k].precision, Plan[k].batch), arm)
  BY DEF VerdictIsMeasured
<1> DEFINE s == report.scan.cells
<1>1. MatrixComplete(s, p)
  BY DEF Verdict
<1>2. k \in Rows(s, p) /\ s[k][arm] > 0
  BY <1>1 DEF MatrixComplete
<1>3. k \in DOMAIN s /\ k \in DOMAIN Plan
  BY <1>2 DEF Rows, Expected
<1>6. Plan[k].label \in Nat
  BY <1>3, PlanTyped
<1>4. s[k][arm] \in Nat \ {0}
  <2>1. s[k] \in Arms
    BY <1>3 DEF ProbeInv, ScanOK
  <2>2. s[k]["default"] \in Nat /\ s[k]["own"] \in Nat
    <3>1. s[k]["default"] \in Outcomes /\ s[k]["own"] \in Outcomes
      BY <2>1 DEF Arms
    <3>2. Outcomes \subseteq Nat
      BY PlanAssumption DEF Outcomes
    <3> QED
      BY <3>1, <3>2
  <2>3. CASE arm = "default"
    BY <1>2, <2>2, <2>3
  <2>4. CASE arm = "own"
    BY <1>2, <2>2, <2>4
  <2> QED
    BY <2>3, <2>4
<1>5. k \in Slice(s, p, Plan[k].precision, Plan[k].batch)
  BY <1>2 DEF Slice
<1> QED
  BY <1>4, <1>5, <1>6, SelfRanked

\* Two scans rank rows alike in which they agree.
LEMMA SameRank ==
  ASSUME NEW s, NEW t, NEW R, \A k \in R : s[k] = t[k], NEW arm
  PROVE  Rank(s, R, arm) = Rank(t, R, arm)
<1>1. {k \in R : s[k][arm] > 0} = {k \in R : t[k][arm] > 0}
  OBVIOUS
<1> DEFINE U == {k \in R : s[k][arm] > 0}
           Le(x, i, j) == x[i][arm] < x[j][arm] \/ (x[i][arm] = x[j][arm] /\ Plan[i].label <= Plan[j].label)
<1>2. \A i, j \in U : Le(s, i, j) <=> Le(t, i, j)
  OBVIOUS
<1>3. {q \in U \X U : Le(s, q[1], q[2])} = {q \in U \X U : Le(t, q[1], q[2])}
  BY <1>2
<1> QED
  BY <1>1, <1>3 DEF Rank

\* What a run measures after a probe is complete changes nothing of its verdict.
LEMMA VerdictsLast == ProbeInv => VerdictIsFinal
<1> SUFFICES ASSUME ProbeInv, NEW p \in Probes, file.run = restarts,
                    Verdict(file.cells, p) # "MEASUREMENT_INCOMPLETE_OR_FAILED"
             PROVE  Verdict(cells, p) = Verdict(file.cells, p)
  BY DEF VerdictIsFinal
<1> DEFINE s == file.cells  t == cells  R == Rows(s, p)
<1>1. MatrixComplete(s, p)
  BY DEF Verdict
<1>2. DOMAIN s \subseteq DOMAIN t /\ DOMAIN t \subseteq DOMAIN Plan /\ \A k \in DOMAIN s : s[k] = t[k]
  BY PlanAssumption DEF ProbeInv, ScanOK, Begins
<1>3. R = Expected(p) /\ Rows(t, p) = R /\ \A k \in R : s[k] = t[k]
  BY <1>1, <1>2 DEF MatrixComplete, Rows, Expected
<1>4. MatrixComplete(t, p)
  BY <1>1, <1>3 DEF MatrixComplete
<1>5. Slices(s, p) = Slices(t, p) /\ \A q, b : Slice(s, p, q, b) = Slice(t, p, q, b) /\ Slice(s, p, q, b) \subseteq R
  BY <1>3 DEF Slices, Slice
<1>6. \A q, b, arm : Rank(s, Slice(s, p, q, b), arm) = Rank(t, Slice(t, p, q, b), arm)
  <2> SUFFICES ASSUME NEW q, NEW b, NEW arm
               PROVE  Rank(s, Slice(s, p, q, b), arm) = Rank(t, Slice(t, p, q, b), arm)
    OBVIOUS
  <2>1. \A k \in Slice(s, p, q, b) : s[k] = t[k]
    BY <1>3, <1>5
  <2> HIDE DEF s, t
  <2>2. Rank(s, Slice(s, p, q, b), arm) = Rank(t, Slice(s, p, q, b), arm)
    BY <2>1, SameRank
  <2> QED
    BY <1>5, <2>2
<1>7. Gains(s, Rows(s, p)) = Gains(t, Rows(t, p)) /\ Gaps(s, Rows(s, p)) = Gaps(t, Rows(t, p))
      /\ Gains(s, Rows(s, p)) \subseteq R /\ Gaps(s, Rows(s, p)) \subseteq R
  BY <1>3 DEF Gains, Gaps
<1> DEFINE Flips(x) == \E qb \in Slices(x, p) : RankFlip(x, Slice(x, p, qb[1], qb[2]))
           Drifts(x) == \E i, j \in Gains(x, Rows(x, p)) :
                          2 * x[i]["default"] * x[j]["own"] > 3 * x[j]["default"] * x[i]["own"]
           Gapped(x) == \E k \in Gaps(x, Rows(x, p)) :
                          4 * x[k]["swap"] > 5 * x[k]["own"] \/ 5 * x[k]["swap"] < 4 * x[k]["own"]
           Moves(x) == \E y, z \in Slices(x, p) :
                         /\ y[1] = z[1]
                         /\ \A qb \in {y, z} : Rank(x, Slice(x, p, qb[1], qb[2]), "own") # {}
                         /\ BestLabel(x, Slice(x, p, y[1], y[2])) # BestLabel(x, Slice(x, p, z[1], z[2]))
           Flag(x, f) == CASE f = "rank_flip" -> Flips(x) [] f = "gain_drift" -> Drifts(x)
                           [] f = "swap_gap" -> Gapped(x) [] f = "batch_flip" -> Moves(x)
<1>8. \A x : RiskFlags(x, p) = {f \in {"rank_flip", "gain_drift", "swap_gap", "batch_flip"} : Flag(x, f)}
  BY DEF RiskFlags
<1>9. Flips(s) <=> Flips(t)
  BY <1>5, <1>6 DEF RankFlip
<1>10. Drifts(s) <=> Drifts(t)
  BY <1>3, <1>7
<1>11. Gapped(s) <=> Gapped(t)
  BY <1>3, <1>7
<1>12. Moves(s) <=> Moves(t)
  <2>1. \A q, b : BestLabel(s, Slice(s, p, q, b)) = BestLabel(t, Slice(t, p, q, b))
    BY <1>6 DEF BestLabel
  <2> DEFINE M(x, y, z) ==
               /\ y[1] = z[1]
               /\ \A qb \in {y, z} : Rank(x, Slice(x, p, qb[1], qb[2]), "own") # {}
               /\ BestLabel(x, Slice(x, p, y[1], y[2])) # BestLabel(x, Slice(x, p, z[1], z[2]))
  <2>2. \A y, z : M(s, y, z) <=> M(t, y, z)
    <3> HIDE DEF s, t
    <3> QED
      BY <1>6, <2>1
  <2>3. \A x : Moves(x) <=> \E y, z \in Slices(x, p) : M(x, y, z)
    OBVIOUS
  <2> HIDE DEF s, t, M, Moves
  <2> QED
    BY <1>5, <2>2, <2>3
<1>13. \A f \in {"rank_flip", "gain_drift", "swap_gap", "batch_flip"} : Flag(s, f) <=> Flag(t, f)
  <2> HIDE DEF Flips, Drifts, Gapped, Moves
  <2> QED
    BY <1>9, <1>10, <1>11, <1>12
<1>14. RiskFlags(s, p) = RiskFlags(t, p)
  <2> HIDE DEF Flag, s, t
  <2> QED
    BY <1>8, <1>13
<1> QED
  BY <1>1, <1>4, <1>14 DEF Verdict

----------------------------------------------------------------------------
(* The mini search *)

\* Every nonempty set of numbers has a least one.
LEMMA Least ==
  ASSUME NEW T \in SUBSET Nat, T # {}
  PROVE  \E m \in T : \A n \in T : m <= n
<1>1. PICK less : less = OpToRel(<, Nat)
  OBVIOUS
<1>2. IsWellFoundedOn(less, Nat)
  BY <1>1, NatLessThanWellFounded, Zenon
<1>3. PICK m \in T : \A n \in T : ~(<<n, m>> \in less)
  BY <1>2, WFMin, Zenon
<1>4. \A i, n \in Nat : n < i => <<n, i>> \in less
  BY <1>1, Zenon DEF OpToRel
<1>5. \A n \in T : ~(n < m)
  BY <1>3, <1>4
<1> QED
  BY <1>5

\* Of a nonempty set of things with a number each, one has the least.
LEMMA LeastBy ==
  ASSUME NEW C, C # {}, NEW f, \A c \in C : f[c] \in Nat
  PROVE  \E w \in C : \A c \in C : f[w] <= f[c]
<1> DEFINE T == {f[c] : c \in C}
<1>1. T \in SUBSET Nat /\ T # {}
  OBVIOUS
<1>2. PICK m \in T : \A n \in T : m <= n
  BY <1>1, Least
<1> QED
  BY <1>2

\* Candidates are cells of a scan under an arm, each with a latency.
IsScan(s, C) == C \subseteq Nat \X ArmsOf /\ \A c \in C : s[c[1]][c[2]] \in Nat

\* No candidate is faster than a winner.
LEMMA WinnersAreFastest ==
  ASSUME NEW s, NEW C, IsScan(s, C), NEW w \in Winner(s, C), NEW c \in C
  PROVE  w \in C /\ s[w[1]][w[2]] <= s[c[1]][c[2]]
<1>1. w \in C
  BY DEF Winner
<1>2. s[w[1]][w[2]] \in Nat /\ s[c[1]][c[2]] \in Nat
  BY <1>1 DEF IsScan
<1>3. CASE c = w
  BY <1>1, <1>2, <1>3
<1>4. CASE c # w
  BY <1>1, <1>2, <1>4 DEF Winner
<1> QED
  BY <1>3, <1>4

\* Among some candidates one wins: the least latency, then the least cell, then
\* the least arm.
LEMMA SomebodyWins ==
  ASSUME NEW s, NEW C, IsScan(s, C), C # {}
  PROVE  Winner(s, C) # {}
<1> DEFINE lat == [c \in C |-> s[c[1]][c[2]]]
<1>1. PICK x \in C : \A c \in C : lat[x] <= lat[c]
  <2>1. \A c \in C : lat[c] \in Nat
    BY DEF IsScan
  <2> QED
    BY <2>1, LeastBy
<1> DEFINE C1 == {c \in C : lat[c] = lat[x]}
           idx == [c \in C1 |-> c[1]]
<1>2. PICK y \in C1 : \A c \in C1 : idx[y] <= idx[c]
  <2>1. C1 # {} /\ \A c \in C1 : idx[c] \in Nat
    BY DEF IsScan
  <2> QED
    BY <2>1, LeastBy
<1> DEFINE C2 == {c \in C1 : c[1] = y[1]}
           place == [c \in C2 |-> ArmPlace[c[2]]]
<1>3. \A a \in ArmsOf : ArmPlace[a] \in Nat
  BY DEF ArmsOf, ArmPlace
<1>4. \A a, b \in ArmsOf : ArmPlace[a] = ArmPlace[b] => a = b
  BY DEF ArmsOf, ArmPlace
<1>5. PICK w \in C2 : \A c \in C2 : place[w] <= place[c]
  <2>1. C2 # {} /\ \A c \in C2 : place[c] \in Nat
    BY <1>3 DEF IsScan
  <2> QED
    BY <2>1, LeastBy
<1>6. ASSUME NEW d \in C \ {w}
      PROVE  \/ lat[w] < lat[d]
             \/ lat[w] = lat[d] /\ (w[1] < d[1] \/ (w[1] = d[1] /\ ArmPlace[w[2]] < ArmPlace[d[2]]))
  <2>1. w \in C1 /\ w \in C /\ lat[w] = lat[x] /\ w[1] = y[1]
    OBVIOUS
  <2>2. lat[w] \in Nat /\ lat[d] \in Nat /\ w[1] \in Nat /\ d[1] \in Nat /\ w[2] \in ArmsOf /\ d[2] \in ArmsOf
    BY <2>1 DEF IsScan
  <2>3. lat[w] <= lat[d]
    BY <1>1, <2>1
  <2>4. CASE lat[w] = lat[d] /\ w[1] # d[1]
    <3>1. d \in C1
      BY <2>1, <2>4
    <3>2. w[1] <= d[1]
      BY <1>2, <2>1, <3>1
    <3> QED
      BY <2>2, <2>4, <3>2
  <2>5. CASE lat[w] = lat[d] /\ w[1] = d[1]
    <3>1. d \in C2
      BY <2>1, <2>5
    <3>2. ArmPlace[w[2]] <= ArmPlace[d[2]]
      BY <1>5, <3>1
    <3>3. w[2] # d[2]
      BY <2>1, <2>5 DEF IsScan
    <3>4. ArmPlace[w[2]] # ArmPlace[d[2]]
      BY <1>4, <2>2, <3>3
    <3>5. ArmPlace[w[2]] < ArmPlace[d[2]]
      BY <1>3, <2>2, <3>2, <3>4
    <3> QED
      BY <2>5, <3>5
  <2> QED
    BY <2>2, <2>3, <2>4, <2>5
<1>7. w \in Winner(s, C)
  BY <1>6 DEF Winner
<1> QED
  BY <1>7


\* The candidates of a probe and batch in the scan on disk are of that kind.
LEMMA CandidatesScanned ==
  ASSUME ProbeInv, NEW p, NEW b
  PROVE  IsScan(file.cells, Candidates(file.cells, p, b))
<1> DEFINE s == file.cells
<1>1. s \in Seq(Arms) /\ Len(s) \in Nat
  BY DEF ProbeInv, ScanOK
<1>2. ASSUME NEW k \in DOMAIN s, NEW a \in ArmsOf
      PROVE  k \in Nat /\ s[k][a] \in Nat
  <2>1. k \in Nat /\ s[k] \in Arms
    BY <1>1
  <2>2. s[k][a] \in Outcomes
    <3>1. s[k]["default"] \in Outcomes /\ s[k]["own"] \in Outcomes /\ s[k]["swap"] \in Outcomes
      BY <2>1 DEF Arms
    <3>2. a = "default" \/ a = "own" \/ a = "swap"
      BY DEF ArmsOf
    <3> QED
      BY <3>1, <3>2
  <2>3. Outcomes \subseteq Nat
    BY PlanAssumption DEF Outcomes
  <2> QED
    BY <2>1, <2>2, <2>3
<1> QED
  BY <1>2 DEF IsScan, Candidates, Rows

\* Pair search picks a candidate, and one no slower than the local baseline: what
\* the baseline may choose, both pairs may.
LEMMA PairsAreChosen ==
  ASSUME NEW s, NEW C, IsScan(s, C)
  PROVE  /\ PairSearch(s, C) \subseteq C
         /\ \A c \in LocalOnly(s, C) : \E d \in PairSearch(s, C) : s[d[1]][d[2]] <= s[c[1]][c[2]]
<1> DEFINE PS == PairPS(s, C)  QS == PairQS(s, C)
           P == Labels(PPick(s, C))  Q == Precisions(QPick(s, C))
           CP == {c \in C : Plan[c[1]].precision \in Q}
           CQ == {c \in C : Plan[c[1]].label \in P}
           CL == {c \in C : Plan[c[1]].label \in P /\ Plan[c[1]].precision \in Q}
<1>1. PS = Winner(s, CP) /\ QS = Winner(s, CQ) /\ LocalOnly(s, C) = Winner(s, CL)
  BY DEF PairPS, PairQS, LocalOnly
<1>2. IsScan(s, CP) /\ IsScan(s, CQ) /\ IsScan(s, CL)
  BY DEF IsScan
<1>3. PS \subseteq C /\ QS \subseteq C
  BY <1>1 DEF Winner
<1>4. PairSearch(s, C) = {c \in PS : \A d \in QS : s[c[1]][c[2]] <= s[d[1]][d[2]]}
                           \cup {d \in QS : \A c \in PS : s[d[1]][d[2]] < s[c[1]][c[2]]}
  BY DEF PairSearch
<1>5. ASSUME NEW c \in LocalOnly(s, C)
      PROVE  \E d \in PairSearch(s, C) : s[d[1]][d[2]] <= s[c[1]][c[2]]
  <2>1. c \in CP /\ c \in CQ
    BY <1>1 DEF Winner
  <2>2. PICK x \in PS : TRUE
    BY <2>1, <1>1, <1>2, SomebodyWins
  <2>3. PICK y \in QS : TRUE
    BY <2>1, <1>1, <1>2, SomebodyWins
  <2>4. \A w \in PS, d \in CP : w \in CP /\ s[w[1]][w[2]] <= s[d[1]][d[2]]
    BY <1>1, <1>2, WinnersAreFastest
  <2>5. \A w \in QS, d \in CQ : w \in CQ /\ s[w[1]][w[2]] <= s[d[1]][d[2]]
    BY <1>1, <1>2, WinnersAreFastest
  <2>6. \A d \in C : s[d[1]][d[2]] \in Nat
    BY DEF IsScan
  <2>7. x \in CP /\ y \in CQ
    BY <2>4, <2>5, <2>1
  <2>8. s[x[1]][x[2]] \in Nat /\ s[y[1]][y[2]] \in Nat
    BY <2>6, <2>7
  <2>9. CASE s[x[1]][x[2]] <= s[y[1]][y[2]]
    <3>1. \A d \in QS : s[d[1]][d[2]] \in Nat /\ s[y[1]][y[2]] <= s[d[1]][d[2]]
      BY <2>5, <2>6, <2>7, <1>3
    <3>2. \A d \in QS : s[x[1]][x[2]] <= s[d[1]][d[2]]
      BY <3>1, <2>8, <2>9
    <3> QED
      BY <3>2, <1>4, <2>4, <2>1
  <2>10. CASE s[y[1]][y[2]] < s[x[1]][x[2]]
    <3>1. \A d \in PS : s[d[1]][d[2]] \in Nat /\ s[x[1]][x[2]] <= s[d[1]][d[2]]
      BY <2>4, <2>6, <2>7, <1>3
    <3>2. \A d \in PS : s[y[1]][y[2]] < s[d[1]][d[2]]
      BY <3>1, <2>8, <2>10
    <3> QED
      BY <3>2, <1>4, <2>5, <2>1
  <2> QED
    BY <2>8, <2>9, <2>10
<1> QED
  BY <1>3, <1>4, <1>5

\* Joint search, which may choose anything, is no slower than pair search.
LEMMA ArmsStand == ProbeInv => WiderArmsAreNoSlower
<1> SUFFICES ASSUME ProbeInv, NEW p \in Probes, NEW b
             PROVE  LET s == file.cells
                        C == Candidates(s, p, b)
                        pair == PairSearch(s, C)
                        joint == JointSearch(s, C)
                    IN  /\ \A c \in LocalOnly(s, C) : \E d \in pair : s[d[1]][d[2]] <= s[c[1]][c[2]]
                        /\ \A c \in pair : \E d \in joint : s[d[1]][d[2]] <= s[c[1]][c[2]]
  BY DEF WiderArmsAreNoSlower
<1> DEFINE s == file.cells
           C == Candidates(s, p, b)
<1>1. IsScan(s, C)
  BY CandidatesScanned
<1>2. ASSUME NEW c \in PairSearch(s, C)
      PROVE  \E d \in JointSearch(s, C) : s[d[1]][d[2]] <= s[c[1]][c[2]]
  <2>1. c \in C
    BY <1>1, PairsAreChosen
  <2>2. PICK d \in Winner(s, C) : TRUE
    BY <1>1, <2>1, SomebodyWins
  <2>3. s[d[1]][d[2]] <= s[c[1]][c[2]]
    BY <1>1, <2>1, WinnersAreFastest
  <2> QED
    BY <2>3 DEF JointSearch
<1> QED
  BY <1>1, <1>2, PairsAreChosen

----------------------------------------------------------------------------
(* The theorems about the anchors *)

\* The invariant holds in every state the runner and the report reach.
THEOREM ProbeInvariance == Spec => []ProbeInv
  BY ProbeInit, ProbeNext, PTL DEF Spec

\* The list, the file and the report have their types, for every plan.
THEOREM ProbeTypeCorrect == Spec => []TypeOK
  BY ProbeInvariance, ProbeTypes, PTL

\* What is told of a probe was measured, for every plan, every set of latencies and
\* any number of restarts (stage1_s2_anchor_runner.py, the completion report and
\* the mini search): swaps have a twin and a database their own run has tuned, a
\* verdict has every cell and what the run measures later leaves it, and the arm
\* that may choose more is never told to be slower.
THEOREM ProbesAreHonest == Spec => []ProbeIsHonest
<1>1. ProbeInv => ProbeIsHonest
  BY TwinsStand, VerdictsStand, VerdictsLast, ArmsStand DEF ProbeIsHonest
<1> QED
  BY <1>1, ProbeInvariance, PTL

\* Of all steps only the last write leaves a torn file.
LEMMA TornStep ==
  ASSUME ProbeInv, [Next]_vars
  PROVE  file'.status = "torn" /\ file.status # "torn" => Len(cells) = Len(Plan)
<1>1. CASE OpenFinal
  BY <1>1 DEF OpenFinal
<1>2. CASE Publish
  BY <1>2 DEF Publish, Scan
<1>3. CASE WriteFinal
  BY <1>3 DEF WriteFinal, Scan
<1>4. CASE UNCHANGED file
  BY <1>4
<1> QED
  BY <1>1, <1>2, <1>3, <1>4 DEF Next, Measure, Crash, Restart, ReadScan, RenderReport, vars, Scan

\* Only the last write can tear the scan, for every plan and any number of crashes.
THEOREM LastWriteTears == Spec => OnlyTheLastWriteTears
<1>1. ProbeInv /\ [Next]_vars =>
        [file'.status = "torn" /\ file.status # "torn" => Len(cells) = Len(Plan)]_vars
  BY TornStep
<1> QED
  BY <1>1, ProbeInvariance, PTL DEF Spec, OnlyTheLastWriteTears

----------------------------------------------------------------------------
(* The reports of the coupling predictor *)

\* What a report of a manifest claims is known from some evidence: the guard does not
\* reject it, it lists what is blocked and what is open, and a separable verdict
\* rests on both measurements.
Grounded(r, man, seen) ==
  /\ ~Overpromoted(r)
  /\ SkipBlockers(man) \subseteq r.blockers
  /\ r.level \notin {"measured_schedule_coupling", "measured_s4_pair"} => PlanSteps(man) \subseteq r.steps
  /\ r.model = man.model
  /\ r.verdict \in SeparableVerdicts => HasAnchor(seen) /\ r.scope \notin FullModelScopes
  /\ r = [model |-> r.model, ckpt |-> r.ckpt, planCkpt |-> r.planCkpt, verdict |-> r.verdict, scope |-> r.scope,
          level |-> r.level, blockers |-> r.blockers, steps |-> r.steps, v0 |-> r.v0]
  /\ r.level \in {"measured_schedule_coupling", "measured_s4_pair"} => r.model = "fcooper"

\* A report is grounded if the fields it is built from are.
LEMMA ReportFields ==
  ASSUME NEW man, NEW verdict, NEW scope, NEW level, NEW blockers, NEW steps, NEW seen,
         SkipBlockers(man) \subseteq blockers,
         level # "measured_schedule_coupling" => PlanSteps(man) \subseteq steps,
         level = "measured_schedule_coupling" => man.model = "fcooper",
         level # "measured_s4_pair",
         verdict \in SeparableVerdicts => HasAnchor(seen) /\ scope \notin FullModelScopes
  PROVE  Grounded(Report(man, verdict, scope, level, blockers, steps), man, seen)
  BY DEF Grounded, Report, Overpromoted

\* Each rule of the predictor writes a grounded report.
LEMMA PredictionsGrounded ==
  ASSUME NEW man, NEW seen
  PROVE  Grounded(Predict(man, seen), man, seen)
<1> DEFINE open == SkipBlockers(man) \cup PlanBlockers(man)
           steps == Required(man.model) \cup PlanSteps(man)
<1>1. CASE man.model = "codriving" /\ HasAnchor(seen)
  <2>1. Predict(man, seen) = Report(man, "ANCHOR_PROBED_LOW_RISK", "codriving_envelope", "measured_negative_anchor",
                   open \cup {"scope_limited", "no_extrapolation"}, steps)
    BY <1>1, Zenon DEF Predict
  <2> QED
    BY <1>1, <2>1, ReportFields DEF FullModelScopes
<1>2. CASE man.model = "attfuse"
  <2>1. Predict(man, seen) = Report(man, "FUSION_UNCOVERED_UNKNOWN", "traced_dense", "uncovered", open \cup {"attention_fusion"}, steps)
    BY <1>2, Zenon DEF Predict
  <2> QED
    BY <1>2, <2>1, ReportFields DEF SeparableVerdicts
<1>3. CASE man.model = "v2xvit"
  <2>1. Predict(man, seen) = Report(man, "JOINT_OR_PAIR_SEARCH_REQUIRED", "full_model_gate_blocked",
                   IF "s3_v2xvit" \in seen THEN "fake_quant" ELSE "existing_cell",
                   open \cup {"attention_fusion", "routing_fusion", "qgranularity"}, steps)
    BY <1>3, Zenon DEF Predict
  <2> QED
    BY <1>3, <2>1, ReportFields DEF SeparableVerdicts
<1>4. CASE man.model = "pyramid"
  <2>1. Predict(man, seen) = Report(man, "P_HUB_CONTEXT_BLOCKS", "full_model_p_hub_context", "historical_trt",
                   open \cup {"p_hub"}, PyramidSteps(man, seen))
    BY <1>4, Zenon DEF Predict
  <2>2. PlanSteps(man) \subseteq PyramidSteps(man, seen)
    BY DEF PyramidSteps, PlanSteps, If
  <2> QED
    BY <1>4, <2>1, <2>2, ReportFields DEF SeparableVerdicts
<1>5. CASE man.model = "fcooper" /\ MaxFusionBound(man, seen)
  <2>1. Predict(man, seen) = Report(man, "LOW_CONFIDENCE", "full_model_schedule_coupling", "measured_schedule_coupling",
                   open \cup {"routing_fusion"}, {"routing_fusion", "s4_three_arm"})
    BY <1>5, Zenon DEF Predict
  <2> QED
    BY <1>5, <2>1, ReportFields DEF SeparableVerdicts
<1>6. CASE man.model = "fcooper" /\ ~MaxFusionBound(man, seen)
  <2>1. Predict(man, seen) = Report(man, "LOW_CONFIDENCE", "full_model_pending", "static_only", open \cup Required("fcooper"), steps)
    BY <1>6, Zenon DEF Predict
  <2> QED
    BY <1>6, <2>1, ReportFields DEF SeparableVerdicts
<1>7. CASE man.model \in {"codriving", "where2comm", "other"} /\ SkipBlockers(man) # {}
            /\ (man.model = "codriving" => ~HasAnchor(seen))
  <2>1. Predict(man, seen) = Report(man, "FUSION_UNCOVERED_UNKNOWN", "traced_dense", "uncovered", open, steps)
    BY <1>7, Zenon DEF Predict
  <2> QED
    BY <1>7, <2>1, ReportFields DEF SeparableVerdicts
<1>8. CASE /\ ~(man.model = "codriving" /\ HasAnchor(seen))
           /\ man.model \notin {"attfuse", "v2xvit", "pyramid", "fcooper"}
           /\ ~(man.model \in {"codriving", "where2comm", "other"} /\ SkipBlockers(man) # {}
                  /\ (man.model = "codriving" => ~HasAnchor(seen)))
  <2> DEFINE next == IF steps = {} THEN {"targeted_probe"} ELSE steps
  <2>1. Predict(man, seen) = Report(man, "LOW_CONFIDENCE", "traced_dense", "static_only", open \cup next, next)
    BY <1>8, Zenon DEF Predict
  <2>2. PlanSteps(man) \subseteq next
    OBVIOUS
  <2> HIDE DEF next
  <2> QED
    BY <1>8, <2>1, <2>2, ReportFields DEF SeparableVerdicts
<1> QED
  BY <1>1, <1>2, <1>3, <1>4, <1>5, <1>6, <1>7, <1>8

\* Each rule of the calibration keeps a report grounded.
LEMMA CalibrationsGrounded ==
  ASSUME NEW man, NEW seen, NEW base, Grounded(base, man, seen)
  PROVE  Grounded(Calibrate(base), man, seen)
<1>1. CASE base.model = "codriving"
  <2>1. Calibrate(base) = [base EXCEPT !.verdict = "SCOPED_NEGATIVE_ANCHOR", !.scope = "codriving_envelope",
                      !.level = "measured_existing_anchor"]
    BY <1>1, Zenon DEF Calibrate
  <2> QED
    BY <1>1, <2>1 DEF Grounded, Overpromoted, SeparableVerdicts
<1>2. CASE base.model = "fcooper"
  <2>1. Calibrate(base) =
         [base EXCEPT !.verdict = "PAIR_CALIBRATION_REQUIRED", !.scope = "full_model_gated_pair",
                      !.level = "measured_s4_pair", !.steps = (@ \ {"s4_three_arm"}) \cup {"s4_ap_or_hv"}]
    BY <1>2, Zenon DEF Calibrate
  <2> QED
    BY <1>2, <2>1 DEF Grounded, Overpromoted, SeparableVerdicts
<1>3. CASE base.model = "attfuse"
  <2>1. Calibrate(base) = [base EXCEPT !.verdict = "FUSION_UNCOVERED_BLOCKED", !.steps = @ \cup {"attention_fusion"}]
    BY <1>3, Zenon DEF Calibrate
  <2> QED
    BY <1>3, <2>1 DEF Grounded, Overpromoted, SeparableVerdicts
<1>4. CASE base.model = "v2xvit"
  <2>1. Calibrate(base) = [base EXCEPT !.verdict = "PAIR_OR_JOINT_GATE", !.level = "fake_quant"]
    BY <1>4, Zenon DEF Calibrate
  <2> QED
    BY <1>4, <2>1 DEF Grounded, Overpromoted, SeparableVerdicts
<1>5. CASE base.model = "pyramid"
  <2>1. Calibrate(base) = [base EXCEPT !.verdict = "P_HUB_CONTEXT_HISTORICAL", !.level = "historical_trt", !.steps = @ \ {"q_ap"}]
    BY <1>5, Zenon DEF Calibrate
  <2>2. "q_ap" \notin PlanSteps(man)
    BY DEF PlanSteps, If
  <2> QED
    BY <1>5, <2>1, <2>2 DEF Grounded, Overpromoted, SeparableVerdicts
<1>6. CASE base.model = "where2comm"
  <2>1. Calibrate(base) = [base EXCEPT !.verdict = "ARCHITECTURE_ONLY", !.level = "architecture_only"]
    BY <1>6, Zenon DEF Calibrate
  <2> QED
    BY <1>6, <2>1 DEF Grounded, Overpromoted, SeparableVerdicts
<1>7. CASE base.model \notin {"codriving", "fcooper", "attfuse", "v2xvit", "pyramid", "where2comm"}
  <2>1. Calibrate(base) = base
    BY <1>7, Zenon DEF Calibrate
  <2> QED
    BY <1>7, <2>1
<1> QED
  BY <1>1, <1>2, <1>3, <1>4, <1>5, <1>6, <1>7

\* The inductive invariant: both reports are grounded in the evidence of now.
ReportsInv ==
  /\ v0 # None => v0 = <<v0[1]>> /\ Grounded(v0[1], manifest, evidence)
  /\ v1 # None => v1 = <<v1[1]>> /\ Grounded(v1[1], manifest, evidence)

\* Evidence is only added, so a report stays grounded while it grows.
LEMMA MoreEvidence ==
  ASSUME NEW r, NEW man, NEW seen, NEW e, Grounded(r, man, seen)
  PROVE  Grounded(r, man, seen \cup {e})
  BY DEF Grounded, HasAnchor

\* A probe, the predictor and the calibration keep both reports grounded.
LEMMA ReportsNext == ReportsInv /\ [CouplingNext]_couplingVars => ReportsInv'
<1> SUFFICES ASSUME ReportsInv, [CouplingNext]_couplingVars PROVE ReportsInv'
  OBVIOUS
<1> USE DEF ReportsInv
<1>1. CASE \E e \in Evidence : Probe(e)
  <2>1. PICK e \in Evidence : Probe(e)
    BY <1>1
  <2>2. \A r : Grounded(r, manifest, evidence) => Grounded(r, manifest, evidence \cup {e})
    BY MoreEvidence
  <2> QED
    BY <2>1, <2>2 DEF Probe
<1>2. CASE WriteV0
  BY <1>2, PredictionsGrounded DEF WriteV0, None
<1>3. CASE WriteV1
  BY <1>3, CalibrationsGrounded DEF WriteV1, None
<1>4. CASE UNCHANGED couplingVars
  BY <1>4 DEF couplingVars
<1> QED
  BY <1>1, <1>2, <1>3, <1>4 DEF CouplingNext

\* A declared blocking skip survives the merge of the two lists of skips, unless the
\* adapter has an entry of the same name and type that does not block.
LEMMA BlockingSkipIsKept ==
  ASSUME NEW man, NEW item \in man.typed \cup PlanOf(man).skips, item.says = "blocks"
  PROVE  \/ GateOf(man.model, item.kind) \in SkipBlockers(man)
         \/ \E t \in man.typed : t.name = item.name /\ t.kind = item.kind /\ ~Typed(t).blocks
<1> DEFINE first == {Typed(t) : t \in man.typed}  second == {Typed(t) : t \in PlanOf(man).skips}
<1>1. first \subseteq Skips(man) /\ Behind(first, second) \subseteq Skips(man)
  BY DEF Skips, Behind
<1>2. \A t : Typed(t).name = t.name /\ Typed(t).kind = t.kind
  BY DEF Typed
<1>3. Typed(item).blocks
  BY DEF Typed
<1>4. CASE item \in man.typed
  <2>1. Typed(item) \in Skips(man)
    BY <1>1, <1>4
  <2> QED
    BY <1>2, <1>3, <2>1 DEF SkipBlockers
<1>5. CASE item \in PlanOf(man).skips
  <2>1. CASE \A f \in first : <<f.name, f.kind>> # <<item.name, item.kind>>
    <3>1. Typed(item) \in Skips(man)
      BY <1>1, <1>2, <1>5, <2>1 DEF Behind
    <3> QED
      BY <1>2, <1>3, <3>1 DEF SkipBlockers
  <2>2. CASE \E f \in first : <<f.name, f.kind>> = <<item.name, item.kind>>
    <3>1. PICK t \in man.typed : t.name = item.name /\ t.kind = item.kind
      BY <1>2, <2>2
    <3>2. Typed(t) \in Skips(man) /\ Typed(t).kind = item.kind
      BY <1>1, <1>2, <3>1
    <3>3. CASE Typed(t).blocks
      BY <3>2, <3>3 DEF SkipBlockers
    <3> QED
      BY <3>1, <3>3
  <2> QED
    BY <2>1, <2>2
<1> QED
  BY <1>4, <1>5

\* Grounded reports claim only what is known.
LEMMA ReportsStand == ReportsInv => ReportsAreGrounded
<1> SUFFICES ASSUME ReportsInv PROVE ReportsAreGrounded
  OBVIOUS
<1>1. \A r \in {v0, v1} \ {None} : Grounded(r[1], manifest, evidence)
  BY DEF ReportsInv
<1>2. SeparableIsMeasured
  BY <1>1 DEF SeparableIsMeasured, Grounded, HasAnchor
<1>3. BlockingSkipStaysBlocked
  BY <1>1, BlockingSkipIsKept DEF BlockingSkipStaysBlocked, Grounded
<1>4. OpenPlanHasItsStep
  BY <1>1 DEF OpenPlanHasItsStep, Grounded
<1> QED
  BY <1>2, <1>3, <1>4 DEF ReportsAreGrounded

\* Both reports claim what is known, for every set of manifests and every evidence, and
\* however old the report is that the calibration reads (coupling_predictor.py,
\* calibrated_predictor.py).
THEOREM ReportsGrounded == CouplingSpec => []ReportsAreGrounded
<1>1. CouplingInit => ReportsInv
  BY DEF CouplingInit, ReportsInv
<1> QED
  BY <1>1, ReportsNext, ReportsStand, PTL DEF CouplingSpec
=============================================================================
