-------------------------- MODULE NestedSelection --------------------------
(***************************************************************************)
(* Stage4 cost-model selection: nested grouped cross-validation.  For each *)
(* target, every outer fold scores the candidates on inner folds of its    *)
(* training rows, fits the best one on all of them, and predicts its test  *)
(* rows.  Rows are positions 1..Len(RowGroup) of the measurement table; a   *)
(* fold holds positions of the row list it was made from, as the index     *)
(* arrays of the code do.  Scores and labels are small numbers.            *)
(***************************************************************************)
EXTENDS Integers, Sequences, FiniteSets, Functions, FiniteSetsExt

CONSTANTS
  TargetOrder,  \* Seq: TARGETS, in the order they are scored
  Requested,    \* Seq of [name, encoding]: the requested candidates
  RowGroup,     \* Seq of groups: the group_id of each measurement
  Faults,       \* what the caller may have got wrong in the inputs
  OuterSplits, InnerSplits,
  Scores        \* mean inner selection scores to consider

Rows == DOMAIN RowGroup
AllRows == [j \in Rows |-> j]
MeasuredGroups == Range(RowGroup)
InputFaults == {"none", "context", "labels", "unmeasured", "negative", "splits"}

ASSUME NestedAssumption ==
  /\ TargetOrder \in Seq(STRING) /\ TargetOrder # <<>>
  /\ Requested \in Seq([name : STRING, encoding : {"raw", "log", "residual"}])
  /\ RowGroup \in Seq(MeasuredGroups) /\ RowGroup # <<>>
  /\ Faults \subseteq InputFaults
  /\ OuterSplits \in Nat /\ InnerSplits \in Nat \ {0}
  /\ Scores \subseteq Nat

VARIABLES
  fault,      \* what is wrong with the inputs
  phase,      \* where run_nested_selection stands
  target, fold, candidate, innerFold, \* the loop indices
  outer,      \* outer_folds
  inner,      \* inner folds of the current outer fold
  scores,     \* candidate_scores of the current outer fold
  oof,        \* oof_predictions of the current target
  picked,     \* Seq of the candidates selected so far for the current target
  counts,     \* selected_candidate_counts of the finished targets
  fits,       \* history: every fit of the current target
  interval    \* a quantile interval: <<>> or <<lower, median, upper>>

nestedVars == <<fault, phase, target, fold, candidate, innerFold, outer, inner, scores, oof, picked,
                counts, fits, interval>>

----------------------------------------------------------------------------
(* Folds, candidates and seeds *)

GroupsOf(rows) == {RowGroup[j] : j \in Range(rows)}

\* GroupKFold with shuffle: the permuted groups cut into n runs whose sizes
\* differ by at most one, the longer ones first
Splits(groups, n) ==
  LET size(k) == (Cardinality(groups) \div n)
                   + (IF k < Cardinality(groups) % n THEN 1 ELSE 0)
  IN {f \in [groups -> 0 .. n - 1] :
        \A k \in 0 .. n - 1 : Cardinality({g \in groups : f[g] = k}) = size(k)}

Splittable(rows, n) == n >= 2 /\ n <= Cardinality(GroupsOf(rows))

\* the elements of a finite set of numbers, the smallest first
Ascending(S) ==
  [k \in 1 .. Cardinality(S) |-> CHOOSE s \in S : Cardinality({x \in S : x <= s}) = k]

\* the folds of a row list: positions in that list
GroupedFolds(rows, n) ==
  LET Held(f, k) == {p \in DOMAIN rows : f[RowGroup[rows[p]]] = k - 1}
  IN {[k \in 1 .. n |-> [train |-> Ascending(DOMAIN rows \ Held(f, k)), test |-> Ascending(Held(f, k))]] :
        f \in Splits(GroupsOf(rows), n)}

\* Mutated form: the positions of an inner fold are taken for table rows.
AsTableRows(rows, positions) == positions

\* [train_indices[index] for index in fold.train_indices]
RowsAt(rows, positions) == [p \in DOMAIN positions |-> rows[positions[p]]]

\* the residual heads are for ap70 only, the log heads for the others only
CandidateNames(of) ==
  LET apply == Ascending({k \in DOMAIN Requested :
                            Requested[k].encoding # (IF of = "ap70" THEN "log" ELSE "residual")})
  IN [k \in DOMAIN apply |-> Requested[apply[k]]]

\* the offset from the caller's seed
DeriveSeed(purpose, outerIndex, candidateIndex, innerIndex) ==
  IF purpose = "inner" THEN outerIndex + 1
  ELSE IF purpose = "outer_fit" THEN 1000 + outerIndex
  ELSE 100 * outerIndex + 10 * candidateIndex + innerIndex

Fit(purpose, candidateIndex, innerIndex, train, test) ==
  [purpose |-> purpose, outer |-> fold, candidate |-> candidateIndex, inner |-> innerIndex,
   seed |-> DeriveSeed(purpose, fold, candidateIndex, innerIndex),
   train |-> Range(train), test |-> Range(test)]

\* log1p of a negative label: row 1 has one when that is the fault
CanFit(model, train) ==
  ~(fault = "negative" /\ model.encoding = "log" /\ 1 \in Range(train))

\* min(candidate_scores, key=...): the first of the smallest
BestCandidate(sc) ==
  CHOOSE k \in DOMAIN sc :
    /\ \A l \in DOMAIN sc : sc[k] <= sc[l]
    /\ \A l \in 1 .. k - 1 : sc[l] > sc[k]

\* np.sort of the three quantile predictions of a row
QuantileInterval(raw) ==
  CHOOSE s \in [1 .. 3 -> Range(raw)] :
    /\ s[1] <= s[2] /\ s[2] <= s[3]
    /\ \E p \in [1 .. 3 -> 1 .. 3] : Range(p) = 1 .. 3 /\ \A k \in 1 .. 3 : s[k] = raw[p[k]]

----------------------------------------------------------------------------
NestedInit ==
  /\ fault \in Faults
  /\ phase = "encode" /\ target = 1 /\ fold = 0 /\ candidate = 1 /\ innerFold = 1
  /\ outer = <<>> /\ inner = <<>> /\ scores = <<>> /\ oof = <<>> /\ picked = <<>>
  /\ counts = <<>> /\ fits = {} /\ interval = <<>>

Names == CandidateNames(TargetOrder[target])
Outer == outer[fold + 1]
TrainRows == RowsAt(AllRows, Outer.train)
TestRows == RowsAt(AllRows, Outer.test)

Raise ==
  /\ phase' = "raised"
  /\ UNCHANGED <<fault, target, fold, candidate, innerFold, outer,
                 inner, scores, oof, picked, counts, fits, interval>>

\* encode_rows and _validate_training_targets: a missing or label-like
\* context, or a measurement without a finite label
Encode ==
  /\ phase = "encode"
  /\ IF fault \in {"context", "labels", "unmeasured"} THEN Raise
     ELSE /\ phase' = "outer"
          /\ UNCHANGED <<fault, target, fold, candidate, innerFold, outer, inner,
                         scores, oof, picked, counts, fits, interval>>

\* the caller may ask for more folds than there are groups
SplitOuter ==
  /\ phase = "outer"
  /\ IF ~Splittable(AllRows, IF fault = "splits" THEN Cardinality(MeasuredGroups) + 1 ELSE OuterSplits)
     THEN Raise
     ELSE /\ outer' \in GroupedFolds(AllRows, OuterSplits)
          /\ phase' = "inner"
          /\ UNCHANGED <<fault, target, fold, candidate, innerFold, inner,
                         scores, oof, picked, counts, fits, interval>>

InnerCount == Min({InnerSplits, Cardinality(GroupsOf(TrainRows))})

SplitInner ==
  /\ phase = "inner"
  /\ IF Names = <<>> \/ ~Splittable(TrainRows, InnerCount) THEN Raise
     ELSE /\ inner' \in GroupedFolds(TrainRows, InnerCount)
          /\ phase' = "score" /\ candidate' = 1 /\ innerFold' = 1 /\ scores' = <<>>
          /\ UNCHANGED <<fault, target, fold, outer, oof, picked, counts, fits, interval>>

\* one candidate on one inner fold; after the last one, its mean score
ScoreFold ==
  /\ phase = "score" /\ candidate <= Len(Names)
  /\ LET train == RowsAt(TrainRows, inner[innerFold].train)
         test == RowsAt(TrainRows, inner[innerFold].test)
     IN IF ~CanFit(Names[candidate], train) THEN Raise
        ELSE /\ fits' = fits \cup {Fit("candidate", candidate - 1, innerFold - 1, train, test)}
             /\ IF innerFold < Len(inner)
                THEN innerFold' = innerFold + 1 /\ UNCHANGED <<candidate, scores>>
                ELSE /\ innerFold' = 1 /\ candidate' = candidate + 1
                     /\ \E s \in Scores : scores' = Append(scores, s)
             /\ UNCHANGED <<fault, phase, target, fold, outer, inner, oof,
                            picked, counts, interval>>

\* the selected candidate on the whole outer fold
FitOuter ==
  /\ phase = "score" /\ candidate > Len(Names)
  /\ LET best == BestCandidate(scores) IN
     IF ~CanFit(Names[best], TrainRows) THEN Raise
     ELSE /\ fits' = fits \cup {Fit("outer_fit", 0, 0, TrainRows, TestRows)}
          /\ picked' = Append(picked, Names[best].name)
          /\ oof' = oof \o [p \in DOMAIN TestRows |-> [row |-> TestRows[p], fold |-> fold]]
          /\ fold' = fold + 1
          /\ phase' = IF fold + 1 < Len(outer) THEN "inner" ELSE "report"
          /\ UNCHANGED <<fault, target, candidate, innerFold, outer, inner,
                         scores, counts, interval>>

\* {name: sum(fold["selected_candidate"] == name ...) for name in candidate_names}
SelectedCounts(names, chosen) ==
  [n \in {names[k].name : k \in DOMAIN names} |-> Cardinality({f \in DOMAIN chosen : chosen[f] = n})]

\* target_reports[target]; the next target starts on the same outer folds
ReportTarget ==
  /\ phase = "report"
  /\ counts' = Append(counts, SelectedCounts(Names, picked))
  /\ IF target < Len(TargetOrder)
     THEN /\ target' = target + 1 /\ fold' = 0 /\ oof' = <<>> /\ picked' = <<>> /\ fits' = {}
          /\ phase' = "inner"
     ELSE phase' = "done" /\ UNCHANGED <<target, fold, oof, picked, fits>>
  /\ UNCHANGED <<fault, candidate, innerFold, outer, inner, scores, interval>>

\* fit_predict_quantile_interval: three quantile fits of one row
Interval ==
  /\ phase = "done" /\ interval = <<>>
  /\ \E raw \in [1 .. 3 -> 1 .. 3] : interval' = QuantileInterval(raw)
  /\ UNCHANGED <<fault, phase, target, fold, candidate, innerFold, outer, inner,
                 scores, oof, picked, counts, fits>>

NestedNext == Encode \/ SplitOuter \/ SplitInner \/ ScoreFold \/ FitOuter \/ ReportTarget \/ Interval

NestedSpec == NestedInit /\ [][NestedNext]_nestedVars

----------------------------------------------------------------------------
(* Properties *)

\* Every variable has its type: an outer fold is picked once, and an index
\* never passes the end of what it walks.
NestedTypeOK ==
  /\ fault \in InputFaults
  /\ phase \in {"encode", "outer", "inner", "score", "report", "done", "raised"}
  /\ target \in DOMAIN TargetOrder /\ fold \in 0 .. OuterSplits
  /\ candidate \in Nat \ {0} /\ innerFold \in 1 .. InnerSplits
  /\ scores \in Seq(Scores) /\ picked \in Seq(STRING) /\ Len(picked) = fold
  /\ oof \in Seq([row : Rows, fold : 0 .. OuterSplits - 1])
  /\ phase = "score" => /\ candidate <= Len(Names) + 1 /\ Len(scores) = candidate - 1
                        /\ innerFold <= Len(inner)
  /\ \A k \in DOMAIN counts : counts[k] \in [DOMAIN counts[k] -> Nat]

\* No model sees a group it is judged on: a fit's rows and the rows it
\* predicts share no group, and choosing a candidate for an outer fold uses
\* no row of that fold's test groups.
NoTestRowIsFit ==
  \A f \in fits :
    LET TestGroups == {RowGroup[j] : j \in Range(outer[f.outer + 1].test)}
    IN /\ {RowGroup[j] : j \in f.train} \cap {RowGroup[j] : j \in f.test} = {}
       /\ f.purpose = "candidate" => {RowGroup[j] : j \in f.train \cup f.test} \cap TestGroups = {}

\* The out-of-fold predictions of a finished target hold every measurement
\* exactly once, made by the fold whose test rows it is among.
EachRowIsPredictedOnce ==
  /\ \A p, q \in DOMAIN oof : oof[p].row = oof[q].row => p = q
  /\ \A p \in DOMAIN oof : oof[p].row \in Range(RowsAt(AllRows, outer[oof[p].fold + 1].test))
  /\ phase \in {"report", "done"} => {oof[p].row : p \in DOMAIN oof} = Rows

\* What the seed schedule has room for: ten inner folds and ten candidates
\* within the hundred seeds of an outer fold, ten outer folds below the seeds
\* of the outer fits.  The code does not check it; its defaults are 5, 3 and 8.
SeedRangesHold ==
  /\ OuterSplits <= 10 /\ InnerSplits <= 10
  /\ \A k \in DOMAIN TargetOrder : Len(CandidateNames(TargetOrder[k])) <= 10

\* Two different fits of a target never draw the same random seed.
SeedsAreDisjoint ==
  \A f, g \in fits :
    f.seed = g.seed => <<f.purpose, f.outer, f.candidate, f.inner>> = <<g.purpose, g.outer, g.candidate, g.inner>>

\* Every outer fold of a finished target elected one of the counted
\* candidates, the counts are of those elections, and the head they elect was
\* the best of at least one fold.
CountsAddUp ==
  \A k \in DOMAIN counts :
    /\ \E elected \in [1 .. OuterSplits -> DOMAIN counts[k]] :
         \A n \in DOMAIN counts[k] : counts[k][n] = Cardinality({x \in 1 .. OuterSplits : elected[x] = n})
    /\ k = target /\ phase = "done" =>
         \A n \in DOMAIN counts[k] :
           (\A m \in DOMAIN counts[k] : counts[k][m] <= counts[k][n]) => n \in Range(picked)

\* Quantile fits may cross; the interval that is reported does not.
IntervalIsOrdered ==
  interval # <<>> => interval[1] <= interval[2] /\ interval[2] <= interval[3]

\* A nested selection is honest: nothing is judged on what it learned from or predicted twice, no
\* two fits share a seed, and what is reported adds up.
NestedIsHonest ==
  NoTestRowIsFit /\ EachRowIsPredictedOnce /\ SeedsAreDisjoint /\ CountsAddUp /\ IntervalIsOrdered

\* Every count of the report is positive, as the closure audit that reads it
\* asserts of a candidate selection.
CountsArePositive == fault = "none" => \A k \in DOMAIN counts : \A n \in DOMAIN counts[k] : counts[k][n] > 0
=============================================================================
