------------------------- MODULE AcquisitionReplay -------------------------
(***************************************************************************)
(* The Stage4 modules that say which groups to measure next: the ranking   *)
(* and Pareto report over predicted candidates, the uncertainty replay     *)
(* over per-group predictions, and the selection completion that accepts   *)
(* or refuses a manifest of folds and selected rows.  A candidate is a     *)
(* pair <<group, arm>> of numbers, ordered as its id is.                   *)
(***************************************************************************)
EXTENDS Integers, Sequences, FiniteSets, Functions, FiniteSetsExt, SequencesExt

CONSTANTS
  Groups,       \* the candidate groups, numbers
  Arms,         \* the public backend and precision arms, numbers
  Forecasts,    \* predictions to consider: [latency, energy, ap70, uncertainty]
  Arrivals,     \* orders in which the candidates may arrive
  Weightings,   \* weights to consider
  FoldIds,      \* FOLD_IDS of the uncertainty replay
  Bindings,     \* replay manifests to consider: Seq of [fold, oof, candidate]
  Manifests     \* selection manifests to consider: Seq of folds

ReplayAssumption == Groups \subseteq Nat /\ Arms \subseteq Nat /\ Groups # {}

Candidates == Groups \X Arms
None == <<>>

VARIABLES
  forecast,  \* the predictions: [Candidates -> Forecasts]
  arrival,   \* the order of the candidate records
  weights,   \* the utility weights
  ranking,   \* the ranking report: [ranked, frontier] or None
  binding,   \* the replay manifest: Seq of [fold, oof, candidate]
  replay,    \* the replay report: [status, frontier]
  manifest,  \* the selection manifest
  completion \* the completion report: [status, armCounts]

vars == <<forecast, arrival, weights, ranking, binding, replay, manifest, completion>>

----------------------------------------------------------------------------
(* ranking_pareto_v1 *)

NoWorse(x, y) ==
  x.latency <= y.latency /\ x.energy <= y.energy /\ x.ap70 >= y.ap70 /\ x.uncertainty <= y.uncertainty

Dominates(x, y) ==
  /\ NoWorse(x, y)
  /\ x.latency < y.latency \/ x.energy < y.energy \/ x.ap70 > y.ap70 \/ x.uncertainty < y.uncertainty

Utility(f, w) ==
  w.ap70 * f.ap70 - w.latency * f.latency - w.energy * f.energy - w.uncertainty * f.uncertainty

Frontier(fc) == {x \in Candidates : \A y \in Candidates \ {x} : ~Dominates(fc[y], fc[x])}

\* candidate_id: the group, then the arm
IdBefore(x, y) == x[1] < y[1] \/ (x[1] = y[1] /\ x[2] < y[2])

\* Mutated form: equals stay in the order of arrival.
ArrivalKeyBefore(front, value, x, y) ==
  IF (x \in front) # (y \in front) THEN x \in front ELSE value[x] > value[y]

\* the sort key: frontier first, then utility, then the id
KeyBefore(front, value, x, y) ==
  IF (x \in front) # (y \in front) THEN x \in front
  ELSE IF value[x] # value[y] THEN value[x] > value[y]
  ELSE IdBefore(x, y)

\* a stable sort: an equal later element stays behind
Insert(sorted, x, front, value) ==
  LET k == Cardinality({p \in DOMAIN sorted : ~KeyBefore(front, value, x, sorted[p])})
  IN SubSeq(sorted, 1, k) \o <<x>> \o SubSeq(sorted, k + 1, Len(sorted))

Ranked(order, fc, w) ==
  LET front == Frontier(fc)
      value == [x \in Candidates |-> Utility(fc[x], w)]
  IN FoldLeft(LAMBDA sorted, x : Insert(sorted, x, front, value), <<>>, order)

----------------------------------------------------------------------------
(* uncertainty_replay_v1 *)

\* _manifest_bindings: every fold once, no group on both sides
BindingValid(b) ==
  /\ {b[k].fold : k \in DOMAIN b} = FoldIds
  /\ \A k, l \in DOMAIN b : k # l => b[k].oof # b[l].oof /\ b[k].candidate # b[l].candidate
  /\ {b[k].oof : k \in DOMAIN b} \cap {b[k].candidate : k \in DOMAIN b} = {}

Best(fc, g) ==
  [latency |-> Min({fc[<<g, a>>].latency : a \in Arms}),
   energy |-> Min({fc[<<g, a>>].energy : a \in Arms}),
   ap70 |-> Max({fc[<<g, a>>].ap70 : a \in Arms}),
   uncertainty |-> 0]

Beaten(best, g) ==
  \E h \in DOMAIN best \ {g} : NoWorse(best[h], best[g]) /\ best[h] # best[g]

\* _frontier_group_count: the groups whose best arms nobody beats
GroupFrontier(fc) ==
  LET best == [g \in Groups |-> Best(fc, g)] IN {g \in Groups : ~Beaten(best, g)}

----------------------------------------------------------------------------
(* selection_completion_v1 *)

\* _validate_folds: the folds partition the groups, and each selects exactly
\* one row of each of its groups
FoldsValid(folds) ==
  /\ folds # <<>> /\ Len(folds) <= Cardinality(Groups)
  /\ \A k \in DOMAIN folds :
       LET f == folds[k] IN
         /\ f.groups # <<>> /\ Len(f.groups) = Len(f.selected) /\ IsInjective(f.groups)
         /\ IsInjective(f.selected) /\ Range(f.selected) \subseteq Candidates
         /\ {x[1] : x \in Range(f.selected)} = Range(f.groups)
  /\ \A k, l \in DOMAIN folds : k # l =>
       /\ folds[k].id # folds[l].id
       /\ Range(folds[k].groups) \cap Range(folds[l].groups) = {}
  /\ UNION {Range(folds[k].groups) : k \in DOMAIN folds} = Groups

\* selected_arm_counts, over every selected row
ArmCounts(folds) ==
  [a \in Arms |->
     Cardinality({<<k, p>> \in (DOMAIN folds) \X (1 .. Cardinality(Groups)) :
       p <= Len(folds[k].selected) /\ folds[k].selected[p][2] = a})]

----------------------------------------------------------------------------
Init ==
  /\ forecast \in [Candidates -> Forecasts]
  /\ arrival \in Arrivals
  /\ weights \in Weightings
  /\ binding \in Bindings
  /\ manifest \in Manifests
  /\ ranking = None /\ replay = [status |-> "none"] /\ completion = [status |-> "none"]

\* build_stage4_ranking_pareto_report
Rank ==
  /\ ranking = None
  /\ ranking' = [ranked |-> Ranked(arrival, forecast, weights), frontier |-> Frontier(forecast)]
  /\ UNCHANGED <<forecast, arrival, weights, binding, replay, manifest, completion>>

\* build_uncertainty_replay
Replay ==
  /\ replay.status = "none"
  /\ replay' = IF BindingValid(binding) THEN [status |-> "built", frontier |-> GroupFrontier(forecast)]
               ELSE [status |-> "rejected"]
  /\ UNCHANGED <<forecast, arrival, weights, ranking, binding, manifest, completion>>

\* build_selection_completion_report
Complete ==
  /\ completion.status = "none"
  /\ completion' = IF FoldsValid(manifest) THEN [status |-> "built", armCounts |-> ArmCounts(manifest)]
                   ELSE [status |-> "rejected"]
  /\ UNCHANGED <<forecast, arrival, weights, ranking, binding, replay, manifest>>

Next == Rank \/ Replay \/ Complete

Spec == Init /\ [][Next]_vars

----------------------------------------------------------------------------
(* Properties *)

\* A report ranks every candidate once, whoever is on the frontier before
\* whoever is not.
TypeOK ==
  /\ ranking # None =>
       /\ Len(ranking.ranked) = Cardinality(Candidates) /\ Range(ranking.ranked) = Candidates
       /\ \A p \in DOMAIN ranking.ranked :
            (ranking.ranked[p] \in ranking.frontier) = (p <= Cardinality(ranking.frontier))
  /\ replay.status \in {"none", "built", "rejected"}
  /\ completion.status \in {"none", "built", "rejected"}

\* A candidate left off the frontier is dominated by one that is on it: no
\* chain of dominations ends outside.
FrontierCoversAll ==
  ranking # None =>
    \A x \in Candidates \ ranking.frontier : \E y \in ranking.frontier : Dominates(forecast[y], forecast[x])

\* Putting the frontier first never costs utility: the first candidate of the
\* ranking has the greatest utility of all, whatever the weights.
FirstIsBestOfAll ==
  ranking # None =>
    \A x \in Candidates : Utility(forecast[ranking.ranked[1]], weights) >= Utility(forecast[x], weights)

\* The ranking does not depend on the order the candidates arrive in.
RankIgnoresArrival ==
  ranking # None => \A order \in Arrivals : Ranked(order, forecast, weights) = ranking.ranked

\* The replay's frontier is never empty, and a group off it is beaten by one
\* on it; groups with equal bests are on it together.
GroupFrontierCovers ==
  replay.status = "built" =>
    LET best == [g \in Groups |-> Best(forecast, g)] IN
      /\ replay.frontier # {}
      /\ \A g \in Groups \ replay.frontier : \E h \in replay.frontier : NoWorse(best[h], best[g])
      /\ \A g, h \in Groups : best[g] = best[h] => (g \in replay.frontier) = (h \in replay.frontier)

\* No group the intervals are calibrated on, in any fold, is among those the
\* replay ranks without labels.
CalibratedIsNotRanked ==
  replay.status = "built" =>
    \A k, l \in DOMAIN binding : binding[k].oof # binding[l].candidate

\* An accepted manifest selects exactly one row of every candidate group, so
\* its arm counts add up to the number of groups.
SelectionIsWhole ==
  LET Selected == UNION {Range(manifest[k].selected) : k \in DOMAIN manifest} IN
  completion.status = "built" =>
    /\ \A g \in Groups : Cardinality({x \in Selected : x[1] = g}) = 1
    /\ MapThenSumSet(LAMBDA a : completion.armCounts[a], Arms) = Cardinality(Groups)

\* What is acquired is the best by its definition: frontiers cover what they leave out, ranks do
\* not depend on the order of arrival, and no group is ranked, or selected, twice or too early.
AcquisitionIsSound ==
  /\ FrontierCoversAll /\ FirstIsBestOfAll /\ RankIgnoresArrival /\ GroupFrontierCovers
  /\ CalibratedIsNotRanked /\ SelectionIsWhole
=============================================================================
