--------------------------- MODULE AblationScoring ---------------------------
(***************************************************************************)
(* The scoring kernel of the ablation search: the archive of an arm, its   *)
(* hypervolume and convergence curve, the ranking and truncation of a      *)
(* population, and what run_b4_ablation.py reports of two arms.            *)
(*                                                                         *)
(* Objectives are minimized and are pairs <<latency, -accuracy>>; the      *)
(* arrays of the code are sequences, so that the order of equals is kept.  *)
(***************************************************************************)
EXTENDS Integers, Sequences, FiniteSets, Functions, FiniteSetsExt, SequencesExt

CONSTANTS
  Points,     \* the (width, schedule) pairs of the space: records
  Tables,     \* the latency tables to consider: functions from Points to Nat
  AP,         \* [Points -> Nat]: the accuracy, which depends on the width
  Reference,  \* hv_ref: the nadir the hypervolume is measured from
  MaxEvals    \* bound: evaluations of one arm

Compared == {"joint", "serial"}

ScoringAssumption ==
  /\ MaxEvals \in Nat
  /\ Reference[1] \in Int /\ Reference[2] \in Int

VARIABLES
  latency,  \* the latency table
  visited,  \* [Compared -> Seq(Points)]: eval_log
  convLog   \* [Compared -> Seq(Nat)]: conv_log, the hypervolume after n evaluations

vars == <<latency, visited, convLog>>

Objective(p) == <<latency[p], -AP[p]>>
Objectives(log) == [i \in DOMAIN log |-> Objective(log[i])]

----------------------------------------------------------------------------
(* Pareto order and hypervolume *)

Dominates(a, b) == a[1] <= b[1] /\ a[2] <= b[2] /\ (a[1] < b[1] \/ a[2] < b[2])

NondominatedIdx(objs) ==
  {i \in DOMAIN objs : \A j \in DOMAIN objs \ {i} : ~Dominates(objs[j], objs[i])}

\* the order by one objective, equals in the order of the array
Before(objs, m, i, j) == objs[i][m] < objs[j][m] \/ (objs[i][m] = objs[j][m] /\ i < j)

\* the place of an index of S in that order, from 0, and the index at a place
Place(objs, S, m, i) == Cardinality({j \in S : Before(objs, m, j, i)})
InPlace(objs, S, m, k) == CHOOSE i \in S : Place(objs, S, m, i) = k

\* the staircase below a front: the strip between a point and its right
\* neighbour, the reference point being the last one's
Strip(objs, front, i) ==
  LET k     == Place(objs, front, 1, i)
      right == IF k = Cardinality(front) - 1 THEN Reference[1] ELSE objs[InPlace(objs, front, 1, k + 1)][1]
  IN  (right - objs[i][1]) * (Reference[2] - objs[i][2])

Hypervolume(objs) ==
  LET inside == {i \in NondominatedIdx(objs) :
                   objs[i][1] < Reference[1] /\ objs[i][2] < Reference[2]}
  IN  MapThenSumSet(LAMBDA i : Strip(objs, inside, i), inside)

----------------------------------------------------------------------------
(* Fronts by domination counts, and crowding *)

\* Mutated form: a point joins with the first of its dominators.
SortByFirstDominator(objs) ==
  LET S(p) == {q \in DOMAIN objs \ {p} : Dominates(objs[p], objs[q])}
      joined(before) == {q \in DOMAIN objs : \A p \in DOMAIN objs : q \in S(p) => before # {}}
  IN  FoldLeft(LAMBDA outer, o : Append(outer, joined(Last(outer))), <<{}>>, objs)

\* Element k + 1 is the union of the first k fronts: a point joins when it
\* has lost its last dominator to them.
FastNondominatedSort(objs) ==
  LET S(p)    == {q \in DOMAIN objs \ {p} : Dominates(objs[p], objs[q])}
      ndom(q) == Cardinality({p \in DOMAIN objs : q \in S(p)})
      joined(before) ==
        {q \in DOMAIN objs : ndom(q) = Cardinality({p \in before : q \in S(p)})}
  IN  FoldLeft(LAMBDA outer, o : Append(outer, joined(Last(outer))), <<{}>>, objs)

\* The crowding distance of i in its front, scaled by the two spans so that
\* it stays whole; -1 stands for infinity.
CrowdingDistance(objs, front, i) ==
  LET n          == Cardinality(front)
      place(m)   == Place(objs, front, m, i)
      value(m, k) == objs[InPlace(objs, front, m, k)][m]
      span(m)    == LET d == value(m, n - 1) - value(m, 0) IN IF d = 0 THEN 1 ELSE d
      gap(m)     == value(m, place(m) + 1) - value(m, place(m) - 1)
  IN  IF n <= 2 \/ \E m \in {1, 2} : place(m) \in {0, n - 1} THEN -1
      ELSE gap(1) * span(2) + gap(2) * span(1)

\* what is kept of a front that does not fit: the least crowded, equals in
\* the order of the array
Truncate(objs, front, room) ==
  LET cds == {<<i, CrowdingDistance(objs, front, i)>> : i \in front}
      earlier(b, a) == \/ b[2] = -1 /\ a[2] # -1
                       \/ b[2] # -1 /\ a[2] # -1 /\ b[2] > a[2]
                       \/ b[2] = a[2] /\ b[1] < a[1]
  IN  {a[1] : a \in {c \in cds : Cardinality({b \in cds : earlier(b, c)}) < room}}

----------------------------------------------------------------------------
(* What the report compares *)

\* the best latency at an accuracy, or at least at it; {} when there is none
BestAt(log, v, threshold) ==
  LET hits == {q \in ToSet(log) : IF threshold THEN AP[q] >= v ELSE AP[q] = v}
  IN  IF hits = {} THEN {} ELSE {Min({latency[p] : p \in hits})}

\* a curve carried forward over evaluations 1 .. n
Carried(log, n) ==
  [k \in 1 .. n |-> IF log = <<>> THEN 0 ELSE log[IF k <= Len(log) THEN k ELSE Len(log)]]

\* the sums of the curves (the mean curve, times the number of arms)
AggregateConvergence ==
  LET n == Max({Len(convLog[a]) : a \in Compared})
  IN  [k \in 1 .. n |-> Carried(convLog["joint"], n)[k] + Carried(convLog["serial"], n)[k]]

\* twice the average rank of each element
RankData(x) ==
  [i \in DOMAIN x |->
     LET below == Cardinality({j \in DOMAIN x : x[j] < x[i]})
         equal == Cardinality({j \in DOMAIN x : x[j] = x[i]})
     IN  2 * below + equal + 1]

----------------------------------------------------------------------------
Init ==
  /\ latency \in Tables
  /\ visited = [a \in Compared |-> <<>>]
  /\ convLog = [a \in Compared |-> <<>>]

\* An evaluation that is not in the cache: logged, and its hypervolume noted.
Evaluate(a, p) ==
  /\ p \notin ToSet(visited[a]) /\ Len(visited[a]) < MaxEvals
  /\ visited' = [visited EXCEPT ![a] = Append(@, p)]
  /\ convLog' = [convLog EXCEPT ![a] = Append(@, Hypervolume(Objectives(Append(visited[a], p))))]
  /\ UNCHANGED latency

Next == \E a \in Compared, p \in Points : Evaluate(a, p)

Spec == Init /\ [][Next]_vars

----------------------------------------------------------------------------
(* Properties *)

\* The logs of an arm have one length, and its points are those of the space.
TypeOK ==
  /\ latency \in Tables
  /\ \A a \in Compared : /\ ToSet(visited[a]) \subseteq Points
                     /\ Len(convLog[a]) = Len(visited[a])
                     /\ \A i \in DOMAIN convLog[a] : convLog[a][i] \in Nat

\* both arms' archives in one array: points of equal objectives occur twice
Union == Objectives(visited["joint"] \o visited["serial"])

\* The unit cells below the reference point that some point dominates.
Area(objs) ==
  Cardinality({c \in (0 .. Reference[1] - 1) \X (-Max({AP[p] : p \in Points}) .. Reference[2] - 1) :
                 \E i \in DOMAIN objs : objs[i][1] <= c[1] /\ objs[i][2] <= c[2]})

\* The staircase sum is the dominated area, whatever the order of the
\* archive, equal points and points outside the reference box.
HypervolumeIsArea == LET objs == Union IN Hypervolume(objs) = Area(objs)

\* A convergence curve never falls: more evaluations never lose volume.
ConvergenceNeverFalls ==
  \A a \in Compared : \A i \in DOMAIN convLog[a] : i > 1 => convLog[a][i] >= convLog[a][i - 1]

\* The fronts found by counting dominators are the layers of the archive:
\* each is what nothing outside the earlier layers dominates.
SortIsPeeling ==
  LET objs  == Union
      outer == FastNondominatedSort(objs)
  IN  /\ \A k \in 1 .. Len(objs) :
           outer[k + 1] \ outer[k] =
             {i \in DOMAIN objs \ outer[k] :
                \A j \in DOMAIN objs \ outer[k] : ~Dominates(objs[j], objs[i])}
      /\ Last(outer) = DOMAIN objs

\* A truncated front keeps the best latency and the best accuracy it holds,
\* when it has room for two ends and for an equal of each.  (With room for two
\* it does not: two equal ends can crowd the other end out.)
ExtremesSurvive ==
  LET objs  == Union
      front == NondominatedIdx(objs)
      kept  == Truncate(objs, front, 4)
  IN  front # {} =>
        \A m \in {1, 2} : Min({objs[i][m] : i \in kept}) = Min({objs[i][m] : i \in front})

\* An arm that visits all the other one visits is nowhere slower at any
\* accuracy, exact or as a threshold, so no ratio of the report is below one.
MoreVisitsAreNoSlower ==
  ToSet(visited["serial"]) \subseteq ToSet(visited["joint"]) =>
    \A v \in {AP[p] : p \in Points}, t \in BOOLEAN :
      \A j \in BestAt(visited["joint"], v, t), s \in BestAt(visited["serial"], v, t) : s >= j

\* The mean of curves of different lengths never falls either: a curve that
\* has ended is carried on.
MeanNeverFalls ==
  LET mean == AggregateConvergence
  IN  \A k \in DOMAIN mean : k > 1 => mean[k] >= mean[k - 1]

\* Average ranks add up to n (n + 1) / 2 whatever the ties, so the two signed
\* sums of the test share a fixed total.
RanksAddUp ==
  LET x == [i \in DOMAIN Union |-> Union[i][1]]
      n == Len(x)
      ranks == RankData(x)
  IN  FoldSet(LAMBDA i, s : s + ranks[i], 0, DOMAIN x) = n * (n + 1)

\* Every score is what it is defined to be, for any archives of the two arms.
ScoresMeanWhatTheySay ==
  /\ HypervolumeIsArea /\ ConvergenceNeverFalls /\ MeanNeverFalls /\ SortIsPeeling
  /\ ExtremesSurvive /\ MoreVisitsAreNoSlower /\ RanksAddUp
=============================================================================
