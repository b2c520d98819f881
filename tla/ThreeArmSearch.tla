--------------------------- MODULE ThreeArmSearch ---------------------------
(***************************************************************************)
(* The ablation search of framework/search_three_arm.py: one genetic       *)
(* explorer drives three arms over pruning width x schedule (x             *)
(* quantization) under one budget of unique evaluations.                   *)
(*                                                                         *)
(* A genome is the point it decodes to.  The random choices of the         *)
(* explorer (first population, tournament, crossover, mutation, order of   *)
(* equals) are left open: any batch of points of the arm's space can come  *)
(* out of them.                                                            *)
(***************************************************************************)
EXTENDS Integers, FiniteSets

CONSTANTS
  Widths,       \* the pruning widths of the grid
  Latency,      \* [Widths -> [Schedules -> Nat]]: the fp16 latency table
  Int8Latency,  \* the same for int8 where it can be built
  Buildable,    \* the widths whose int8 build exists, or all when not enforced
  AP,           \* [Widths -> Nat]: the accuracy of a width at fp16
  Int8Penalty,  \* what int8 costs in accuracy
  Nadir,        \* the reference latency of the hypervolume
  Arms,         \* the arms that are run
  Setups,       \* how they may be run: [quants, popSize, budget, topK]
  MaxGens,      \* max_gens: the generations of a stage
  TuneQuant     \* tune_quant_stage2

Schedules == {"default", "tuned"}

ASSUME SearchAssumption ==
  /\ IsFiniteSet(Widths) /\ Widths # {} /\ Buildable \subseteq Widths
  /\ Arms \subseteq {"joint", "noS", "serial"} /\ MaxGens \in Nat
  /\ \A x \in Setups : /\ x.quants \in {{"fp16"}, {"fp16", "int8"}}
                       /\ x.popSize \in Nat \ {0} /\ x.budget \in Nat \ {0} /\ x.topK \in Nat

VARIABLES
  setup,      \* how this search is run
  arm,        \* the arm that is run
  start,      \* {} or the one width stage 1 is made to start from
  stage,      \* 1, or 2 for the second stage of the serial arm
  phase,      \* "initial", "generation", "over" (stalled), "done"
  pop,        \* the population, without its order
  seen,       \* the genomes the explorer has seen in this stage
  evaluated,  \* the cache of the cost model: what the budget was spent on
  gens,       \* generations of this stage
  stall,      \* generations in a row that evaluated nothing new
  locked      \* the widths stage 1 of the serial arm locked

vars == <<setup, arm, start, stage, phase, pop, seen, evaluated, gens, stall, locked>>

Quants == setup.quants    \* {"fp16"} for P x S, {"fp16", "int8"} for P x Q x S
PopSize == setup.popSize  \* pop_size
Budget == setup.budget    \* unique evaluations an arm may spend
TopK == setup.topK        \* how many dominated widths the relaxed lock keeps

Point(W, Ss, Qs) == [width : W, sched : Ss, quant : Qs]
Points == Point(Widths, Schedules, Quants)

----------------------------------------------------------------------------
(* The cost model and the order it puts on points *)

LatencyOf(p) ==
  IF p.quant = "fp16" THEN Latency[p.width][p.sched]
  ELSE IF p.width \notin Buildable THEN Nadir
  ELSE Int8Latency[p.width][p.sched]

APOf(p) == AP[p.width] - (IF p.quant = "int8" THEN Int8Penalty ELSE 0)

Dominates(p, q) ==
  /\ LatencyOf(p) <= LatencyOf(q) /\ APOf(p) >= APOf(q)
  /\ LatencyOf(p) < LatencyOf(q) \/ APOf(p) > APOf(q)

FirstFront(S) == {p \in S : \A q \in S : ~Dominates(q, p)}

\* the points of the first k fronts of S
FirstFronts(S) ==
  LET keep[k \in 0 .. Cardinality(S)] ==
        IF k = 0 THEN {} ELSE LET before == keep[k - 1] IN before \cup FirstFront(S \ before)
  IN  [k \in 0 .. Cardinality(S) |-> keep[k]]

\* What environmental selection may keep: whole fronts while they fit, then a
\* part of the next one (crowding decides which part, and is left open).
Survivors(S) ==
  LET keep == FirstFronts(S)
      size == IF Cardinality(S) <= PopSize THEN Cardinality(S) ELSE PopSize
      whole == CHOOSE k \in 0 .. Cardinality(S) :
                 /\ Cardinality(keep[k]) <= size
                 /\ k = Cardinality(S) \/ Cardinality(keep[k + 1]) > size
      last == keep[IF whole = Cardinality(S) THEN whole ELSE whole + 1] \ keep[whole]
  IN  {keep[whole] \cup T :
         T \in {R \in SUBSET last : Cardinality(R) = size - Cardinality(keep[whole])}}

----------------------------------------------------------------------------
(* The arms: a space and a budget for each stage *)

\* Mutated form: stage 2 tunes over the whole grid.
SpaceUnlocked(a, s, L) ==
  IF a = "joint" THEN Points
  ELSE IF a = "noS" THEN Point(Widths, {"default"}, Quants)
  ELSE IF s = 1 THEN Point(Widths, {"default"}, {"fp16"})
  ELSE Point(Widths, Schedules, IF TuneQuant THEN Quants ELSE {"fp16"})

SpaceOf(a, s, L) ==
  IF a = "joint" THEN Points
  ELSE IF a = "noS" THEN Point(Widths, {"default"}, Quants)
  ELSE IF s = 1 THEN Point(Widths, {"default"}, {"fp16"})
  ELSE Point(L, Schedules, IF TuneQuant THEN Quants ELSE {"fp16"})

Space == SpaceOf(arm, stage, locked)

StageBudget ==
  IF arm = "serial" /\ stage = 1
  THEN IF Budget \div 2 >= 1 THEN Budget \div 2 ELSE 1
  ELSE Budget

Used(E) == Cardinality(E)

\* The parts of a batch that are evaluated when each member is preceded by a
\* look at the budget.
UntilBudget(batch) ==
  {E \in SUBSET batch :
     /\ E \subseteq evaluated \/ Used(evaluated \cup E) <= StageBudget
     /\ E = batch \/ Used(evaluated \cup E) >= StageBudget}

Init ==
  /\ setup \in Setups
  /\ arm \in Arms
  /\ start \in {{}} \cup (IF arm = "serial" /\ Quants = {"fp16"} THEN {{w} : w \in Widths} ELSE {})
  /\ stage = 1 /\ phase = "initial"
  /\ pop = {} /\ seen = {} /\ evaluated = {} /\ gens = 0 /\ stall = 0 /\ locked = {}

\* nsga2 begins: a first population of distinct genomes, the forced one among
\* them, evaluated until the budget is spent.  The fifty draws for each member
\* are taken to be enough to fill it.
InitialPopulation ==
  /\ phase = "initial"
  /\ \E P \in SUBSET Space :
       /\ Cardinality(P) = (IF Cardinality(Space) <= PopSize THEN Cardinality(Space) ELSE PopSize)
       /\ stage = 1 => start \subseteq {p.width : p \in P}
       /\ pop' = P /\ seen' = P
       /\ \E E \in UntilBudget(P) : evaluated' = evaluated \cup E
  /\ gens' = 0 /\ stall' = 0
  /\ phase' = "generation"
  /\ UNCHANGED <<setup, arm, start, stage, locked>>

\* the head of the generation loop
GenerationDue ==
  gens < MaxGens /\ Used(evaluated) < StageBudget /\ Cardinality(seen) < Cardinality(Space)

\* Mutated form: a stall counts twice.
StallTwice(n) == IF n = 0 THEN stall + 2 ELSE 0

StallAfter(n) == IF n = 0 THEN stall + 1 ELSE 0

\* One generation: offspring evaluated until the budget is spent, then
\* environmental selection, which evaluates the whole union.
Generation ==
  /\ phase = "generation" /\ GenerationDue
  /\ gens' = gens + 1
  /\ \E batch \in {b \in SUBSET Space : b # {} /\ Cardinality(b) <= PopSize} :
       \E E \in UntilBudget(batch) :
         /\ seen' = seen \cup E
         /\ stall' = StallAfter(Cardinality(E \ evaluated))
         /\ IF stall' >= 3
            THEN /\ evaluated' = evaluated \cup E
                 /\ phase' = "over"
                 /\ UNCHANGED pop
            ELSE /\ evaluated' = evaluated \cup pop \cup batch
                 /\ pop' \in Survivors(pop \cup batch)
                 /\ UNCHANGED phase
  /\ UNCHANGED <<setup, arm, start, stage, locked>>

StageOver == phase = "over" \/ (phase = "generation" /\ ~GenerationDue)

DefaultFront == {p.width : p \in FirstFront({q \in evaluated : q.sched = "default" /\ q.quant = "fp16"})}

\* the relaxed lock: the TopK fastest of the other widths
Relaxations ==
  LET rest == {p.width : p \in evaluated} \ DefaultFront
      size == IF Cardinality(rest) <= TopK THEN Cardinality(rest) ELSE TopK
  IN  {R \in SUBSET rest :
         /\ Cardinality(R) = size
         /\ \A w \in R, v \in rest \ R : Latency[w]["default"] <= Latency[v]["default"]}

\* between the stages of the serial arm
Lock ==
  /\ StageOver /\ arm = "serial" /\ stage = 1
  /\ \E R \in Relaxations : locked' = DefaultFront \cup R
  /\ stage' = 2 /\ phase' = "initial"
  /\ pop' = {} /\ seen' = {} /\ gens' = 0 /\ stall' = 0
  /\ UNCHANGED <<setup, arm, start, evaluated>>

Finish ==
  /\ StageOver /\ (arm = "serial" => stage = 2)
  /\ phase' = "done"
  /\ UNCHANGED <<setup, arm, start, stage, pop, seen, evaluated, gens, stall, locked>>

Next == InitialPopulation \/ Generation \/ Lock \/ Finish

Spec == Init /\ [][Next]_vars

----------------------------------------------------------------------------
(* Properties *)

\* The state has the types of the code.
TypeOK ==
  /\ setup \in Setups /\ arm \in Arms /\ start \in SUBSET Widths /\ stage \in {1, 2}
  /\ phase \in {"initial", "generation", "over", "done"}
  /\ pop \subseteq Points /\ seen \subseteq Points /\ evaluated \subseteq Points
  /\ gens \in 0 .. MaxGens /\ stall \in 0 .. 3 /\ locked \subseteq Widths

\* The budget may be overrun, but by less than one population: only the last
\* generation's selection evaluates past it.
OverrunIsOneBatch == Used(evaluated) <= Budget + PopSize - 1

\* "objs = [obj_of(g) for g in pop]  # cache hits": ranking the population at
\* the head of a generation evaluates nothing.
RankingIsFree == phase = "generation" /\ GenerationDue => pop \subseteq evaluated

\* A width stage 1 did not lock is never tuned nor quantized by the serial
\* arm, so its delivered front holds what a stepwise optimizer can reach.
DiscardedWidthsStayUntuned ==
  arm = "serial" =>
    \A p \in evaluated : p.sched = "tuned" \/ p.quant = "int8" => p.width \in locked

\* The structural claim of run_smoke: where the population holds the whole
\* grid, a width that another one dominates under the default schedule is
\* never evaluated tuned by the serial arm, from whatever width it starts.
DominatedIsNeverTuned ==
  arm = "serial" /\ PopSize >= Cardinality(Widths) /\ Budget >= 2 * Cardinality(Widths) /\ TopK = 0 =>
    \A p \in evaluated :
      p.sched = "tuned" =>
        p.width \in {q.width : q \in FirstFront(Point(Widths, {"default"}, {"fp16"}))}

\* An arm searches what it is meant to, for what it may spend: the serial arm tunes only widths it
\* locked, none of them dominated, ranking is free, and the budget is overrun by one batch at most.
ArmsStayInBounds ==
  DiscardedWidthsStayUntuned /\ DominatedIsNeverTuned /\ RankingIsFree /\ OverrunIsOneBatch

=============================================================================
