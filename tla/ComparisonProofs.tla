-------------------------- MODULE ComparisonProofs --------------------------
(***************************************************************************)
(* Proofs about the comparison of the arms: the ablation search itself     *)
(* (ThreeArmSearch) and the root the paper table is written to             *)
(* (PaperTable).                                                           *)
(*                                                                         *)
(* Of the search, for every grid of widths, cost model, setup and arm, and *)
(* whatever the genetic explorer draws: what an arm may evaluate and what  *)
(* it may spend. The invariant follows the budget: a generation is due     *)
(* only while the population is evaluated, so that ranking it is free and  *)
(* selection overruns the budget by one batch; and where the population    *)
(* holds the grid, stage 1 evaluates the whole grid before it locks.       *)
(*                                                                         *)
(* Of the root: that the manifest is whole only over whole files of the    *)
(* same input, wherever a run dies.                                        *)
(***************************************************************************)
EXTENDS ThreeArmSearch, PaperTable, FiniteSetTheorems, WellFoundedInduction, TLAPS


----------------------------------------------------------------------------
(* ThreeArmSearch: what an arm may evaluate and spend *)

\* A nonempty set of naturals has a least member.
LEMMA Least ==
  ASSUME NEW T \in SUBSET Nat, T # {}
  PROVE  \E m \in T : \A n \in T : m <= n
<1>1. PICK less : less = OpToRel(<, Nat)
  OBVIOUS
<1>2. IsWellFoundedOn(less, Nat)
  BY <1>1, NatLessThanWellFounded, Zenon
<1>3. PICK m \in T : \A n \in T : ~(<<n, m>> \in less)
  BY <1>2, WFMin, Zenon
<1>4. \A i, n \in Nat : n < i => <<n, i>> \in less
  BY <1>1, Zenon DEF OpToRel
<1>5. \A n \in T : ~(n < m)
  BY <1>3, <1>4
<1> QED
  BY <1>5

\* The points kept so far and the next front of S.
WithNext(S, before) == before \cup FirstFront(S \ before)

\* The fronts of S up to the m-th are those of the sequence g.
FrontsUpTo(S, m, g) ==
  g = [k \in 0 .. m |-> IF k = 0 THEN {} ELSE WithNext(S, g[k - 1])]

\* What it is to be that sequence, place by place.
LEMMA FrontsUnfold ==
  ASSUME NEW S, NEW m \in Nat, NEW g
  PROVE  FrontsUpTo(S, m, g) <=>
           /\ g = [k \in 0 .. m |-> g[k]] /\ g[0] = {}
           /\ \A k \in 1 .. m : g[k] = WithNext(S, g[k - 1])
<1> DEFINE Body(k) == IF k = 0 THEN {} ELSE WithNext(S, g[k - 1])
<1>1. FrontsUpTo(S, m, g) <=> g = [k \in 0 .. m |-> Body(k)]
  BY Zenon DEF FrontsUpTo
<1>2. (\A k \in 0 .. m : g[k] = Body(k)) <=>
        g[0] = {} /\ \A k \in 1 .. m : g[k] = WithNext(S, g[k - 1])
  <2>1. \A k \in 1 .. m : Body(k) = WithNext(S, g[k - 1])
    OBVIOUS
  <2>2. Body(0) = {}
    OBVIOUS
  <2>3. \A k : k \in 0 .. m <=> k = 0 \/ k \in 1 .. m
    OBVIOUS
  <2> HIDE DEF Body
  <2> QED
    BY <2>1, <2>2, <2>3
<1>3. g = [k \in 0 .. m |-> Body(k)] <=> g = [k \in 0 .. m |-> g[k]] /\ \A k \in 0 .. m : g[k] = Body(k)
  <2> HIDE DEF Body
  <2>1. g = [k \in 0 .. m |-> Body(k)] => g = [k \in 0 .. m |-> g[k]] /\ \A k \in 0 .. m : g[k] = Body(k)
    BY Zenon
  <2>2. g = [k \in 0 .. m |-> g[k]] /\ (\A k \in 0 .. m : g[k] = Body(k)) => g = [k \in 0 .. m |-> Body(k)]
    OBVIOUS
  <2> QED
    BY <2>1, <2>2
<1> QED
  BY <1>1, <1>2, <1>3

\* Each place of that sequence follows from the one before it.
LEMMA FrontsFollow ==
  ASSUME NEW S, NEW m \in Nat, NEW g, FrontsUpTo(S, m, g)
  PROVE  g[0] = {} /\ \A k \in 1 .. m : g[k] = WithNext(S, g[k - 1])
<1> DEFINE Body(k) == IF k = 0 THEN {} ELSE WithNext(S, g[k - 1])
<1>1. g = [k \in 0 .. m |-> Body(k)]
  BY Zenon DEF FrontsUpTo
<1>2. \A k \in 0 .. m : g[k] = Body(k)
  <2> HIDE DEF Body
  <2> QED
    BY <1>1, Zenon
<1> QED
  BY <1>2

\* There is such a sequence, of any length: by the least length that would
\* have none.
LEMMA FrontsExist ==
  ASSUME NEW S, NEW n \in Nat
  PROVE  \E g : FrontsUpTo(S, n, g)
<1> DEFINE bad == {m \in Nat : ~\E g : FrontsUpTo(S, m, g)}
<1> SUFFICES ASSUME bad # {} PROVE FALSE
  BY Zenon
<1>1. PICK m \in bad : \A i \in bad : m <= i
  <2>1. bad \in SUBSET Nat
    OBVIOUS
  <2> HIDE DEF bad
  <2> QED
    BY <2>1, Least
<1>2. m \in Nat /\ ~\E g : FrontsUpTo(S, m, g)
  BY <1>1
<1>3. CASE m = 0
  <2>1. FrontsUpTo(S, 0, [k \in 0 .. 0 |-> {}])
    BY DEF FrontsUpTo
  <2> QED
    BY <1>2, <1>3, <2>1
<1>4. CASE m # 0
  <2>1. m - 1 \in Nat /\ m - 1 \notin bad
    BY <1>1, <1>2, <1>4
  <2>2. PICK h : FrontsUpTo(S, m - 1, h)
    BY <2>1
  <2> DEFINE g == [k \in 0 .. m |-> IF k = m THEN WithNext(S, h[m - 1]) ELSE h[k]]
  <2>3. /\ \A k \in 0 .. m - 1 : g[k] = h[k]
        /\ g[m] = WithNext(S, h[m - 1])
    BY <1>2, <1>4
  <2>4. /\ h[0] = {}
        /\ \A k \in 1 .. m - 1 : h[k] = WithNext(S, h[k - 1])
    BY <2>1, <2>2, FrontsFollow
  <2>5. g = [k \in 0 .. m |-> g[k]]
    OBVIOUS
  <2> HIDE DEF g
  <2>6. g[0] = {}
    BY <1>2, <1>4, <2>3, <2>4
  <2>7. ASSUME NEW k \in 1 .. m PROVE g[k] = WithNext(S, g[k - 1])
    <3>1. CASE k = m
      BY <1>2, <1>4, <2>3, <3>1
    <3>2. CASE k # m
      <4>1. k \in 1 .. m - 1 /\ k - 1 \in 0 .. m - 1 /\ k \in 0 .. m - 1
        BY <1>2, <3>2
      <4> QED
        BY <2>3, <2>4, <4>1
    <3> QED
      BY <3>1, <3>2
  <2>8. FrontsUpTo(S, m, g)
    BY <1>2, <2>5, <2>6, <2>7, FrontsUnfold
  <2> QED
    BY <1>2, <2>8
<1> QED
  BY <1>3, <1>4

\* The recursive function inside FirstFronts, named.
KeepOf(S) ==
  CHOOSE g : g = [k \in 0 .. Cardinality(S) |->
     IF k = 0 THEN {} ELSE LET before == g[k - 1] IN before \cup FirstFront(S \ before)]

\* FirstFronts begins with no point, and all of it lies in S.
LEMMA FrontsOf ==
  ASSUME NEW S, IsFiniteSet(S)
  PROVE  \A k \in 0 .. Cardinality(S) : FirstFronts(S)[k] \subseteq S /\ FirstFronts(S)[0] = {}
<1> DEFINE n == Cardinality(S)  g == KeepOf(S)
<1>1. n \in Nat
  BY FS_CardinalityType
<1>2. FirstFronts(S) = [k \in 0 .. n |-> g[k]]
  BY Zenon DEF FirstFronts, KeepOf
<1>3. FrontsUpTo(S, n, g)
  <2>1. \E f : FrontsUpTo(S, n, f)
    BY <1>1, FrontsExist
  <2> QED
    BY <2>1, Zenon DEF KeepOf, FrontsUpTo, WithNext
<1> HIDE DEF g
<1>4. /\ g[0] = {}
      /\ \A k \in 1 .. n : g[k] = WithNext(S, g[k - 1])
  BY <1>1, <1>3, FrontsFollow
<1>5. \A k \in 0 .. n : g[k] \subseteq S
  <2> DEFINE bad == {k \in 0 .. n : ~(g[k] \subseteq S)}
  <2> SUFFICES ASSUME bad # {} PROVE FALSE
    OBVIOUS
  <2>1. PICK m \in bad : \A i \in bad : m <= i
    <3>1. bad \in SUBSET Nat
      BY <1>1
    <3> HIDE DEF bad
    <3> QED
      BY <3>1, Least
  <2>2. m \in 1 .. n
    BY <1>1, <1>4, <2>1
  <2>3. g[m - 1] \subseteq S
    BY <1>1, <2>1, <2>2
  <2>4. g[m] \subseteq S
    BY <1>4, <2>2, <2>3 DEF FirstFront, WithNext
  <2> QED
    BY <2>1, <2>4
<1> QED
  BY <1>1, <1>2, <1>4, <1>5

\* Environmental selection invents nothing: the survivors are of the set they
\* are selected from.  There is a last front that fits whole, because none
\* fits at place 0.
LEMMA SurvivorsAreOfS ==
  ASSUME NEW S, IsFiniteSet(S), PopSize \in Nat, NEW Q \in Survivors(S)
  PROVE  Q \subseteq S
<1> DEFINE keep == FirstFronts(S)
           n == Cardinality(S)
           size == IF n <= PopSize THEN n ELSE PopSize
           Fits(k) == Cardinality(keep[k]) <= size /\ (k = n \/ Cardinality(keep[k + 1]) > size)
           whole == CHOOSE k \in 0 .. n : Fits(k)
           last == keep[IF whole = n THEN whole ELSE whole + 1] \ keep[whole]
<1>1. n \in Nat /\ size \in Nat
  BY FS_CardinalityType
<1>2. \A k \in 0 .. n : keep[k] \subseteq S /\ Cardinality(keep[k]) \in Nat
  BY FrontsOf, FS_Subset, FS_CardinalityType
<1>3. Cardinality(keep[0]) = 0
  BY <1>1, FrontsOf, FS_EmptySet
<1> HIDE DEF size, keep, n
<1>4. \E k \in 0 .. n : Fits(k)
  <2> DEFINE over == {k \in 0 .. n : Cardinality(keep[k]) > size}
  <2>1. CASE over = {}
    <3>1. Cardinality(keep[n]) <= size
      BY <1>1, <1>2, <2>1
    <3> QED
      BY <1>1, <3>1
  <2>2. CASE over # {}
    <3>1. PICK m \in over : \A i \in over : m <= i
      <4>1. over \in SUBSET Nat
        BY <1>1
      <4> HIDE DEF over
      <4> QED
        BY <4>1, <2>2, Least
    <3>2. m \in 1 .. n
      BY <1>1, <1>3, <3>1
    <3>3. m - 1 \in 0 .. n /\ m - 1 \notin over /\ (m - 1) + 1 = m
      BY <1>1, <3>1, <3>2
    <3>4. Cardinality(keep[m - 1]) <= size
      BY <1>1, <1>2, <3>3
    <3>5. Cardinality(keep[(m - 1) + 1]) > size
      BY <3>1, <3>3
    <3> QED
      BY <3>3, <3>4, <3>5
  <2> QED
    BY <2>1, <2>2
<1>5. whole \in 0 .. n
  <2> HIDE DEF Fits
  <2> QED
    BY <1>4
<1>6. PICK T \in SUBSET last : Q = keep[whole] \cup T
  BY Zenon DEF Survivors, keep, size, n
<1> HIDE DEF whole
<1>7. (IF whole = n THEN whole ELSE whole + 1) \in 0 .. n
  BY <1>1, <1>5
<1>8. last \subseteq S /\ keep[whole] \subseteq S
  BY <1>2, <1>5, <1>7
<1> QED
  BY <1>6, <1>8

\* The grid stage 1 of the serial arm searches.
StageOne == Point(Widths, {"default"}, {"fp16"})
\* Where the population holds that grid and the lock is not relaxed.
WholeGrid == arm = "serial" /\ PopSize >= Cardinality(Widths) /\ Budget >= 2 * Cardinality(Widths) /\ TopK = 0

\* The types, and that population and seen genomes are of the space of the
\* stage.
SearchTypes ==
  /\ setup \in Setups /\ arm \in Arms /\ start \in SUBSET Widths /\ stage \in {1, 2}
  /\ phase \in {"initial", "generation", "over", "done"}
  /\ pop \subseteq Space /\ seen \subseteq Space /\ evaluated \subseteq Points
  /\ gens \in 0 .. MaxGens /\ stall \in 0 .. 3 /\ (phase \in {"initial", "generation"} => stall < 3)
  /\ locked \subseteq Widths
  /\ stage = 1 => locked = {} /\ (phase = "done" => arm # "serial")

\* The budget of the whole search, and what ranking costs.
Bounded ==
  /\ OverrunIsOneBatch /\ RankingIsFree
  /\ stage = 1 /\ phase = "initial" => evaluated = {}

\* Stage 1 of the serial arm evaluates its grid only, stage 2 nothing that was
\* not locked.
SerialIsStepwise ==
  arm = "serial" =>
    /\ stage = 1 => evaluated \subseteq StageOne
    /\ DiscardedWidthsStayUntuned

\* Where the population holds the grid, stage 1 evaluates all of it at once,
\* and what it locks is the front of the grid.
LockIsUndominated ==
  WholeGrid =>
    /\ stage = 1 /\ phase # "initial" => evaluated = StageOne
    /\ stage = 2 => locked = {q.width : q \in FirstFront(StageOne)}

\* The inductive invariant.
SearchInv == SearchTypes /\ Bounded /\ SerialIsStepwise /\ LockIsUndominated

\* The parameters of a setup have their types.
LEMMA SetupTyped ==
  ASSUME setup \in Setups
  PROVE  /\ Quants \in {{"fp16"}, {"fp16", "int8"}}
         /\ PopSize \in Nat \ {0} /\ Budget \in Nat \ {0} /\ TopK \in Nat
  BY SearchAssumption DEF Quants, PopSize, Budget, TopK

\* More widths, schedules and quantizations have more points.
LEMMA PointsGrow ==
  ASSUME NEW W, NEW V, W \subseteq V, NEW Ss, NEW Ts, Ss \subseteq Ts, NEW Qs, NEW Rs, Qs \subseteq Rs
  PROVE  Point(W, Ss, Qs) \subseteq Point(V, Ts, Rs)
  BY DEF Point

\* The space of each arm and stage is of the points.
LEMMA SpaceInPoints ==
  ASSUME SearchTypes
  PROVE  /\ Space \subseteq Points
         /\ arm = "serial" /\ stage = 1 => Space = StageOne
         /\ arm = "serial" /\ stage = 2 => Space \subseteq Point(locked, Schedules, Quants)
<1>1. Quants \in {{"fp16"}, {"fp16", "int8"}}
  BY SetupTyped DEF SearchTypes
<1>2. locked \subseteq Widths
  BY DEF SearchTypes
<1>3. {"default"} \subseteq Schedules /\ {"fp16"} \subseteq Quants
  BY <1>1 DEF Schedules
<1>4. Point(Widths, {"default"}, Quants) \subseteq Points /\ StageOne \subseteq Points
  BY <1>3, PointsGrow DEF Points, StageOne
<1>5. Point(locked, Schedules, IF TuneQuant THEN Quants ELSE {"fp16"}) \subseteq Point(locked, Schedules, Quants)
  <2>1. (IF TuneQuant THEN Quants ELSE {"fp16"}) \subseteq Quants
    BY <1>3
  <2> QED
    BY <2>1, PointsGrow
<1>6. Point(locked, Schedules, Quants) \subseteq Points
  BY <1>2, PointsGrow DEF Points
<1>7. CASE arm = "joint"
  <2>1. Space = Points
    BY <1>7 DEF Space, SpaceOf
  <2> QED
    BY <1>7, <2>1
<1>8. CASE arm = "noS"
  <2>1. Space = Point(Widths, {"default"}, Quants)
    BY <1>8 DEF Space, SpaceOf
  <2> QED
    BY <1>4, <1>8, <2>1
<1>9. CASE arm = "serial" /\ stage = 1
  <2>1. Space = StageOne
    BY <1>9 DEF Space, SpaceOf, StageOne
  <2> QED
    BY <1>4, <1>9, <2>1
<1>10. CASE arm = "serial" /\ stage = 2
  <2>1. Space = Point(locked, Schedules, IF TuneQuant THEN Quants ELSE {"fp16"})
    BY <1>10 DEF Space, SpaceOf
  <2>2. Space \subseteq Point(locked, Schedules, Quants)
    BY <1>5, <2>1
  <2> QED
    BY <1>6, <1>10, <2>2
<1>11. arm \in {"joint", "noS", "serial"} /\ stage \in {1, 2}
  BY SearchAssumption DEF SearchTypes
<1> QED
  BY <1>7, <1>8, <1>9, <1>10, <1>11

\* There are finitely many points.
LEMMA PointsFinite ==
  ASSUME setup \in Setups
  PROVE  IsFiniteSet(Points)
<1> DEFINE Triples == Widths \X (Schedules \X Quants)
           f == [x \in Triples |-> [width |-> x[1], sched |-> x[2][1], quant |-> x[2][2]]]
<1>1. IsFiniteSet(Schedules) /\ IsFiniteSet(Quants)
  <2>1. IsFiniteSet({"default"}) /\ IsFiniteSet({"default"} \cup {"tuned"})
    BY FS_Singleton, FS_AddElement
  <2>2. IsFiniteSet({"fp16"}) /\ IsFiniteSet({"fp16"} \cup {"int8"})
    BY FS_Singleton, FS_AddElement
  <2>3. Schedules = {"default"} \cup {"tuned"} /\ {"fp16", "int8"} = {"fp16"} \cup {"int8"}
    BY DEF Schedules
  <2> QED
    BY <2>1, <2>2, <2>3, SetupTyped
<1>2. IsFiniteSet(Triples)
  BY <1>1, SearchAssumption, FS_Product
<1>3. f \in Surjection(Triples, Points)
  <2>1. \A p \in Points : <<p.width, <<p.sched, p.quant>>>> \in Triples
                           /\ p = [width |-> p.width, sched |-> p.sched, quant |-> p.quant]
    BY DEF Points, Point
  <2>2. \A p \in Points : \E x \in Triples : f[x] = p
    BY <2>1
  <2>3. f \in [Triples -> Points]
    BY DEF Points, Point
  <2> HIDE DEF f, Triples
  <2> QED
    BY <2>2, <2>3 DEF Surjection
<1> HIDE DEF f, Triples
<1> QED
  BY <1>2, <1>3, FS_Surjection

\* The grid of stage 1 has one point per width.
LEMMA GridSize == IsFiniteSet(StageOne) /\ Cardinality(StageOne) = Cardinality(Widths)
<1> DEFINE f == [w \in Widths |-> [width |-> w, sched |-> "default", quant |-> "fp16"]]
<1>1. \A p \in StageOne : p.width \in Widths /\ p = [width |-> p.width, sched |-> "default", quant |-> "fp16"]
  BY DEF StageOne, Point
<1>2. f \in [Widths -> StageOne]
  BY DEF StageOne, Point
<1>3. \A w, v \in Widths : f[w] = f[v] => w = v
  <2>1. \A w \in Widths : f[w].width = w
    OBVIOUS
  <2> HIDE DEF f
  <2> QED
    BY <2>1
<1>4. \A p \in StageOne : \E w \in Widths : f[w] = p
  <2>1. \A w \in Widths : f[w] = [width |-> w, sched |-> "default", quant |-> "fp16"]
    OBVIOUS
  <2> HIDE DEF f
  <2> QED
    BY <1>1, <2>1
<1> HIDE DEF f
<1>5. f \in Bijection(Widths, StageOne)
  BY <1>2, <1>3, <1>4 DEF Bijection, Injection, Surjection, IsInjective
<1> QED
  BY <1>5, SearchAssumption, FS_Bijection DEF ExistsBijection

\* No stage may spend more than the budget.
LEMMA StageBudgetBound ==
  ASSUME setup \in Setups
  PROVE  StageBudget \in Nat /\ StageBudget <= Budget
  BY SetupTyped DEF StageBudget

\* What is evaluated can be counted.
LEMMA SubsetsCounted ==
  ASSUME setup \in Setups, NEW E, E \subseteq Points
  PROVE  IsFiniteSet(E) /\ Cardinality(E) \in Nat /\ Used(E) \in Nat
  BY PointsFinite, FS_Subset, FS_CardinalityType DEF Used

\* The invariant holds at the start.
LEMMA SearchStart == Init => SearchInv
<1> SUFFICES ASSUME Init PROVE SearchInv
  OBVIOUS
<1>1. Used({}) = 0
  BY FS_EmptySet DEF Used
<1>2. SearchTypes
  BY SearchAssumption DEF Init, SearchTypes
<1>3. Bounded
  BY <1>1, SetupTyped DEF Init, Bounded, OverrunIsOneBatch, RankingIsFree
<1>4. SerialIsStepwise /\ LockIsUndominated
  BY DEF Init, SerialIsStepwise, LockIsUndominated, DiscardedWidthsStayUntuned
<1> QED
  BY <1>2, <1>3, <1>4 DEF SearchInv

\* Evaluating points of the space keeps evaluated points typed and the serial
\* arm stepwise.
LEMMA SpendingStep ==
  ASSUME SearchInv, UNCHANGED <<setup, arm, start, stage, locked>>,
         NEW X \in SUBSET Space, evaluated' = evaluated \cup X
  PROVE  evaluated' \subseteq Points' /\ SerialIsStepwise'
<1>1. /\ Points' = Points /\ Quants' = Quants /\ StageOne' = StageOne
  BY DEF Points, Point, Quants, StageOne, Schedules
<1>2. SearchTypes /\ SerialIsStepwise /\ evaluated \subseteq Points
  BY DEF SearchInv, SearchTypes
<1>3. /\ Space \subseteq Points
      /\ arm = "serial" /\ stage = 1 => Space = StageOne
      /\ arm = "serial" /\ stage = 2 => Space \subseteq Point(locked, Schedules, Quants)
  BY <1>2, SpaceInPoints
<1>4. ASSUME arm = "serial" PROVE (stage = 1 => evaluated' \subseteq StageOne) /\ DiscardedWidthsStayUntuned'
  <2>1. stage = 1 => evaluated' \subseteq StageOne
    BY <1>2, <1>3, <1>4 DEF SerialIsStepwise
  <2>2. \A p \in evaluated : p.sched = "tuned" \/ p.quant = "int8" => p.width \in locked
    BY <1>2, <1>4 DEF SerialIsStepwise, DiscardedWidthsStayUntuned
  <2>3. \A p \in X : p.sched = "tuned" \/ p.quant = "int8" => p.width \in locked
    <3>1. CASE stage = 1
      BY <1>3, <1>4, <3>1 DEF StageOne, Point
    <3>2. CASE stage = 2
      BY <1>3, <1>4, <3>2 DEF Point
    <3> QED
      BY <1>2, <3>1, <3>2 DEF SearchTypes
  <2> QED
    BY <2>1, <2>2, <2>3 DEF DiscardedWidthsStayUntuned
<1>5. evaluated' \subseteq Points'
  BY <1>1, <1>2, <1>3
<1> QED
  BY <1>1, <1>4, <1>5 DEF SerialIsStepwise, DiscardedWidthsStayUntuned

\* As many points of the grid as there are widths are the grid.
LEMMA GridIsWhole ==
  ASSUME SearchInv, WholeGrid, NEW P \in SUBSET StageOne, Cardinality(P) >= Cardinality(Widths)
  PROVE  P = StageOne
<1>1. Cardinality(P) \in Nat /\ Cardinality(P) <= Cardinality(StageOne) /\ (Cardinality(P) = Cardinality(StageOne) => P = StageOne)
  BY GridSize, FS_Subset, FS_CardinalityType
<1>2. Cardinality(StageOne) = Cardinality(Widths) /\ Cardinality(Widths) \in Nat
  BY GridSize, SearchAssumption, FS_CardinalityType
<1> QED
  BY <1>1, <1>2

\* The first population keeps the invariant: it is evaluated until the budget
\* is spent, so a generation is due only where all of it was.
LEMMA InitialPopulationStep ==
  ASSUME SearchInv, InitialPopulation
  PROVE  SearchInv'
<1>0. PICK P \in SUBSET Space :
        /\ Cardinality(P) = (IF Cardinality(Space) <= PopSize THEN Cardinality(Space) ELSE PopSize)
        /\ pop' = P /\ seen' = P
        /\ \E E \in UntilBudget(P) : evaluated' = evaluated \cup E
  BY DEF InitialPopulation
<1>1. PICK E \in UntilBudget(P) :
        /\ Cardinality(P) = (IF Cardinality(Space) <= PopSize THEN Cardinality(Space) ELSE PopSize)
        /\ pop' = P /\ seen' = P /\ evaluated' = evaluated \cup E
  BY <1>0
<1>2. /\ UNCHANGED <<setup, arm, start, stage, locked>>
      /\ phase = "initial" /\ phase' = "generation" /\ gens' = 0 /\ stall' = 0
  BY DEF InitialPopulation
<1>3. /\ Space' = Space /\ Points' = Points /\ StageBudget' = StageBudget /\ StageOne' = StageOne
      /\ Budget' = Budget /\ PopSize' = PopSize
  BY <1>2 DEF Space, SpaceOf, Points, Point, StageOne, StageBudget, Budget, PopSize, Quants, Schedules
<1>4. /\ E \subseteq P
      /\ E \subseteq evaluated \/ Used(evaluated \cup E) <= StageBudget
      /\ E = P \/ Used(evaluated \cup E) >= StageBudget
  BY <1>1 DEF UntilBudget
<1>5. evaluated' \subseteq Points' /\ SerialIsStepwise'
  BY <1>1, <1>2, <1>4, SpendingStep
<1>6. setup \in Setups /\ SearchTypes /\ Bounded /\ LockIsUndominated /\ SerialIsStepwise
  BY DEF SearchInv, SearchTypes
<1>7. PopSize \in Nat \ {0} /\ Budget \in Nat \ {0} /\ StageBudget \in Nat /\ StageBudget <= Budget
  BY <1>6, SetupTyped, StageBudgetBound
<1>8. Used(evaluated) \in Nat /\ Used(evaluated \cup E) \in Nat
  BY <1>1, <1>3, <1>5, <1>6, SubsetsCounted DEF SearchTypes
<1>9. SearchTypes'
  BY <1>1, <1>2, <1>3, <1>5, <1>6, SearchAssumption DEF SearchTypes
<1>10. Bounded'
  <2>1. Used(evaluated') <= Budget + PopSize - 1
    <3>1. CASE E \subseteq evaluated
      <4>1. evaluated \cup E = evaluated
        BY <3>1
      <4> QED
        BY <1>1, <1>6, <4>1 DEF Bounded, OverrunIsOneBatch
    <3>2. CASE Used(evaluated \cup E) <= StageBudget
      BY <1>1, <1>7, <1>8, <3>2
    <3> QED
      BY <1>4, <3>1, <3>2
  <2>2. ASSUME Used(evaluated') < StageBudget PROVE P \subseteq evaluated'
    BY <1>1, <1>4, <1>7, <1>8, <2>2
  <2>3. GenerationDue' => Used(evaluated') < StageBudget
    BY <1>3 DEF GenerationDue, Used
  <2>4. Used(evaluated)' = Used(evaluated')
    BY DEF Used
  <2> QED
    BY <1>1, <1>2, <1>3, <2>1, <2>2, <2>3, <2>4 DEF Bounded, OverrunIsOneBatch, RankingIsFree
<1>11. LockIsUndominated'
  <2>1. CASE WholeGrid /\ stage = 1
    <3>1. Space = StageOne
      BY <1>6, <2>1, SpaceInPoints DEF WholeGrid
    <3>2. Cardinality(Widths) \in Nat /\ Cardinality(StageOne) = Cardinality(Widths)
      BY GridSize, SearchAssumption, FS_CardinalityType
    <3>3. P = StageOne
      <4>1. Cardinality(P) >= Cardinality(Widths)
        BY <1>1, <1>7, <2>1, <3>1, <3>2 DEF WholeGrid
      <4> QED
        BY <2>1, <3>1, <4>1, GridIsWhole
    <3>4. evaluated = {}
      BY <1>2, <1>6, <2>1 DEF Bounded
    <3>5. E = StageOne
      <4>1. CASE E = P
        BY <3>3, <4>1
      <4>2. CASE Used(evaluated \cup E) >= StageBudget
        <5>1. evaluated \cup E = E
          BY <3>4
        <5>2. Budget >= 2 * Cardinality(Widths) /\ StageBudget = IF Budget \div 2 >= 1 THEN Budget \div 2 ELSE 1
          BY <2>1 DEF WholeGrid, StageBudget
        <5>3. StageBudget >= Cardinality(Widths)
          BY <1>7, <3>2, <5>2
        <5>4. Cardinality(E) >= Cardinality(Widths)
          BY <1>7, <1>8, <3>2, <4>2, <5>1, <5>3 DEF Used
        <5> QED
          BY <1>4, <2>1, <3>3, <5>4, GridIsWhole
      <4> QED
        BY <1>4, <4>1, <4>2
    <3> QED
      BY <1>1, <1>2, <1>3, <2>1, <3>4, <3>5 DEF LockIsUndominated
  <2>2. CASE WholeGrid /\ stage = 2
    <3>1. locked = {q.width : q \in FirstFront(StageOne)}
      BY <1>6, <2>2 DEF LockIsUndominated
    <3>2. FirstFront(StageOne)' = FirstFront(StageOne)
      BY <1>3 DEF FirstFront, Dominates, LatencyOf, APOf
    <3> QED
      BY <1>2, <2>2, <3>1, <3>2 DEF LockIsUndominated
  <2>3. WholeGrid' <=> WholeGrid
    BY <1>2 DEF WholeGrid, PopSize, Budget, TopK
  <2> QED
    BY <1>2, <1>6, <2>1, <2>2, <2>3 DEF LockIsUndominated, SearchTypes
<1> QED
  BY <1>5, <1>9, <1>10, <1>11 DEF SearchInv

\* A generation keeps the invariant: the population is evaluated already, so
\* its selection evaluates one batch at most past the budget.
LEMMA GenerationStep ==
  ASSUME SearchInv, Generation
  PROVE  SearchInv'
<1>0. PICK batch \in {b \in SUBSET Space : b # {} /\ Cardinality(b) <= PopSize} :
       \E E \in UntilBudget(batch) :
         /\ seen' = seen \cup E
         /\ stall' = StallAfter(Cardinality(E \ evaluated))
         /\ IF stall' >= 3
            THEN /\ evaluated' = evaluated \cup E
                 /\ phase' = "over"
                 /\ UNCHANGED pop
            ELSE /\ evaluated' = evaluated \cup pop \cup batch
                 /\ pop' \in Survivors(pop \cup batch)
                 /\ UNCHANGED phase
  BY DEF Generation
<1>1. PICK E \in UntilBudget(batch) :
         /\ seen' = seen \cup E
         /\ stall' = StallAfter(Cardinality(E \ evaluated))
         /\ IF stall' >= 3
            THEN /\ evaluated' = evaluated \cup E
                 /\ phase' = "over"
                 /\ UNCHANGED pop
            ELSE /\ evaluated' = evaluated \cup pop \cup batch
                 /\ pop' \in Survivors(pop \cup batch)
                 /\ UNCHANGED phase
  BY <1>0
<1>2. /\ UNCHANGED <<setup, arm, start, stage, locked>>
      /\ phase = "generation" /\ GenerationDue /\ gens' = gens + 1
  BY DEF Generation
<1>3. /\ Space' = Space /\ Points' = Points /\ StageBudget' = StageBudget /\ StageOne' = StageOne
      /\ Budget' = Budget /\ PopSize' = PopSize
  BY <1>2 DEF Space, SpaceOf, Points, Point, StageOne, StageBudget, Budget, PopSize, Quants, Schedules
<1>4. /\ E \subseteq batch /\ batch \subseteq Space
      /\ E \subseteq evaluated \/ Used(evaluated \cup E) <= StageBudget
  BY <1>1 DEF UntilBudget
<1>5. setup \in Setups /\ SearchTypes /\ Bounded /\ LockIsUndominated /\ SerialIsStepwise
  BY DEF SearchInv, SearchTypes
<1>6. pop \subseteq evaluated /\ pop \subseteq Space /\ seen \subseteq Space /\ stall \in 0 .. 2
  BY <1>2, <1>5 DEF Bounded, RankingIsFree, SearchTypes
<1>7. PICK X \in SUBSET Space :
        /\ evaluated' = evaluated \cup X
        /\ \/ phase' = "over" /\ X = E
           \/ phase' = "generation" /\ X = batch /\ pop' \in Survivors(pop \cup batch)
  BY <1>1, <1>2, <1>4, <1>6
<1>8. evaluated' \subseteq Points' /\ SerialIsStepwise'
  BY <1>2, <1>7, SpendingStep
<1>9. PopSize \in Nat \ {0} /\ Budget \in Nat \ {0} /\ StageBudget \in Nat /\ StageBudget <= Budget
  BY <1>5, SetupTyped, StageBudgetBound
<1>10. Space \subseteq Points /\ batch \subseteq Points /\ E \subseteq Points
  BY <1>4, <1>5, SpaceInPoints
<1>11. pop' \subseteq Space /\ (phase' = "generation" => pop' \subseteq evaluated')
  <2>1. CASE phase' = "over"
    BY <1>1, <1>2, <1>6, <2>1
  <2>2. CASE phase' = "generation" /\ X = batch /\ pop' \in Survivors(pop \cup batch)
    <3>1. IsFiniteSet(pop \cup batch)
      <4>1. pop \cup batch \subseteq Points
        BY <1>6, <1>10
      <4> QED
        BY <1>5, <4>1, PointsFinite, FS_Subset
    <3>2. pop' \subseteq pop \cup batch
      BY <1>9, <2>2, <3>1, SurvivorsAreOfS
    <3> QED
      BY <1>4, <1>6, <1>7, <2>2, <3>2
  <2> QED
    BY <1>7, <2>1, <2>2
<1>12. stall' \in 0 .. 3 /\ (phase' = "generation" => stall' < 3)
  BY <1>1, <1>2, <1>6 DEF StallAfter
<1>17. gens' \in 0 .. MaxGens
  BY <1>2, <1>5, SearchAssumption DEF SearchTypes, GenerationDue
<1>13. SearchTypes'
  BY <1>1, <1>2, <1>3, <1>4, <1>5, <1>6, <1>7, <1>8, <1>11, <1>12, <1>17 DEF SearchTypes
<1>14. Used(evaluated') <= Budget + PopSize - 1
  <2>1. /\ IsFiniteSet(evaluated) /\ IsFiniteSet(batch)
        /\ Used(evaluated) \in Nat /\ Used(evaluated \cup E) \in Nat /\ Used(evaluated \cup batch) \in Nat
        /\ Cardinality(batch) \in Nat /\ Cardinality(evaluated \cap batch) \in Nat
    <3>1. evaluated \subseteq Points /\ evaluated \cup E \subseteq Points /\ evaluated \cup batch \subseteq Points
          /\ evaluated \cap batch \subseteq Points
      BY <1>5, <1>10 DEF SearchTypes
    <3> QED
      BY <1>5, <1>10, <3>1, SubsetsCounted
  <2>2. CASE X = E
    <3>1. CASE E \subseteq evaluated
      <4>1. evaluated \cup E = evaluated
        BY <3>1
      <4> QED
        BY <1>5, <1>7, <2>2, <4>1 DEF Bounded, OverrunIsOneBatch
    <3>2. CASE Used(evaluated \cup E) <= StageBudget
      BY <1>7, <1>9, <2>1, <2>2, <3>2
    <3> QED
      BY <1>4, <3>1, <3>2
  <2>3. CASE X = batch
    <3>1. Used(evaluated) < StageBudget /\ Cardinality(batch) <= PopSize
      BY <1>1, <1>2 DEF GenerationDue
    <3>2. Cardinality(evaluated \cup batch) = Cardinality(evaluated) + Cardinality(batch) - Cardinality(evaluated \cap batch)
      BY <2>1, FS_Union
    <3>3. Used(evaluated \cup batch) <= Used(evaluated) + Cardinality(batch)
      BY <2>1, <3>2 DEF Used
    <3> QED
      BY <1>7, <1>9, <2>1, <2>3, <3>1, <3>3
  <2> QED
    BY <1>7, <2>2, <2>3
<1>15. Bounded'
  <2>1. Used(evaluated)' = Used(evaluated')
    BY DEF Used
  <2> QED
    BY <1>3, <1>7, <1>11, <1>14, <2>1 DEF Bounded, OverrunIsOneBatch, RankingIsFree
<1>16. LockIsUndominated'
  <2>1. FirstFront(StageOne)' = FirstFront(StageOne)
    BY <1>3 DEF FirstFront, Dominates, LatencyOf, APOf
  <2>2. WholeGrid' <=> WholeGrid
    BY <1>2 DEF WholeGrid, PopSize, Budget, TopK
  <2>3. ASSUME WholeGrid, stage = 1 PROVE evaluated' = StageOne
    <3>1. evaluated = StageOne /\ arm = "serial"
      BY <1>2, <1>5, <2>3 DEF LockIsUndominated, WholeGrid
    <3>2. evaluated' \subseteq StageOne
      BY <1>2, <1>3, <1>8, <2>3, <3>1 DEF SerialIsStepwise
    <3> QED
      BY <1>7, <3>1, <3>2
  <2>4. ASSUME WholeGrid, stage = 2 PROVE locked' = {q.width : q \in FirstFront(StageOne)}
    BY <1>2, <1>5, <2>4 DEF LockIsUndominated
  <2> QED
    BY <1>2, <1>3, <2>1, <2>2, <2>3, <2>4 DEF LockIsUndominated
<1> QED
  BY <1>8, <1>13, <1>15, <1>16 DEF SearchInv

\* The lock keeps the invariant: nothing was tuned before it, and without
\* relaxation it is the front of what was evaluated.
LEMMA LockStep ==
  ASSUME SearchInv, Lock
  PROVE  SearchInv'
<1>1. PICK R \in Relaxations : locked' = DefaultFront \cup R
  BY DEF Lock
<1>2. /\ UNCHANGED <<setup, arm, start, evaluated>> /\ arm = "serial" /\ stage = 1
      /\ stage' = 2 /\ phase' = "initial" /\ pop' = {} /\ seen' = {} /\ gens' = 0 /\ stall' = 0
      /\ phase # "initial"
  BY DEF Lock, StageOver
<1>3. setup \in Setups /\ SearchTypes /\ Bounded /\ LockIsUndominated /\ SerialIsStepwise
  BY DEF SearchInv, SearchTypes
<1>4. /\ Points' = Points /\ StageOne' = StageOne /\ Budget' = Budget /\ PopSize' = PopSize
  BY <1>2 DEF Points, Point, StageOne, Budget, PopSize, Quants, Schedules
<1>5. R \subseteq {p.width : p \in evaluated} \ DefaultFront
  BY <1>1 DEF Relaxations
<1>6. \A p \in evaluated : p.width \in Widths
  BY <1>3 DEF SearchTypes, Points, Point
<1>7. locked' \subseteq Widths
  BY <1>1, <1>5, <1>6 DEF DefaultFront, FirstFront
<1>8. SearchTypes'
  BY <1>2, <1>3, <1>4, <1>7, SearchAssumption DEF SearchTypes
<1>9. Bounded'
  BY <1>2, <1>3, <1>4 DEF Bounded, OverrunIsOneBatch, RankingIsFree, Used
<1>10. SerialIsStepwise'
  <2>1. evaluated \subseteq StageOne
    BY <1>2, <1>3 DEF SerialIsStepwise
  <2>2. \A p \in evaluated : p.sched = "default" /\ p.quant = "fp16"
    BY <2>1 DEF StageOne, Point
  <2> QED
    BY <1>2, <2>2 DEF SerialIsStepwise, DiscardedWidthsStayUntuned
<1>11. LockIsUndominated'
  <2>1. FirstFront(StageOne)' = FirstFront(StageOne)
    BY <1>2, <1>4 DEF FirstFront, Dominates, LatencyOf, APOf
  <2>2. WholeGrid' <=> WholeGrid
    BY <1>2 DEF WholeGrid, PopSize, Budget, TopK
  <2>3. ASSUME WholeGrid PROVE locked' = {q.width : q \in FirstFront(StageOne)}
    <3>1. evaluated = StageOne /\ TopK = 0
      BY <1>2, <1>3, <2>3 DEF LockIsUndominated, WholeGrid
    <3>2. {q \in evaluated : q.sched = "default" /\ q.quant = "fp16"} = StageOne
      BY <3>1 DEF StageOne, Point
    <3>3. DefaultFront = {q.width : q \in FirstFront(StageOne)}
      BY <3>2 DEF DefaultFront
    <3>4. R = {}
      <4> DEFINE rest == {p.width : p \in evaluated} \ DefaultFront
      <4>1. R \subseteq rest /\ Cardinality(R) = IF Cardinality(rest) <= TopK THEN Cardinality(rest) ELSE TopK
        BY <1>1 DEF Relaxations
      <4>2. IsFiniteSet(rest) /\ IsFiniteSet(R) /\ Cardinality(rest) \in Nat
        <5>1. rest \subseteq Widths
          BY <1>6
        <5> HIDE DEF rest
        <5> QED
          BY <4>1, <5>1, SearchAssumption, FS_Subset, FS_CardinalityType
      <4>3. Cardinality(R) = 0
        BY <3>1, <4>1, <4>2
      <4> QED
        BY <4>2, <4>3, FS_EmptySet
    <3> QED
      BY <1>1, <3>3, <3>4
  <2> QED
    BY <1>2, <2>1, <2>2, <2>3 DEF LockIsUndominated
<1> QED
  BY <1>8, <1>9, <1>10, <1>11 DEF SearchInv

\* The end of a search changes nothing.
LEMMA FinishStep ==
  ASSUME SearchInv, Finish \/ UNCHANGED vars
  PROVE  SearchInv'
<1>1. /\ UNCHANGED <<setup, arm, start, stage, pop, seen, evaluated, gens, stall, locked>>
      /\ phase' = phase \/ (phase' = "done" /\ phase # "initial" /\ (arm = "serial" => stage = 2))
  BY DEF Finish, StageOver, vars
<1>2. SearchTypes /\ Bounded /\ SerialIsStepwise /\ LockIsUndominated
  BY DEF SearchInv
<1>3. /\ Space' = Space /\ Points' = Points /\ StageBudget' = StageBudget /\ StageOne' = StageOne
      /\ Budget' = Budget /\ PopSize' = PopSize
      /\ (WholeGrid' <=> WholeGrid) /\ (GenerationDue' <=> GenerationDue)
      /\ FirstFront(StageOne)' = FirstFront(StageOne)
  BY <1>1 DEF Space, SpaceOf, Points, Point, StageOne, StageBudget, Budget, PopSize, Quants, Schedules, TopK,
              WholeGrid, GenerationDue, Used, FirstFront, Dominates, LatencyOf, APOf
<1>4. SearchTypes'
  BY <1>1, <1>2, <1>3 DEF SearchTypes
<1>5. Bounded'
  BY <1>1, <1>2, <1>3 DEF Bounded, OverrunIsOneBatch, RankingIsFree, Used
<1>6. SerialIsStepwise' /\ LockIsUndominated'
  BY <1>1, <1>2, <1>3 DEF SerialIsStepwise, LockIsUndominated, DiscardedWidthsStayUntuned
<1> QED
  BY <1>4, <1>5, <1>6 DEF SearchInv

\* SearchInv holds in every reachable state.
THEOREM SearchInvariance == Spec => []SearchInv
<1>1. SearchInv /\ [Next]_vars => SearchInv'
  BY InitialPopulationStep, GenerationStep, LockStep, FinishStep DEF Next
<1> QED
  BY SearchStart, <1>1, PTL DEF Spec

\* The invariant says what the property asks.
LEMMA InvariantBounds == SearchInv => ArmsStayInBounds
<1> SUFFICES ASSUME SearchInv PROVE ArmsStayInBounds
  OBVIOUS
<1>1. SearchTypes /\ Bounded /\ SerialIsStepwise /\ LockIsUndominated
  BY DEF SearchInv
<1>2. DiscardedWidthsStayUntuned
  BY <1>1 DEF SerialIsStepwise, DiscardedWidthsStayUntuned
<1>3. DominatedIsNeverTuned
  <2> SUFFICES ASSUME WholeGrid, NEW p \in evaluated, p.sched = "tuned"
               PROVE  p.width \in {q.width : q \in FirstFront(StageOne)}
    BY DEF DominatedIsNeverTuned, WholeGrid, StageOne
  <2>1. p.width \in locked
    BY <1>2 DEF DiscardedWidthsStayUntuned, WholeGrid
  <2>2. stage = 2
    BY <1>1, <2>1 DEF SearchTypes
  <2> QED
    BY <1>1, <2>1, <2>2 DEF LockIsUndominated
<1> QED
  BY <1>1, <1>2, <1>3 DEF ArmsStayInBounds, Bounded

\* For every grid, cost model, setup and arm, and whatever the explorer draws:
\* the serial arm tunes only widths it locked, none of them dominated where
\* the population holds the grid, ranking is free, and the budget is overrun
\* by less than one population (search_three_arm.py).
THEOREM ArmsAreBounded == Spec => []ArmsStayInBounds
  BY SearchInvariance, InvariantBounds, PTL

\* Types of the search, for every grid, setup and arm.
THEOREM SearchTypeCorrect == Spec => []TypeOK
<1>1. SearchInv => TypeOK
  <2> SUFFICES ASSUME SearchInv PROVE TypeOK
    OBVIOUS
  <2>1. SearchTypes
    BY DEF SearchInv
  <2>2. Space \subseteq Points
    BY <2>1, SpaceInPoints
  <2> QED
    BY <2>1, <2>2 DEF SearchTypes, TypeOK
<1> QED
  BY SearchInvariance, <1>1, PTL

----------------------------------------------------------------------------
(* PaperTable: what a manifest seals *)

(* The names of the four artifacts. *)
LEMMA NamesRange ==
    /\ Range(Names) = {"paper_table.raw.json", "paper_table.csv", "paper_table.md", "manifest.json"}
    /\ Len(Names) = 4
    /\ Names[1] = "paper_table.raw.json" /\ Names[2] = "paper_table.csv"
    /\ Names[3] = "paper_table.md" /\ Names[4] = "manifest.json"
    BY DEF Names, Range

(* The files of a run that writes are those of its input. *)
RootOf(in) == \A n \in Range(Names) : root[n] # Absent => root[n] = Artifact(in, n)

(* What holds of the output root between two steps. *)
RootInv ==
    /\ root = [n \in Range(Names) |-> root[n]]
    /\ step \in {"idle", "writing", "refused"} /\ next \in 1..4
    /\ step = "writing" => RootOf(input) /\ \A i \in 1..(next - 1) : root[Names[i]] # Absent
    /\ ManifestSealsRoot

\* What each of the four files holds.
LEMMA ArtifactShape ==
    ASSUME NEW in
    PROVE  /\ Artifact(in, "paper_table.raw.json") = Whole(Report(in))
           /\ Artifact(in, "paper_table.csv") = Whole(Rows(in))
           /\ Artifact(in, "paper_table.md") = Whole(Markdown(in))
           /\ Artifact(in, "manifest.json") =
                Whole([inputs |-> in, raw |-> Report(in), csv |-> Rows(in), md |-> Markdown(in)])
    <1>1. Artifact(in, "paper_table.raw.json") = Whole(Report(in))
        BY Zenon DEF Artifact
    <1>2. Artifact(in, "paper_table.csv") = Whole(Rows(in))
        BY Zenon DEF Artifact
    <1>3. Artifact(in, "paper_table.md") = Whole(Markdown(in))
        BY Zenon DEF Artifact
    <1>4. Artifact(in, "manifest.json") =
                Whole([inputs |-> in, raw |-> Report(in), csv |-> Rows(in), md |-> Markdown(in)])
        BY Zenon DEF Artifact
    <1>5. QED BY <1>1, <1>2, <1>3, <1>4

\* The invariant of the root holds at the start.
LEMMA RootInit == TableInit => RootInv
    BY NamesRange DEF TableInit, RootInv, RootOf, ManifestSealsRoot, Absent

\* A run that starts finds an empty root, or ends.
LEMMA StartStep == RootInv /\ Start => RootInv'
    <1> SUFFICES ASSUME RootInv, Start PROVE RootInv' OBVIOUS
    <1>1. PICK in : /\ input' = in
                    /\ step' \in {"writing", "refused"}
                    /\ step' = "writing" => Preflight(root, in)
        BY Zenon DEF Start
    <1>2. root' = root /\ next' = 1
        BY Zenon DEF Start
    <1>3. QED BY <1>1, <1>2, NamesRange DEF RootInv, RootOf, ManifestSealsRoot, Preflight

\* A run writes the files in their order, the manifest last.
LEMMA WriteStep == RootInv /\ Write => RootInv'
    BY NamesRange, ArtifactShape DEF Write, RootInv, RootOf, ManifestSealsRoot, Whole, Absent

\* A run that dies leaves the manifest whole only over whole files.
LEMMA CrashStep == RootInv /\ Crash => RootInv'
    BY NamesRange, ArtifactShape DEF Crash, RootInv, RootOf, ManifestSealsRoot, Whole, Absent, Torn

\* Every step keeps the invariant of the root.
LEMMA RootNext == RootInv /\ [TableNext]_tableVars => RootInv'
    <1>1. RootInv /\ UNCHANGED tableVars => RootInv'
        BY DEF tableVars, RootInv, RootOf, ManifestSealsRoot
    <1>2. QED BY <1>1, StartStep, WriteStep, CrashStep DEF TableNext

\* For every input, any number of runs and wherever they die: a manifest in the
\* output root seals the files beside it (paper_table_v1.py).
THEOREM RootIsSealed == TableSpec => []ManifestSealsRoot
    <1>1. RootInv => ManifestSealsRoot
        BY DEF RootInv
    <1>2. QED BY <1>1, RootInit, RootNext, PTL DEF TableSpec

\* Nothing or one.
LEMMA AtMostOne ==
    ASSUME NEW s, s = <<>> \/ \E x : s = <<x>>
    PROVE  Len(s) <= 1
    <1>1. CASE s = <<>>
        BY <1>1
    <1>2. CASE \E x : s = <<x>>
        BY <1>2
    <1>3. QED BY <1>1, <1>2

\* A cell shows one point at most.
LEMMA ShownIsOne ==
    ASSUME NEW points, NEW cell
    PROVE  CellResult(points, cell).shown = <<>> \/ \E p : CellResult(points, cell).shown = <<p>>
    <1>1. ASSUME NEW s PROVE Best(s) = <<>> \/ \E p : Best(s) = <<p>>
        BY Zenon DEF Best
    <1>2. ASSUME NEW s, NEW floor
          PROVE  Representative(s, floor) = <<>> \/ \E p : Representative(s, floor) = <<p>>
        BY <1>1, Zenon DEF Representative, Select, FastestTrusted
    <1> DEFINE bases == ArmPoints(points, cell.device, Baseline)
               arm_ == ByEvidenceId(ArmPoints(points, cell.device, cell.method))
               shown == Representative(arm_, bases[1].ap70 - PublicDelta)
    <1>3. CellResult(points, cell).shown = IF Len(bases) # 1 \/ ~Trusted(bases[1]) THEN <<>> ELSE shown
        BY DEF CellResult
    <1>4. QED BY <1>2, <1>3, Zenon

\* Every step keeps the types.
LEMMA TableTypes == TableTypeOK /\ RootInv /\ [TableNext]_tableVars => TableTypeOK'
    <1> SUFFICES ASSUME TableTypeOK, RootInv, [TableNext]_tableVars PROVE TableTypeOK' OBVIOUS
    <1> USE NamesRange, TableAssumption
    <1>1. CASE Start
        <2>1. PICK in : IF ~InputValid(in)
                        THEN report' = <<>> /\ tables' = <<>> /\ step' = "refused"
                        ELSE /\ report' = <<Report(in)>>
                             /\ tables' = LET points == Bind(in)
                                              bases == SelectSeq(points, LAMBDA p : p.method = Baseline)
                                          IN IF bases = <<>> THEN <<>>
                                             ELSE <<[d \in Deltas |-> BackendTable([in EXCEPT !.points = points], bases[1], d)]>>
                             /\ step' = IF Preflight(root, in) THEN "writing" ELSE "refused"
            BY <1>1, Zenon DEF Start
        <2>5. /\ report' = <<>> \/ report' = <<Report(in)>>
              /\ tables' = <<>> \/ \E t : tables' = <<t>>
              /\ step' \in {"idle", "writing", "refused"}
            BY <2>1, Zenon
        <2>6. Len(report') <= 1 /\ Len(tables') <= 1
            BY <2>5, AtMostOne, Zenon
        <2>2. next' = 1 /\ runs' = runs + 1 /\ runs < MaxRuns /\ UNCHANGED <<root, crashes>>
            BY <1>1, Zenon DEF Start
        <2>3. ASSUME NEW i \in DOMAIN Report(in)
              PROVE Len(Report(in)[i].shown) <= 1
            BY ShownIsOne, AtMostOne, Zenon DEF Report
        <2>7. report' # <<>> => \A i \in DOMAIN report'[1] : Len(report'[1][i].shown) <= 1
            <3>1. CASE report' = <<>>
                BY <3>1
            <3>2. CASE report' = <<Report(in)>>
                <4>1. report'[1] = Report(in)
                    BY <3>2
                <4>2. QED BY <2>3, <4>1
            <3>3. QED BY <2>5, <3>1, <3>2
        <2>8. next' \in 1..Len(Names) /\ runs' \in 0..MaxRuns /\ crashes' \in 0..MaxCrashes
            BY <2>2 DEF TableTypeOK
        <2>9. \A n \in Range(Names) : root'[n].state \in {"absent", "torn", "whole"}
            BY <2>2 DEF TableTypeOK
        <2>4. QED BY <2>5, <2>6, <2>7, <2>8, <2>9, Zenon DEF TableTypeOK
    <1>2. CASE Write
        BY <1>2, ArtifactShape DEF Write, TableTypeOK, Whole, Absent
    <1>3. CASE Crash
        <2>1. crashes' \in 0..MaxCrashes /\ next' \in 1..Len(Names) /\ runs' \in 0..MaxRuns
            BY <1>3 DEF Crash, TableTypeOK
        <2>2. \A n \in Range(Names) : root'[n].state \in {"absent", "torn", "whole"}
            <3>1. PICK other : root' = root \/ root' = [root EXCEPT ![other] = Torn]
                BY <1>3 DEF Crash
            <3>2. Torn.state = "torn"
                BY DEF Torn
            <3>3. root = [n \in Range(Names) |-> root[n]]
                BY DEF RootInv
            <3>4. QED BY <3>1, <3>2, <3>3 DEF TableTypeOK
        <2>3. UNCHANGED <<report, tables>> /\ step' = "idle"
            BY <1>3 DEF Crash
        <2>4. QED BY <2>1, <2>2, <2>3, Zenon DEF TableTypeOK
    <1>4. CASE UNCHANGED tableVars
        BY <1>4 DEF tableVars, TableTypeOK
    <1>5. QED BY <1>1, <1>2, <1>3, <1>4 DEF TableNext

\* Types of the report, the backend tables and the output root.
THEOREM TableTypeCorrect == TableSpec => []TableTypeOK
    <1>1. TableInit => TableTypeOK
        BY NamesRange, TableAssumption DEF TableInit, TableTypeOK, Absent
    <1>2. QED BY <1>1, TableTypes, RootInit, RootNext, PTL DEF TableSpec
=============================================================================
