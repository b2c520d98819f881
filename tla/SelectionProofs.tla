-------------------------- MODULE SelectionProofs ---------------------------
(***************************************************************************)
(* Proofs about the programs that select what is measured next and judge   *)
(* what was learned from it.                                               *)
(*                                                                         *)
(* Stage7Trajectory: for any trajectories, pools, models and policies, and *)
(* however often a trajectory is forked, every request ends one chain of   *)
(* disjoint batches, all but the last measured. A request carries its      *)
(* whole history, and a feedback file stands beside the request it         *)
(* answers; requests and answers are only added, so what a request was     *)
(* founded on goes on to be there.                                         *)
(*                                                                         *)
(* RegistryMaterialization: for any plans, recipes and overlapping         *)
(* builders a published registry is its plan, with nothing shared. The     *)
(* registry says what some builder wrote, so the argument is kept builder  *)
(* by builder, and it does not matter how they overlap.                    *)
(*                                                                         *)
(* ProductionSelection: for any tables and roots, what is published is     *)
(* new, calibrated on held-out groups of each model, and asks for the same *)
(* groups in every artifact of a root.  A run that finds a root clean      *)
(* writes what its own selection renders; an artifact it finds is equal to *)
(* its own, though another run on another table may have left it.          *)
(*                                                                         *)
(* Stage4Closure: for any table and any rebuilding of it, a closed audit   *)
(* can be relied on. The evaluation keeps the rows it was built from, and  *)
(* the audit derives from the table of its own time what those rows must   *)
(* have been.                                                              *)
(*                                                                         *)
(* NestedSelection: for any table, candidates and scores, and any split of *)
(* the groups, a nested selection judges no model on what it learned from  *)
(* and predicts every row once. A split is a function of groups, so what   *)
(* a fold tests and what it trains on differ in every group; an inner fold *)
(* splits what the outer fold trains on, and inherits that.                *)
(***************************************************************************)
EXTENDS Stage7Trajectory, RegistryMaterialization, ProductionSelection, Stage4Closure,
        NestedSelection, FiniteSetTheorems, WellFoundedInduction, TLAPS

\* Of the subsets of a finite set that are bad, if there are any, one has no
\* bad proper subset: an argument by induction over subsets ends there.
LEMMA MinimalCounterexample ==
  ASSUME NEW S, IsFiniteSet(S), NEW bad, bad \subseteq SUBSET S, bad # {}
  PROVE  \E T \in bad : \A U \in bad : ~(U \subseteq T /\ U # T)
<1>1. bad \subseteq FiniteSubsetsOf(S)
  BY FS_Subset DEF FiniteSubsetsOf
<1>2. PICK T \in bad : \A U \in bad : ~(<<U, T>> \in StrictSubsetOrdering(S))
  BY <1>1, WFMin, FS_StrictSubsetOrderingWellFounded, Zenon
<1>3. \A U, V \in SUBSET S : U \subseteq V /\ U # V => <<U, V>> \in StrictSubsetOrdering(S)
  BY Zenon DEF StrictSubsetOrdering
<1> QED
  BY <1>2, <1>3, Zenon

\* A nonempty finite set has an element of the highest value.
LEMMA BestExists ==
  ASSUME NEW S, IsFiniteSet(S), S # {}, NEW f, \A x \in S : f[x] \in Int
  PROVE  \E x \in S : \A y \in S : f[y] <= f[x]
<1> DEFINE HasBest(T) == \E x \in T : \A y \in T : f[y] <= f[x]
           bad == {T \in SUBSET S : T # {} /\ ~HasBest(T)}
<1> SUFFICES ASSUME bad # {} PROVE FALSE
  <2>1. S \notin bad
    OBVIOUS
  <2> QED
    BY <2>1
<1>1. PICK T \in bad : \A U \in bad : ~(U \subseteq T /\ U # T)
  <2>1. bad \subseteq SUBSET S /\ bad # {}
    OBVIOUS
  <2> HIDE DEF bad
  <2> QED
    BY <2>1, MinimalCounterexample
<1>2. PICK x \in T : TRUE
  BY <1>1
<1>3. CASE T = {x}
  BY <1>1, <1>3
<1>4. CASE T # {x}
  <2>1. T \ {x} \in SUBSET S /\ T \ {x} # {} /\ T \ {x} \subseteq T /\ T \ {x} # T
    BY <1>2, <1>4
  <2>2. HasBest(T \ {x})
    BY <1>1, <2>1
  <2>3. PICK z \in T \ {x} : \A y \in T \ {x} : f[y] <= f[z]
    BY <2>2
  <2>4. f[x] \in Int /\ f[z] \in Int /\ \A y \in T : f[y] \in Int
    BY <1>2
  <2>5. CASE f[x] <= f[z]
    BY <2>3, <2>4, <2>5, <1>1
  <2>6. CASE f[z] < f[x]
    <3>1. \A y \in T : f[y] <= f[x]
      BY <2>3, <2>4, <2>6
    <3> QED
      BY <3>1, <1>1, <1>2
  <2> QED
    BY <2>4, <2>5, <2>6
<1> QED
  BY <1>3, <1>4


----------------------------------------------------------------------------
(* Stage7Trajectory: the chains of requests *)

RequestType ==
    [kind : {"request"}, variant : Variants, seed : {t.seed : t \in Trajectories},
     round : Rounds, batch : SUBSET Genomes, history : Seq(SUBSET Genomes),
     pool : Pools, used : Predictions]
FeedbackType == [kind : {"feedback"}, request : RequestType, rows : SUBSET Genomes,
                 terminal : BOOLEAN]
DataInv ==
    /\ out \in [OutputPaths -> {Absent, Torn} \cup RequestType]
    /\ feedback \in [OutputPaths -> {Absent} \cup FeedbackType]

(* A feedback file stands beside the request it answers.                   *)
FeedbackInv ==
    \A o \in OutputPaths : feedback[o].kind = "feedback" =>
        out[o].kind = "request" /\ feedback[o].request = out[o]

(* The requests that were measured as a whole.                             *)
Measured == {q \in Requests : \E f \in Files : Answers(f, q)}

(* A request r may stand where the requests R stand, of which M are         *)
(* measured.                                                               *)
Founded(r, R, M) ==
    /\ \E t \in Trajectories : r.variant = t.variant /\ r.seed = t.seed
    /\ Len(r.history) = r.round + 1 /\ Cardinality(r.batch) = BatchSize
    /\ r.history[r.round + 1] = r.batch
    /\ Cardinality(Selected(r.history)) = BatchSize * (r.round + 1)
    /\ \A j \in 0..r.round : \E q \in R : IsRound(q, j, r) /\ (j < r.round => q \in M)
    /\ r.variant = "without_measured_feedback" =>
          \E q \in R : /\ q.variant = r.variant /\ q.seed = r.seed /\ q.round = 0
                       /\ q.used = r.used /\ q.pool = r.pool
TrajectoryInv ==
    /\ DataInv
    /\ FeedbackInv
    /\ \A r \in Requests : Founded(r, Requests, Measured)

-----------------------------------------------------------------------------
(* Rounds are counted from zero without gaps.                              *)
LEMMA RoundsFacts == 0 \in Rounds /\ \A k \in Rounds : k \in Nat /\ (k > 0 => k - 1 \in Rounds)
  BY TrajectoryAssumption DEF Rounds

(* What a history has selected is finite, and grows by its last batch.     *)
LEMMA SelectedAppend ==
  ASSUME NEW h \in Seq(SUBSET Genomes), NEW b \in SUBSET Genomes
  PROVE  /\ Append(h, b) \in Seq(SUBSET Genomes) /\ Len(Append(h, b)) = Len(h) + 1
         /\ Selected(Append(h, b)) = Selected(h) \cup b
         /\ Selected(h) \in SUBSET Genomes
  <1>1. /\ Append(h, b) \in Seq(SUBSET Genomes) /\ Len(Append(h, b)) = Len(h) + 1
        /\ Len(h) \in Nat /\ Append(h, b)[Len(h) + 1] = b
        /\ \A i \in 1 .. Len(h) : h[i] \in SUBSET Genomes /\ Append(h, b)[i] = h[i]
    OBVIOUS
  <1> DEFINE a == Append(h, b)
  <1> HIDE DEF a
  <1>2. UNION {a[i] : i \in 1 .. Len(h) + 1} = (UNION {h[i] : i \in 1 .. Len(h)}) \cup b
    <2>1. Len(h) \in Nat /\ a[Len(h) + 1] = b /\ \A i \in 1 .. Len(h) : a[i] = h[i]
      BY <1>1 DEF a
    <2>2. ASSUME NEW x \in UNION {a[i] : i \in 1 .. Len(h) + 1}
          PROVE  x \in (UNION {h[i] : i \in 1 .. Len(h)}) \cup b
      <3>1. PICK i \in 1 .. Len(h) + 1 : x \in a[i]
        OBVIOUS
      <3>2. i = Len(h) + 1 \/ i \in 1 .. Len(h)
        BY <2>1
      <3>3. QED
        BY <2>1, <3>1, <3>2
    <2>3. ASSUME NEW x \in (UNION {h[i] : i \in 1 .. Len(h)}) \cup b
          PROVE  x \in UNION {a[i] : i \in 1 .. Len(h) + 1}
      <3>1. CASE x \in b
        BY <2>1, <3>1
      <3>2. CASE \E i \in 1 .. Len(h) : x \in h[i]
        <4>1. PICK i \in 1 .. Len(h) : x \in h[i]
          BY <3>2
        <4>2. i \in 1 .. Len(h) + 1 /\ x \in a[i]
          BY <2>1, <4>1
        <4>3. QED
          BY <4>2
      <3>3. QED
        BY <3>1, <3>2
    <2>4. QED
      BY <2>2, <2>3
  <1>3. QED
    BY <1>1, <1>2 DEF Selected, a

(* The four acquisitions choose new candidates, a batch of them.           *)
LEMMA ChooseBatch ==
  ASSUME NEW t \in Trajectories, NEW p \in Predictions, NEW pool \in Pools, NEW h,
         Cardinality(pool \ Selected(h)) >= BatchSize
  PROVE  /\ Choose(t, p, pool, h) \subseteq pool \ Selected(h)
         /\ Choose(t, p, pool, h) \in SUBSET Genomes
         /\ Cardinality(Choose(t, p, pool, h)) = BatchSize
  <1> DEFINE free == pool \ Selected(h)
  <1>1. free \in SUBSET Genomes
    BY DEF Genomes
  <1>2. /\ Policy[p][free] \subseteq free /\ Cardinality(Policy[p][free]) = BatchSize
        /\ Draw[t.seed][free] \subseteq free /\ Cardinality(Draw[t.seed][free]) = BatchSize
    BY <1>1, PolicyAssumption
  <1>3. QED
    BY <1>1, <1>2 DEF Choose

(* The batch of a request adds to what is selected.                        *)
LEMMA RequestOnTop ==
  ASSUME NEW t \in Trajectories, NEW k \in Rounds, NEW p \in Predictions, NEW pool \in Pools,
         NEW h \in Seq(SUBSET Genomes), Len(h) = k,
         Cardinality(Selected(h)) = BatchSize * k,
         Cardinality(pool \ Selected(h)) >= BatchSize
  PROVE  LET r == Request(t, k, Choose(t, p, pool, h), h, pool, p)
         IN  /\ r \in RequestType /\ r.kind = "request"
             /\ r.variant = t.variant /\ r.seed = t.seed /\ r.round = k
             /\ r.used = p /\ r.pool = pool /\ r.history = Append(h, r.batch)
             /\ Len(r.history) = k + 1 /\ Cardinality(r.batch) = BatchSize
             /\ Cardinality(Selected(r.history)) = BatchSize * (k + 1)
  <1> DEFINE b == Choose(t, p, pool, h)
             r == Request(t, k, b, h, pool, p)
  <1>1. /\ b \subseteq pool \ Selected(h) /\ b \in SUBSET Genomes
        /\ Cardinality(b) = BatchSize
    BY ChooseBatch
  <1> HIDE DEF b
  <1>2. /\ Append(h, b) \in Seq(SUBSET Genomes) /\ Len(Append(h, b)) = Len(h) + 1
        /\ Selected(Append(h, b)) = Selected(h) \cup b /\ Selected(h) \in SUBSET Genomes
    BY <1>1, SelectedAppend
  <1>3. Cardinality(Selected(h) \cup b) = BatchSize * k + BatchSize
    <2>1. IsFiniteSet(Selected(h)) /\ IsFiniteSet(b)
      BY <1>1, <1>2, TrajectoryAssumption, FS_Subset
    <2>2. Selected(h) \cap b = {}
      BY <1>1
    <2>3. Cardinality({}) = 0 /\ BatchSize * k \in Nat /\ BatchSize \in Nat
      BY FS_EmptySet, TrajectoryAssumption, RoundsFacts
    <2>4. Cardinality(Selected(h) \cup b) =
             Cardinality(Selected(h)) + Cardinality(b) - Cardinality(Selected(h) \cap b)
      BY <2>1, FS_Union
    <2>5. Cardinality(Selected(h) \cap b) = 0
      BY <2>2, <2>3
    <2>6. QED
      BY <1>1, <2>3, <2>4, <2>5
  <1>4. BatchSize * k + BatchSize = BatchSize * (k + 1)
    BY TrajectoryAssumption, RoundsFacts
  <1>5. r \in RequestType /\ r.history = Append(h, b) /\ r.batch = b /\ r.kind = "request"
    BY <1>1, <1>2, TrajectoryAssumption DEF Request, RequestType
  <1>6. r.variant = t.variant /\ r.seed = t.seed /\ r.round = k /\ r.used = p /\ r.pool = pool
    BY DEF Request
  <1> HIDE DEF r
  <1>7. QED
    BY <1>1, <1>2, <1>3, <1>4, <1>5, <1>6 DEF b, r

(* What stands goes on to stand when requests and answers are added.       *)
LEMMA FoundedStays ==
  ASSUME NEW R, NEW S, R \subseteq S, NEW M, NEW N, M \subseteq N, NEW r, Founded(r, R, M)
  PROVE  Founded(r, S, N)
  <1>1. ASSUME NEW j \in 0..r.round
        PROVE  \E q \in S : IsRound(q, j, r) /\ (j < r.round => q \in N)
    <2>1. PICK q \in R : IsRound(q, j, r) /\ (j < r.round => q \in M)
      BY Zenon DEF Founded
    <2>2. QED
      BY <2>1, Zenon
  <1>2. QED
    BY <1>1, Zenon DEF Founded

(* Requests are what the paths hold.                                       *)
LEMMA RequestsTyped ==
  ASSUME DataInv
  PROVE  /\ Requests \subseteq RequestType
         /\ \A o \in OutputPaths : out[o].kind = "request" => out[o] \in Requests
         /\ \A o \in OutputPaths : out[o] \notin {Absent, Torn} => out[o].kind = "request"
         /\ Absent.kind # "request" /\ Torn.kind # "request"
  BY DEF DataInv, Requests, RequestType, Absent, Torn

-----------------------------------------------------------------------------
(* Writing a request that may stand where nothing was disturbs nothing.    *)
LEMMA WriteStep ==
  ASSUME TrajectoryInv, NEW o \in OutputPaths, NEW r \in RequestType,
         Founded(r, Requests \cup {r}, Measured), Write(o, r), UNCHANGED feedback
  PROVE  TrajectoryInv'
  <1>1. PICK c \in {r, Torn} : out' = [out EXCEPT ![o] = c]
    BY DEF Write
  <1>2. /\ out \in [OutputPaths -> {Absent, Torn} \cup RequestType] /\ out[o] = Absent
        /\ feedback' = feedback
    BY DEF TrajectoryInv, DataInv, Write
  <1>3. /\ (out')[o] = c /\ \A u \in OutputPaths : u # o => (out')[u] = out[u]
        /\ out' \in [OutputPaths -> {Absent, Torn} \cup RequestType]
    BY <1>1, <1>2
  <1>4. DataInv'
    BY <1>2, <1>3 DEF TrajectoryInv, DataInv
  <1>5. /\ Requests \subseteq Requests' /\ Requests' \subseteq Requests \cup {r}
        /\ c = r => r \in Requests'
    BY <1>1, <1>2, <1>3 DEF Requests, Absent, Torn, RequestType
  <1>6. FeedbackInv'
    BY <1>2, <1>3 DEF TrajectoryInv, FeedbackInv, Absent
  <1>7. Measured \subseteq Measured'
    BY <1>2, <1>5 DEF Measured, Files, Answers
  <1>8. ASSUME NEW q \in Requests' PROVE Founded(q, Requests', Measured')
    <2>1. CASE q \in Requests
      <3>1. Founded(q, Requests, Measured)
        BY <2>1 DEF TrajectoryInv
      <3>2. QED
        BY <3>1, <1>5, <1>7, FoundedStays
    <2>2. CASE q \notin Requests
      <3>1. q = r /\ Requests \cup {r} \subseteq Requests'
        BY <1>5, <2>2
      <3>2. QED
        BY <3>1, <1>7, FoundedStays
    <2>3. QED
      BY <2>1, <2>2
  <1>9. \A q : Founded(q, Requests, Measured)' <=> Founded(q, Requests', Measured')
    BY DEF Founded, IsRound, Selected
  <1>10. QED
    BY <1>4, <1>6, <1>8, <1>9 DEF TrajectoryInv

(* Round zero starts from nothing. *)
LEMMA FirstStep ==
  ASSUME TrajectoryInv, NEW o \in OutputPaths, NEW t \in Trajectories, NEW pool \in Pools,
         NEW p \in Predictions, SelectFirst(o, t, pool, p)
  PROVE  TrajectoryInv'
  <1> DEFINE r == Request(t, 0, Choose(t, p, pool, << >>), << >>, pool, p)
  <1>1. << >> \in Seq(SUBSET Genomes) /\ Len(<< >>) = 0 /\ Selected(<< >>) = {}
    BY DEF Selected
  <1>2. Cardinality(Selected(<< >>)) = BatchSize * 0
    <2>1. Cardinality(Selected(<< >>)) = 0
      BY <1>1, FS_EmptySet
    <2>2. BatchSize * 0 = 0
      BY TrajectoryAssumption
    <2>3. QED
      BY <2>1, <2>2
  <1>3. Cardinality(pool \ Selected(<< >>)) >= BatchSize
    <2>1. pool \ Selected(<< >>) = pool
      BY <1>1
    <2>2. QED
      BY <2>1 DEF SelectFirst
  <1>4. /\ r \in RequestType
        /\ r.variant = t.variant /\ r.seed = t.seed /\ r.round = 0
        /\ r.history = Append(<< >>, r.batch)
        /\ Len(r.history) = 0 + 1 /\ Cardinality(r.batch) = BatchSize
        /\ Cardinality(Selected(r.history)) = BatchSize * (0 + 1)
    <2>1. PICK z, h : z = 0 /\ h = << >>
      OBVIOUS
    <2>2. /\ z \in Rounds /\ h \in Seq(SUBSET Genomes) /\ Len(h) = z
          /\ Cardinality(Selected(h)) = BatchSize * z
          /\ Cardinality(pool \ Selected(h)) >= BatchSize
      BY <1>1, <1>2, <1>3, <2>1, RoundsFacts
    <2>3. LET s == Request(t, z, Choose(t, p, pool, h), h, pool, p)
          IN  /\ s \in RequestType
              /\ s.variant = t.variant /\ s.seed = t.seed /\ s.round = z
              /\ s.history = Append(h, s.batch)
              /\ Len(s.history) = z + 1 /\ Cardinality(s.batch) = BatchSize
              /\ Cardinality(Selected(s.history)) = BatchSize * (z + 1)
      BY <2>2, RequestOnTop
    <2>4. QED
      BY <2>1, <2>3
  <1>5. Write(o, r) /\ UNCHANGED feedback
    BY DEF SelectFirst
  <1> HIDE DEF r
  <1>6. IsRound(r, 0, r)
    <2>1. Append(<< >>, r.batch)[1] = r.batch
      OBVIOUS
    <2>2. QED
      BY <1>4, <2>1 DEF IsRound
  <1>7. Founded(r, Requests \cup {r}, Measured)
    <2>1. 0..r.round = {0}
      BY <1>4
    <2>2. r.history[r.round + 1] = r.batch
      BY <1>4, <1>6 DEF IsRound
    <2>3. QED
      BY <1>4, <1>6, <2>1, <2>2 DEF Founded
  <1>8. QED
    BY <1>4, <1>5, <1>7, WriteStep

(* A later round stands on one chain of the same trajectory and on the      *)
(* answer to its end, whatever was brought.                                *)
LEMMA NextStep ==
  ASSUME TrajectoryInv, NEW o \in OutputPaths, NEW t \in Trajectories, NEW k \in Rounds,
         SelectNext(o, t, k)
  PROVE  TrajectoryInv'
  <1>1. PICK r \in {r \in Requests : Precedes(r, t, k)}, f \in Files :
          /\ Answers(f, r)
          /\ \E pool \in Pools :
              /\ Cardinality(pool \ Selected(r.history)) >= BatchSize
              /\ \E p \in IF t.variant = "without_measured_feedback"
                          THEN {q.used : q \in {q \in Requests : FrozenValid(q, t, pool)}}
                          ELSE Predictions :
                    Write(o, Request(t, k, Choose(t, p, pool, r.history), r.history, pool, p))
    BY DEF SelectNext
  <1>2. PICK pool \in Pools :
              /\ Cardinality(pool \ Selected(r.history)) >= BatchSize
              /\ \E p \in IF t.variant = "without_measured_feedback"
                          THEN {q.used : q \in {q \in Requests : FrozenValid(q, t, pool)}}
                          ELSE Predictions :
                    Write(o, Request(t, k, Choose(t, p, pool, r.history), r.history, pool, p))
    BY <1>1
  <1>3. PICK p \in IF t.variant = "without_measured_feedback"
                   THEN {q.used : q \in {q \in Requests : FrozenValid(q, t, pool)}}
                   ELSE Predictions :
                Write(o, Request(t, k, Choose(t, p, pool, r.history), r.history, pool, p))
    BY <1>2
  <1>4. k > 0 /\ k \in Nat /\ UNCHANGED feedback
    BY RoundsFacts DEF SelectNext
  <1>5. /\ r \in Requests /\ r \in RequestType /\ r \in Measured
        /\ r.variant = t.variant /\ r.seed = t.seed /\ r.round = k - 1
    BY <1>1, RequestsTyped DEF TrajectoryInv, Measured, Precedes
  <1>6. Founded(r, Requests, Measured)
    BY <1>5 DEF TrajectoryInv
  <1>7. p \in Predictions /\ (t.variant = "without_measured_feedback" =>
           \E q \in Requests : /\ q.variant = t.variant /\ q.seed = t.seed /\ q.round = 0
                               /\ q.used = p /\ q.pool = pool)
    <2>1. CASE t.variant = "without_measured_feedback"
      <3>1. PICK q \in Requests : FrozenValid(q, t, pool) /\ p = q.used
        BY <1>3, <2>1
      <3>2. q \in RequestType /\ Founded(q, Requests, Measured)
        BY RequestsTyped DEF TrajectoryInv
      <3>3. PICK z \in Requests : /\ z.variant = q.variant /\ z.seed = q.seed /\ z.round = 0
                                  /\ z.used = q.used /\ z.pool = q.pool
        BY <3>1, <3>2 DEF Founded, FrozenValid
      <3>4. QED
        BY <2>1, <3>1, <3>2, <3>3 DEF FrozenValid, RequestType
    <2>2. CASE t.variant # "without_measured_feedback"
      BY <1>3, <2>2
    <2>3. QED
      BY <2>1, <2>2
  <1> DEFINE new == Request(t, k, Choose(t, p, pool, r.history), r.history, pool, p)
  <1>8. /\ r.history \in Seq(SUBSET Genomes) /\ Len(r.history) = k
        /\ Cardinality(Selected(r.history)) = BatchSize * k
    <2>1. (k - 1) + 1 = k
      BY <1>4
    <2>2. QED
      BY <1>5, <1>6, <2>1 DEF Founded, RequestType
  <1>9. /\ new \in RequestType
        /\ new.variant = t.variant /\ new.seed = t.seed /\ new.round = k
        /\ new.used = p /\ new.pool = pool /\ new.history = Append(r.history, new.batch)
        /\ Len(new.history) = k + 1 /\ Cardinality(new.batch) = BatchSize
        /\ Cardinality(Selected(new.history)) = BatchSize * (k + 1)
    BY <1>2, <1>7, <1>8, RequestOnTop
  <1>10. Write(o, new)
    BY <1>3
  <1> HIDE DEF new
  <1>11. /\ new.history[k + 1] = new.batch
         /\ \A i \in 1..k : new.history[i] = r.history[i]
    BY <1>4, <1>8, <1>9
  <1>12. ASSUME NEW j \in 0..k
         PROVE  \E q \in Requests \cup {new} : IsRound(q, j, new) /\ (j < k => q \in Measured)
    <2>1. CASE j = k
      <3>1. IsRound(new, k, new)
        BY <1>9, <1>11 DEF IsRound
      <3>2. QED
        BY <2>1, <3>1, <1>4
    <2>2. CASE j < k
      <3>1. j \in 0..r.round /\ (j < r.round \/ j = r.round)
        BY <1>4, <1>5, <2>2
      <3>2. PICK q \in Requests : IsRound(q, j, r) /\ (j < r.round => q \in Measured)
        BY <1>6, <3>1 DEF Founded
      <3>3. CASE j < r.round
        <4>1. \A i \in 1..(j + 1) : i \in 1..k
          BY <1>4, <2>2
        <4>2. j + 1 \in 1..k
          BY <1>4, <2>2
        <4>3. IsRound(q, j, new)
          BY <1>5, <1>9, <1>11, <3>2, <4>1, <4>2 DEF IsRound
        <4>4. QED
          BY <3>2, <3>3, <4>3
      <3>4. CASE j = r.round
        <4>1. j + 1 = k
          BY <1>4, <1>5, <3>4
        <4>2. IsRound(r, j, new)
          <5>1. r.batch = r.history[j + 1]
            BY <1>6, <3>4 DEF Founded
          <5>2. QED
            BY <1>5, <1>8, <1>9, <1>11, <3>4, <4>1, <5>1 DEF IsRound
        <4>3. QED
          BY <1>5, <4>2
      <3>5. QED
        BY <3>1, <3>3, <3>4
    <2>3. QED
      BY <1>4, <2>1, <2>2
  <1>13. Founded(new, Requests \cup {new}, Measured)
    BY <1>7, <1>9, <1>11, <1>12 DEF Founded
  <1>14. QED
    BY <1>4, <1>9, <1>10, <1>13, WriteStep

(* An answer is only replaced while it is not complete.                    *)
LEMMA MeasureStep ==
  ASSUME TrajectoryInv, NEW o \in OutputPaths, Measure(o)
  PROVE  TrajectoryInv'
  <1>1. PICK rows \in {out[o].batch, {}}, b \in BOOLEAN :
          feedback' = [feedback EXCEPT ![o] =
              [kind |-> "feedback", request |-> out[o], rows |-> rows, terminal |-> b]]
    BY DEF Measure
  <1> DEFINE answer == [kind |-> "feedback", request |-> out[o], rows |-> rows, terminal |-> b]
  <1>2. /\ out[o].kind = "request" /\ out' = out
        /\ feedback[o] = Absent \/ ~Answers(feedback[o], out[o])
        /\ feedback \in [OutputPaths -> {Absent} \cup FeedbackType]
    BY DEF Measure, TrajectoryInv, DataInv
  <1>3. out[o] \in RequestType
    BY <1>2 DEF TrajectoryInv, DataInv, Absent, Torn
  <1>4. answer \in FeedbackType
    BY <1>3 DEF FeedbackType, RequestType
  <1>5. ~Answers(feedback[o], out[o])
    BY <1>2 DEF Answers, Absent
  <1>6. feedback' = [feedback EXCEPT ![o] = answer] /\ answer.request = out[o]
    BY <1>1
  <1> HIDE DEF answer
  <1>7. /\ (feedback')[o] = answer
        /\ \A u \in OutputPaths : u # o => (feedback')[u] = feedback[u]
        /\ feedback' \in [OutputPaths -> {Absent} \cup FeedbackType]
    BY <1>2, <1>4, <1>6
  <1>8. DataInv' /\ FeedbackInv'
    BY <1>2, <1>6, <1>7 DEF TrajectoryInv, DataInv, FeedbackInv
  <1>9. Requests' = Requests
    BY <1>2 DEF Requests
  <1>10. Measured \subseteq Measured'
    <2>1. SUFFICES ASSUME NEW q \in Requests, NEW f \in Files, Answers(f, q)
                   PROVE  f \in Files'
      BY <1>9 DEF Measured, Answers
    <2>2. PICK u \in OutputPaths : f = feedback[u] /\ feedback[u].kind = "feedback"
      BY DEF Files
    <2>3. out[u] = q
      BY <2>1, <2>2 DEF TrajectoryInv, FeedbackInv, Answers
    <2>4. u # o
      BY <1>5, <2>1, <2>2, <2>3
    <2>5. QED
      BY <1>7, <2>2, <2>4 DEF Files
  <1>11. \A q \in Requests' : Founded(q, Requests', Measured')
    BY <1>9, <1>10, FoundedStays DEF TrajectoryInv
  <1>12. \A q : Founded(q, Requests, Measured)' <=> Founded(q, Requests', Measured')
    BY DEF Founded, IsRound, Selected
  <1>13. QED
    BY <1>8, <1>11, <1>12 DEF TrajectoryInv

(* A torn output is no request: nothing stands on it.                      *)
LEMMA DiscardStep ==
  ASSUME TrajectoryInv, NEW o \in OutputPaths, Discard(o)
  PROVE  TrajectoryInv'
  <1>1. /\ out \in [OutputPaths -> {Absent, Torn} \cup RequestType]
        /\ out[o] = Torn /\ feedback' = feedback
        /\ out' = [out EXCEPT ![o] = Absent]
    BY DEF Discard, TrajectoryInv, DataInv
  <1>2. /\ (out')[o] = Absent /\ \A u \in OutputPaths : u # o => (out')[u] = out[u]
        /\ out' \in [OutputPaths -> {Absent, Torn} \cup RequestType]
    BY <1>1
  <1>3. Requests' = Requests
    BY <1>1, <1>2 DEF Requests, Absent, Torn
  <1>4. DataInv' /\ FeedbackInv'
    BY <1>1, <1>2 DEF TrajectoryInv, DataInv, FeedbackInv, Torn
  <1>5. Measured' = Measured
    BY <1>1, <1>3 DEF Measured, Files, Answers
  <1>6. \A q : Founded(q, Requests, Measured)' <=> Founded(q, Requests', Measured')
    BY DEF Founded, IsRound, Selected
  <1>7. QED
    BY <1>3, <1>4, <1>5, <1>6 DEF TrajectoryInv

(* Every request of every reachable state ends its own chain.              *)
THEOREM TrajectoryInvariance == Spec => []TrajectoryInv
  <1>1. Init => TrajectoryInv
    BY DEF Init, TrajectoryInv, DataInv, FeedbackInv, Requests, Absent
  <1>2. TrajectoryInv /\ [Next]_vars => TrajectoryInv'
    <2>1. SUFFICES ASSUME TrajectoryInv, [Next]_vars PROVE TrajectoryInv'
      OBVIOUS
    <2>2. CASE UNCHANGED vars
      <3>1. out' = out /\ feedback' = feedback
        BY <2>2 DEF vars
      <3>2. DataInv' /\ FeedbackInv' /\ Requests' = Requests /\ Measured' = Measured
        BY <2>1, <3>1 DEF TrajectoryInv, DataInv, FeedbackInv, Requests, Measured, Files, Answers
      <3>3. \A q : Founded(q, Requests, Measured)' <=> Founded(q, Requests', Measured')
        BY DEF Founded, IsRound, Selected
      <3>4. QED
        BY <2>1, <3>2, <3>3 DEF TrajectoryInv
    <2>3. CASE Next
      BY <2>1, <2>3, FirstStep, NextStep, MeasureStep, DiscardStep DEF Next
    <2>4. QED
      BY <2>1, <2>2, <2>3
  <1>3. QED
    BY <1>1, <1>2, PTL DEF Spec

(* Requests and feedback files are what the contracts say.                 *)
THEOREM TrajectoryTypeCorrect == Spec => []TypeOK
  <1>1. TrajectoryInv => TypeOK
    <2>1. SUFFICES ASSUME TrajectoryInv PROVE TypeOK
      OBVIOUS
    <2>2. ASSUME NEW r \in Requests
          PROVE  /\ \E t \in Trajectories : r.variant = t.variant /\ r.seed = t.seed
                 /\ r.round \in Rounds /\ Len(r.history) = r.round + 1
                 /\ r.batch \subseteq Genomes /\ Cardinality(r.batch) = BatchSize
                 /\ r.pool \in Pools /\ r.used \in Predictions
      <3>1. r \in RequestType /\ Founded(r, Requests, Measured)
        BY <2>1, RequestsTyped DEF TrajectoryInv
      <3>2. QED
        BY <3>1 DEF Founded, RequestType
    <2>3. \A f \in Files : f.rows \subseteq Genomes /\ f.terminal \in BOOLEAN
      BY <2>1 DEF TrajectoryInv, DataInv, Files, FeedbackType, Absent
    <2>4. QED
      BY <2>2, <2>3 DEF TypeOK
  <1>2. QED
    BY <1>1, TrajectoryInvariance, PTL

(* Behind every request stands a chain of disjoint batches of its own      *)
(* trajectory, each but the last of them measured, and the feedback-free   *)
(* variant predicts as some round zero did, although select_stage7_round   *)
(* is handed its history by whoever calls it and a trajectory may fork.    *)
THEOREM TrajectorySound == Spec => []TrajectoryIsSound
  <1>1. TrajectoryInv => TrajectoryIsSound
    <2>1. SUFFICES ASSUME TrajectoryInv PROVE TrajectoryIsSound
      OBVIOUS
    <2>2. \A r \in Requests : Founded(r, Requests, Measured)
      BY <2>1 DEF TrajectoryInv
    <2>3. EveryChainIsMeasured
      <3>1. SUFFICES ASSUME NEW r \in Requests
                     PROVE  /\ Cardinality(Selected(r.history)) = BatchSize * (r.round + 1)
                            /\ \A j \in 0..r.round : \E q \in Requests :
                                  /\ IsRound(q, j, r)
                                  /\ j < r.round => \E f \in Files : f.request = q /\ f.rows = q.batch /\ f.terminal
        BY DEF EveryChainIsMeasured
      <3>2. ASSUME NEW j \in 0..r.round
            PROVE  \E q \in Requests :
                      /\ IsRound(q, j, r)
                      /\ j < r.round => \E f \in Files : f.request = q /\ f.rows = q.batch /\ f.terminal
        <4>1. PICK q \in Requests : IsRound(q, j, r) /\ (j < r.round => q \in Measured)
          BY <2>2, Zenon DEF Founded
        <4>2. QED
          BY <4>1 DEF Measured, Answers
      <3>3. QED
        BY <2>2, <3>2 DEF Founded
    <2>4. FrozenNeverLearns
      BY <2>2 DEF FrozenNeverLearns, Founded
    <2>5. QED
      BY <2>3, <2>4 DEF TrajectoryIsSound
  <1>2. QED
    BY <1>1, TrajectoryInvariance, PTL

----------------------------------------------------------------------------
(* RegistryMaterialization: the published registry *)

(* Groups that one builder may hold: apart from each other and from the    *)
(* registry, and inside the root.                                          *)
Apart(G) ==
    /\ \A g \in G, h \in G : g # h => g.artifact # h.artifact /\ Outputs(g) \cap Outputs(h) = {}
    /\ \A g \in G :
          /\ Cardinality(Outputs(g)) = OutputCount(g)
          /\ RegistryPath \notin Outputs(g) /\ \A path \in Outputs(g) : Inside(path)

(* What a builder knows at each of its control points.                     *)
JobInv(j) ==
    /\ j.pc \in {"idle", "failed", "materialize", "stage", "replace", "sync", "done", "dead"}
    /\ j.pc \in {"materialize", "stage", "replace", "sync"} =>
          /\ j = [pc |-> j.pc, plan |-> j.plan, recipe |-> j.recipe, groups |-> j.groups]
          /\ j.plan \in Plans /\ PlanAdmitted(j.plan) /\ Apart(j.groups)
    /\ j.pc \in {"stage", "replace", "sync"} => Expansion(j.groups) = Mapping(j.plan)

RegistryInv ==
    /\ builder \in [Builders -> {builder[b] : b \in Builders}]
    /\ temp \in [Builders -> BOOLEAN]
    /\ \A b \in Builders : JobInv(builder[b])
    /\ OnlyTheDeadLeaveFiles
    /\ registry # NoRegistry =>
          /\ registry.plan \in Plans /\ PlanAdmitted(registry.plan) /\ Apart(registry.groups)
          /\ Expansion(registry.groups) = Mapping(registry.plan)

-----------------------------------------------------------------------------
(* A width does not precede itself, so candidates in canonical order are   *)
(* distinct, and their identities too.                                     *)
LEMMA OrderIsStrict ==
  ASSUME NEW d, NEW e, \A i \in 1 .. 3 : e.width[i] \in Int, ComesBefore(d, e)
  PROVE  Identity(d) # Identity(e)
  <1>1. ~Lexicographic(e.width, e.width)
    BY DEF Lexicographic
  <1>2. CASE Identity(d) = Identity(e)
    <2>1. d.width = e.width /\ d.q = e.q
      BY <1>2 DEF Identity
    <2> QED BY <2>1, <1>1 DEF ComesBefore
  <1> QED BY <1>2

(* The dictionary of an admitted plan loses no entry.                      *)
LEMMA AdmittedPlans ==
  ASSUME NEW p \in Plans, PlanAdmitted(p)
  PROVE  /\ Mapping(p) = ToSet(p.entries)
         /\ Cardinality(ToSet(p.entries)) = Len(p.entries)
  <1> DEFINE E == p.entries
             n == Len(E)
  <1>1. n \in Nat /\ DOMAIN E = 1 .. n /\ ToSet(E) = {E[i] : i \in 1 .. n}
    BY PlanAssumption DEF ToSet
  <1>2. \A i \in 1 .. n : \A k \in 1 .. 3 : E[i].width[k] \in Int
    BY <1>1, PlanAssumption
  <1>3. \A i, j \in 1 .. n : i < j => ComesBefore(E[i], E[j])
    BY DEF PlanAdmitted
  <1>4. \A i, j \in 1 .. n : i < j => Identity(E[i]) # Identity(E[j])
    BY <1>2, <1>3, OrderIsStrict
  <1>5. Mapping(p) = ToSet(E)
    <2>1. \A i \in 1 .. n : \A j \in (i + 1) .. n : Identity(E[j]) # Identity(E[i])
      <3> SUFFICES ASSUME NEW i \in 1 .. n, NEW j \in (i + 1) .. n
                   PROVE  Identity(E[j]) # Identity(E[i])
        OBVIOUS
      <3>1. j \in 1 .. n /\ i < j
        BY <1>1
      <3> QED BY <3>1, <1>4
    <2>2. {i \in 1 .. n : \A j \in (i + 1) .. n : Identity(E[j]) # Identity(E[i])} = 1 .. n
      BY <2>1
    <2> QED BY <2>2, <1>1 DEF Mapping
  <1>6. Cardinality(ToSet(E)) = n
    <2> DEFINE f == [i \in 1 .. n |-> E[i]]
    <2>1. \A i, j \in 1 .. n : i # j => E[i] # E[j]
      <3> SUFFICES ASSUME NEW i \in 1 .. n, NEW j \in 1 .. n, i # j PROVE E[i] # E[j]
        OBVIOUS
      <3>1. i < j \/ j < i
        BY <1>1
      <3> QED BY <3>1, <1>4
    <2>2. f \in Bijection(1 .. n, ToSet(E))
      BY <2>1, <1>1 DEF Bijection, Injection, Surjection, IsInjective
    <2>3. IsFiniteSet(1 .. n) /\ Cardinality(1 .. n) = n
      BY <1>1, FS_Interval
    <2>4. ExistsBijection(1 .. n, ToSet(E))
      BY <2>2 DEF ExistsBijection
    <2> QED BY <2>3, <2>4, FS_Bijection
  <1> QED BY <1>5, <1>6
-----------------------------------------------------------------------------
(* A group that fits keeps the groups of a builder apart.                  *)
LEMMA FittingStaysApart ==
  ASSUME NEW G, NEW g, Apart(G), Fits(g, G)
  PROVE  Apart(G \cup {g})
  <1>1. /\ \A path \in Outputs(g) : Inside(path)
        /\ Cardinality(Outputs(g)) = OutputCount(g)
    BY DEF Fits
  <1>2. RegistryPath \notin Outputs(g)
    BY DEF Fits, Taken
  <1>3. \A h \in G : g.artifact # h.artifact
    BY DEF Fits, Artifacts
  <1>4. \A h \in G : Outputs(g) \cap Outputs(h) = {}
    <2> SUFFICES ASSUME NEW h \in G PROVE Outputs(g) \cap Outputs(h) = {}
      OBVIOUS
    <2>1. Outputs(h) \subseteq Taken(G)
      BY DEF Taken
    <2>2. Outputs(g) \cap Taken(G) = {}
      BY DEF Fits
    <2> QED BY <2>1, <2>2
  <1> HIDE DEF Outputs, OutputCount, Inside
  <1> QED BY <1>1, <1>2, <1>3, <1>4 DEF Apart

(* A step of one builder that leaves the registry and the others alone.    *)
LEMMA BuilderStep ==
  ASSUME RegistryInv, NEW b \in Builders, NEW j, JobInv(j),
         builder' = [builder EXCEPT ![b] = j],
         UNCHANGED registry, temp' \in [Builders -> BOOLEAN],
         \A c \in Builders \ {b} : temp'[c] = temp[c],
         temp'[b] => j.pc \in {"replace", "dead"}
  PROVE  RegistryInv'
  <1>1. /\ builder' \in [Builders -> {builder'[c] : c \in Builders}]
        /\ builder'[b] = j /\ \A c \in Builders \ {b} : builder'[c] = builder[c]
    BY DEF RegistryInv
  <1>2. \A c \in Builders : JobInv(builder'[c])
    BY <1>1 DEF RegistryInv
  <1>3. OnlyTheDeadLeaveFiles'
    BY <1>1 DEF RegistryInv, OnlyTheDeadLeaveFiles
  <1> QED BY <1>1, <1>2, <1>3 DEF RegistryInv

(* What the other conjuncts of JobInv say when only the control point of a *)
(* working builder moves.                                                  *)
LEMMA Working ==
  ASSUME NEW j, JobInv(j), j.pc \in {"materialize", "stage", "replace", "sync"},
         NEW pc \in {"stage", "replace", "sync"}, Expansion(j.groups) = Mapping(j.plan)
  PROVE  JobInv([j EXCEPT !.pc = pc]) /\ [j EXCEPT !.pc = pc].pc = pc
  <1>1. j = [pc |-> j.pc, plan |-> j.plan, recipe |-> j.recipe, groups |-> j.groups]
    BY DEF JobInv
  <1>2. [j EXCEPT !.pc = pc] = [pc |-> pc, plan |-> j.plan, recipe |-> j.recipe, groups |-> j.groups]
    BY <1>1
  <1> QED BY <1>2 DEF JobInv

(* Nothing is asked of a builder that does not work.                        *)
LEMMA EndInv ==
  \A p \in {"idle", "failed", "done", "dead"} : JobInv([pc |-> p]) /\ [pc |-> p].pc = p
  BY DEF JobInv

(* A builder starts with an admitted plan and no groups, or fails.         *)
LEMMA ValidateStep == ASSUME RegistryInv, NEW b \in Builders, Validate(b) PROVE RegistryInv'
  <1>1. ~temp[b]
    BY DEF RegistryInv, OnlyTheDeadLeaveFiles, Validate, Idle
  <1>2. CASE Fail(b)
    BY <1>1, <1>2, EndInv, BuilderStep DEF Fail, Validate, RegistryInv
  <1>3. CASE ~Fail(b)
    <2>1. PICK p \in Plans, r \in Recipes :
             /\ PlanAdmitted(p) /\ RecipeAdmitted(r)
             /\ builder' = [builder EXCEPT ![b] =
                    [pc |-> "materialize", plan |-> p, recipe |-> r, groups |-> {}]]
      BY <1>3 DEF Validate
    <2>2. PICK j : j = [pc |-> "materialize", plan |-> p, recipe |-> r, groups |-> {}]
      OBVIOUS
    <2>3. JobInv(j)
      BY <2>1, <2>2 DEF JobInv, Apart
    <2> QED BY <1>1, <2>1, <2>2, <2>3, BuilderStep DEF Validate, RegistryInv
  <1> QED BY <1>2, <1>3

(* A group is added only when it fits.                                     *)
LEMMA MaterializeStep == ASSUME RegistryInv, NEW b \in Builders, Materialize(b) PROVE RegistryInv'
  <1> DEFINE j == builder[b]
  <1>1. ~temp[b] /\ JobInv(j) /\ j.pc = "materialize"
    BY DEF RegistryInv, OnlyTheDeadLeaveFiles, Materialize
  <1>2. CASE Fail(b)
    BY <1>1, <1>2, EndInv, BuilderStep DEF Fail, Materialize, RegistryInv
  <1>3. CASE ~Fail(b)
    <2>1. PICK g : Fits(g, j.groups) /\ builder' = [builder EXCEPT ![b].groups = @ \cup {g}]
      BY <1>3 DEF Materialize
    <2>2. j = [pc |-> j.pc, plan |-> j.plan, recipe |-> j.recipe, groups |-> j.groups]
      BY <1>1 DEF JobInv
    <2>3. PICK n : n = [pc |-> "materialize", plan |-> j.plan, recipe |-> j.recipe,
                        groups |-> j.groups \cup {g}]
      OBVIOUS
    <2>4. builder' = [builder EXCEPT ![b] = n]
      <3>1. n = [j EXCEPT !.groups = @ \cup {g}]
        BY <1>1, <2>2, <2>3
      <3> QED BY <2>1, <3>1
    <2>5. Apart(j.groups \cup {g})
      BY <1>1, <2>1, FittingStaysApart DEF JobInv
    <2>6. JobInv(n)
      BY <1>1, <2>3, <2>5 DEF JobInv
    <2> QED BY <1>1, <2>4, <2>6, BuilderStep DEF Materialize, RegistryInv
  <1> QED BY <1>2, <1>3

(* Groups and plan agree from the comparison on.                           *)
LEMMA CompareStep == ASSUME RegistryInv, NEW b \in Builders, Compare(b) PROVE RegistryInv'
  <1> DEFINE j == builder[b]
  <1>1. ~temp[b] /\ JobInv(j) /\ j.pc = "materialize"
    BY DEF RegistryInv, OnlyTheDeadLeaveFiles, Compare
  <1>2. CASE Fail(b)
    BY <1>1, <1>2, EndInv, BuilderStep DEF Fail, Compare, RegistryInv
  <1>3. CASE ~Fail(b)
    <2>1. PICK n : n = [j EXCEPT !.pc = "stage"]
      OBVIOUS
    <2>2. Expansion(j.groups) = Mapping(j.plan) /\ builder' = [builder EXCEPT ![b] = n]
      BY <1>3, <2>1 DEF Compare
    <2>3. JobInv(n)
      BY <1>1, <2>1, <2>2, Working
    <2> QED BY <1>1, <2>2, <2>3, BuilderStep DEF Compare, RegistryInv
  <1> QED BY <1>2, <1>3

(* The temporary sibling belongs to a builder about to replace.            *)
LEMMA StageStep == ASSUME RegistryInv, NEW b \in Builders, Stage(b) PROVE RegistryInv'
  <1> DEFINE j == builder[b]
  <1>1. JobInv(j) /\ j.pc = "stage" /\ Expansion(j.groups) = Mapping(j.plan)
    BY DEF RegistryInv, Stage, JobInv
  <1>2. PICK n : n = [j EXCEPT !.pc = "replace"]
    OBVIOUS
  <1>3. JobInv(n) /\ n.pc = "replace"
    BY <1>1, <1>2, Working
  <1>4. builder' = [builder EXCEPT ![b] = n]
    BY <1>2 DEF Stage
  <1> QED BY <1>3, <1>4, BuilderStep DEF Stage, RegistryInv

(* The registry that is put in place is that of a compared builder.        *)
LEMMA ReplaceStep == ASSUME RegistryInv, NEW b \in Builders, Replace(b) PROVE RegistryInv'
  <1> DEFINE j == builder[b]
  <1>1. JobInv(j) /\ j.pc = "replace" /\ Expansion(j.groups) = Mapping(j.plan)
    BY DEF RegistryInv, Replace, JobInv
  <1>2. CASE CleanUp(b) /\ UNCHANGED registry
    <2>1. /\ temp' = [temp EXCEPT ![b] = FALSE] /\ temp \in [Builders -> BOOLEAN]
          /\ builder' = [builder EXCEPT ![b] = [pc |-> "failed"]]
      BY <1>2 DEF CleanUp, Fail, RegistryInv
    <2> QED BY <1>2, <2>1, EndInv, BuilderStep
  <1>3. CASE ~(CleanUp(b) /\ UNCHANGED registry)
    <2>1. /\ registry' = [kind |-> "registry", plan |-> j.plan, groups |-> j.groups]
          /\ temp' = [temp EXCEPT ![b] = FALSE]
          /\ builder' = [builder EXCEPT ![b].pc = "sync"]
      BY <1>3 DEF Replace
    <2>2. PICK n : n = [j EXCEPT !.pc = "sync"]
      OBVIOUS
    <2>3. JobInv(n)
      BY <1>1, <2>2, Working
    <2>4. builder' = [builder EXCEPT ![b] = n]
      BY <2>1, <2>2
    <2>5. /\ builder' \in [Builders -> {builder'[c] : c \in Builders}]
          /\ builder'[b] = n /\ \A c \in Builders \ {b} : builder'[c] = builder[c]
      BY <2>4 DEF RegistryInv
    <2>6. /\ temp' \in [Builders -> BOOLEAN] /\ ~temp'[b]
          /\ \A c \in Builders \ {b} : temp'[c] = temp[c]
      BY <2>1 DEF RegistryInv
    <2>7. \A c \in Builders : JobInv(builder'[c])
      BY <2>3, <2>5 DEF RegistryInv
    <2>8. OnlyTheDeadLeaveFiles'
      BY <2>5, <2>6 DEF RegistryInv, OnlyTheDeadLeaveFiles
    <2>9. /\ registry'.plan = j.plan /\ registry'.groups = j.groups
          /\ j.plan \in Plans /\ PlanAdmitted(j.plan) /\ Apart(j.groups)
      BY <1>1, <2>1 DEF JobInv
    <2> QED BY <1>1, <2>5, <2>6, <2>7, <2>8, <2>9 DEF RegistryInv
  <1> QED BY <1>2, <1>3

(* The end of a builder leaves nothing to keep.                            *)
LEMMA SyncStep == ASSUME RegistryInv, NEW b \in Builders, Sync(b) PROVE RegistryInv'
  <1>1. ~temp[b]
    BY DEF RegistryInv, OnlyTheDeadLeaveFiles, Sync
  <1>2. \E p \in {"done", "failed"} : builder' = [builder EXCEPT ![b] = [pc |-> p]]
    BY DEF Sync, Fail
  <1> QED BY <1>1, <1>2, EndInv, BuilderStep DEF Sync, RegistryInv

(* A builder that dies may leave its file, and nothing else.               *)
LEMMA CrashStep == ASSUME RegistryInv, NEW b \in Builders, Crash(b) PROVE RegistryInv'
  BY EndInv, BuilderStep DEF Crash, RegistryInv

-----------------------------------------------------------------------------
(* Before the first builder there is nothing to keep.                       *)
LEMMA RegistryStart == RegistryInit => RegistryInv
  <1> SUFFICES ASSUME RegistryInit PROVE RegistryInv
    OBVIOUS
  <1>1. \A b \in Builders : builder[b] = [pc |-> "idle"]
    BY DEF RegistryInit, Idle
  <1> QED BY <1>1, EndInv DEF RegistryInit, RegistryInv, OnlyTheDeadLeaveFiles

(* One step of any builder, or a stutter.                                  *)
LEMMA RegistryStep == RegistryInv /\ [RegistryNext]_registryVars => RegistryInv'
  <1>1. ASSUME RegistryInv, NEW b \in Builders,
               Validate(b) \/ Materialize(b) \/ Compare(b) \/ Stage(b) \/ Replace(b) \/ Sync(b)
               \/ Crash(b)
        PROVE  RegistryInv'
    BY <1>1, ValidateStep, MaterializeStep, CompareStep, StageStep, ReplaceStep, SyncStep, CrashStep
  <1>2. ASSUME RegistryInv, UNCHANGED registryVars PROVE RegistryInv'
    BY <1>2 DEF RegistryInv, registryVars, OnlyTheDeadLeaveFiles
  <1> QED BY <1>1, <1>2 DEF RegistryNext

(* Every builder keeps its groups apart and compares them with its plan    *)
(* before it writes, and the registry is what some builder wrote.          *)
THEOREM RegistryInvariance == RegistrySpec => []RegistryInv
  BY RegistryStart, RegistryStep, PTL DEF RegistrySpec

(* A published registry expands to exactly the candidates of its plan, as  *)
(* many as it lists; no two of them share an artifact or a file; and only  *)
(* builders that write, or died while they wrote, have left a file.        *)
THEOREM RegistrySound == RegistrySpec => []RegistryIsSound
  <1>1. RegistryInv => RegistryIsSound
    <2> SUFFICES ASSUME RegistryInv PROVE RegistryIsSound
      OBVIOUS
    <2>1. RegistryIsThePlan
      BY AdmittedPlans DEF RegistryInv, RegistryIsThePlan
    <2>2. NothingIsShared
      BY DEF RegistryInv, NothingIsShared, Apart
    <2> QED BY <2>1, <2>2 DEF RegistryInv, RegistryIsSound
  <1> QED BY <1>1, RegistryInvariance, PTL

----------------------------------------------------------------------------
(* ProductionSelection: what a selection proposes *)

\* The contract of a table asks for every cold-start group in it.
LEMMA ColdStartPresent ==
  ASSUME NEW f, Contract(f)
  PROVE  Initial \subseteq Present(f)
<1>1. IsFiniteSet(Initial) /\ Present(f) \cap Initial \subseteq Initial
  BY GroupAssumption, FS_Subset
<1>2. Cardinality(Present(f) \cap Initial) = Cardinality(Initial)
  BY DEF Contract
<1>3. Present(f) \cap Initial = Initial
  BY <1>1, <1>2, FS_Subset
<1> QED
  BY <1>3

\* What is selected from a table that keeps the contract lies outside the
\* table, the holdout and the cold start.
LEMMA NewGroups ==
  ASSUME NEW f, NEW r, Contract(f)
  PROVE  SelectedGroups(f, r) \cap (Present(f) \cup Holdout \cup Initial) = {}
<1>1. SelectedGroups(f, r) \subseteq Candidates(f, r)
  BY DEF SelectedGroups, OfModel
<1> QED
  BY <1>1, ColdStartPresent DEF Candidates

\* The fifth of a set of groups, rounded up, that comes first in hash order.
FirstFifth(own) ==
  {g \in own : Cardinality({h \in own : HashOrder[h] < HashOrder[g]}) < (Cardinality(own) + 4) \div 5}

\* A fifth of two or more, rounded up, is one at least and not all.
LEMMA FifthCount ==
  ASSUME NEW n \in Nat, n >= 2
  PROVE  (n + 4) \div 5 >= 1 /\ (n + 4) \div 5 < n
  OBVIOUS

\* Of two groups or more, the first fifth is neither none nor all: the group
\* that hashes lowest is in it, the one that hashes highest is not.
LEMMA FifthIsProper ==
  ASSUME NEW own \in SUBSET Groups, Cardinality(own) >= 2
  PROVE  FirstFifth(own) # {} /\ FirstFifth(own) # own
<1> DEFINE n == Cardinality(own)
           Below(g) == {h \in own : HashOrder[h] < HashOrder[g]}
           count == (n + 4) \div 5
<1>1. IsFiniteSet(own) /\ n \in Nat
  BY GroupAssumption, FS_Subset, FS_CardinalityType
<1>2. count >= 1 /\ count < n
  BY <1>1, FifthCount
<1>3. own # {}
  BY FS_EmptySet
<1>4. \A g \in own : HashOrder[g] \in Nat
  BY GroupAssumption
<1>5. PICK first \in own : \A g \in own : HashOrder[first] <= HashOrder[g]
  <2> DEFINE down == [g \in own |-> 0 - HashOrder[g]]
  <2>1. \A g \in own : down[g] \in Int
    BY <1>4
  <2>2. PICK g \in own : \A h \in own : down[h] <= down[g]
    <3> HIDE DEF down
    <3> QED
      BY <1>1, <1>3, <2>1, BestExists
  <2> QED
    BY <2>2, <1>4
<1>6. PICK last \in own : \A g \in own : HashOrder[g] <= HashOrder[last]
  BY <1>1, <1>3, <1>4, BestExists
<1>7. Below(first) = {}
  BY <1>4, <1>5
<1>8. first \in FirstFifth(own)
  BY <1>1, <1>2, <1>7, FS_EmptySet DEF FirstFifth
<1>9. Below(last) = own \ {last}
  <2>1. \A g \in own \ {last} : HashOrder[g] # HashOrder[last]
    BY GroupAssumption
  <2>2. \A g \in own \ {last} : HashOrder[g] < HashOrder[last]
    BY <1>4, <1>6, <2>1
  <2>3. ~(HashOrder[last] < HashOrder[last])
    BY <1>4
  <2> QED
    BY <2>2, <2>3
<1>10. Cardinality(Below(last)) = n - 1
  BY <1>1, <1>9, FS_RemoveElement
<1>11. last \notin FirstFifth(own)
  BY <1>1, <1>2, <1>10 DEF FirstFifth
<1> QED
  BY <1>8, <1>11

\* The calibration groups of a model are the first fifth of its groups.
LEMMA CalibrationOfModel ==
  ASSUME NEW S \in SUBSET Groups, NEW m \in {ModelOf[g] : g \in S}
  PROVE  OfModel(Calibration(S), m) = FirstFifth(OfModel(S, m))
<1>1. Calibration(S) = UNION {FirstFifth(OfModel(S, k)) : k \in {ModelOf[g] : g \in S}}
  BY Zenon DEF Calibration, FirstFifth
<1>2. \A k : \A g \in FirstFifth(OfModel(S, k)) : ModelOf[g] = k
  BY DEF FirstFifth, OfModel
<1>3. \A g : g \in OfModel(Calibration(S), m) <=> g \in Calibration(S) /\ ModelOf[g] = m
  BY DEF OfModel
<1>4. \A g : g \in Calibration(S) <=> \E k \in {ModelOf[h] : h \in S} : g \in FirstFifth(OfModel(S, k))
  BY <1>1
<1> QED
  BY <1>2, <1>3, <1>4

\* When the groups of every model suffice for a fit, both the fit and the
\* calibration of each model have groups of it.
LEMMA HeldOut ==
  ASSUME NEW f, Fittable(f), NEW m \in {ModelOf[g] : g \in Trained(f)}
  PROVE  /\ OfModel(Calibration(Trained(f)), m) # {}
         /\ OfModel(Trained(f) \ Calibration(Trained(f)), m) # {}
<1> DEFINE own == OfModel(Trained(f), m)
<1>1. Trained(f) \in SUBSET Groups /\ own \in SUBSET Groups /\ Cardinality(own) >= 2
  BY DEF Trained, OfModel, Fittable
<1>2. FirstFifth(own) # {} /\ FirstFifth(own) # own /\ FirstFifth(own) \subseteq own
  BY <1>1, FifthIsProper DEF FirstFifth
<1>3. OfModel(Calibration(Trained(f)), m) = FirstFifth(own)
  BY <1>1, CalibrationOfModel
<1>4. PICK g \in own : g \notin FirstFifth(own)
  BY <1>2
<1>5. g \in OfModel(Trained(f) \ Calibration(Trained(f)), m)
  BY <1>3, <1>4 DEF OfModel
<1> QED
  BY <1>2, <1>3, <1>5

\* What a selection promises.
SoundSelection(s) ==
  /\ s.groups \cap (Present(s.file) \cup Holdout \cup Initial) = {}
  /\ \A m \in {ModelOf[g] : g \in Trained(s.file)} :
        /\ OfModel(s.calibration, m) # {}
        /\ OfModel(Trained(s.file) \ s.calibration, m) # {}
\* What is left of it in artifact i, whoever wrote it: ids and request do
\* not say from which file.
SoundArtifact(i, x) ==
  /\ x.kind = ArtifactNames[i]
  /\ x.groups \cap (Holdout \cup Initial) = {}
  /\ i = 3 => SoundSelection(x)

\* A run that has a selection and has not ended.
Active(p) == run[p].pc \in {"preflight", "write"}

\* What lies whole in a root asks for the same groups, and a manifest is
\* written last.
RootOK(o) ==
  \A i, j \in 1..3 :
    /\ WholeAt(o, i) => SoundArtifact(i, artifacts[o][i])
    /\ WholeAt(o, i) /\ WholeAt(o, j) => artifacts[o][i].groups = artifacts[o][j].groups
    /\ WholeAt(o, 3) => WholeAt(o, i)

\* What a run at work knows: its selection is sound, what it finds in its
\* root is nothing or what it would write, and it has passed no gap.
WorkOK(p) ==
  Active(p) =>
    /\ run[p] = [pc |-> run[p].pc, root |-> run[p].root, next |-> run[p].next, selection |-> run[p].selection]
    /\ run[p].root \in Roots /\ run[p].next \in 1..3 /\ SoundSelection(run[p].selection)
    /\ run[p].pc = "preflight" => run[p].next = 1
    /\ run[p].pc = "write" => \A i \in 1..3 :
          /\ artifacts[run[p].root][i] \in {NoArtifact, Rendered(i, run[p].selection)}
          /\ i < run[p].next => artifacts[run[p].root][i] # NoArtifact

\* The inductive invariant: one run at a time is at work, and every run and
\* every root keeps the promise.
ProductionInv ==
  /\ run = [p \in Runs |-> run[p]]
  /\ artifacts = [o \in Roots |-> [i \in 1..3 |-> artifacts[o][i]]]
  /\ \A p, q \in Runs : Active(p) /\ Active(q) => p = q
  /\ \A p \in Runs : WorkOK(p)
  /\ \A o \in Roots : RootOK(o)

\* The invariant holds at the start.
LEMMA ProductionStart == ProductionInit => ProductionInv
  BY DEF ProductionInit, ProductionInv, WorkOK, Active, WholeAt, NotStarted, RootOK

\* What is selected from a table that passed both checks is sound.
LEMMA SelectionsAreSound ==
  ASSUME NEW f, NEW r, Contract(f), Fittable(f)
  PROVE  SoundSelection(SelectionFrom(f, r))
  BY NewGroups, HeldOut DEF SoundSelection, SelectionFrom

\* What is rendered is neither absent nor torn, says which artifact it is and
\* what was selected, and keeps the promise.
LEMMA RenderedFacts ==
  ASSUME NEW s, SoundSelection(s), NEW i \in 1..3
  PROVE  /\ Rendered(i, s) \notin {NoArtifact, TornArtifact}
         /\ Rendered(i, s).groups = s.groups
         /\ SoundArtifact(i, Rendered(i, s))
<1>1. /\ ArtifactNames[1] = "selected_ids" /\ ArtifactNames[2] = "measurement_request"
      /\ ArtifactNames[3] = "manifest"
  BY DEF ArtifactNames
<1>2. i = 1 \/ i = 2 \/ i = 3
  OBVIOUS
<1>3. /\ Rendered(i, s).kind = ArtifactNames[i] /\ Rendered(i, s).groups = s.groups
      /\ i = 3 => /\ Rendered(i, s).file = s.file
                  /\ Rendered(i, s).calibration = s.calibration
  BY <1>1, <1>2 DEF Rendered
<1>4. Rendered(i, s) \notin {NoArtifact, TornArtifact}
  BY <1>1, <1>2, <1>3 DEF NoArtifact, TornArtifact
<1>5. SoundArtifact(i, Rendered(i, s))
  BY <1>3 DEF SoundArtifact, SoundSelection
<1> QED
  BY <1>3, <1>4, <1>5

\* A root that is not written stays as it should be.
LEMMA RootStays ==
  ASSUME NEW o \in Roots, RootOK(o), artifacts'[o] = artifacts[o]
  PROVE  RootOK(o)'
  BY DEF RootOK, WholeAt, SoundArtifact, SoundSelection

\* A run that begins keeps the invariant: it has the machine to itself.
LEMMA PrepareStep ==
  ASSUME ProductionInv, NEW p \in Runs, Prepare(p)
  PROVE  ProductionInv'
<1>1. \A q \in Runs : ~Active(q)
  BY DEF Prepare, Active
<1>2. UNCHANGED <<file, artifacts>>
  BY DEF Prepare
<1>9. \A o \in Roots : RootOK(o)'
  BY <1>2, RootStays DEF ProductionInv
<1>3. CASE run' = [run EXCEPT ![p] = [pc |-> "failed"]]
  BY <1>1, <1>2, <1>3, <1>9 DEF ProductionInv, WorkOK, Active
<1>4. CASE \E o \in Roots, r \in Registries : Contract(file) /\ Fittable(file) /\
             run' = [run EXCEPT ![p] = [pc |-> "preflight", root |-> o, next |-> 1, selection |-> SelectionFrom(file, r)]]
  <2>1. PICK o \in Roots, r \in Registries : Contract(file) /\ Fittable(file) /\
             run' = [run EXCEPT ![p] = [pc |-> "preflight", root |-> o, next |-> 1, selection |-> SelectionFrom(file, r)]]
    BY <1>4
  <2>2. SoundSelection(SelectionFrom(file, r))
    BY <2>1, SelectionsAreSound
  <2>3. run'[p] = [pc |-> "preflight", root |-> o, next |-> 1, selection |-> SelectionFrom(file, r)]
    BY <2>1 DEF ProductionInv
  <2>4. \A q \in Runs \ {p} : run'[q] = run[q]
    BY <2>1 DEF ProductionInv
  <2>5. WorkOK(p)'
    BY <2>2, <2>3 DEF WorkOK
  <2>6. \A q \in Runs \ {p} : ~Active(q)'
    BY <1>1, <2>4 DEF Active
  <2>7. run' = [q \in Runs |-> run'[q]]
    BY <2>1 DEF ProductionInv
  <2> QED
    BY <1>2, <1>9, <2>5, <2>6, <2>7 DEF ProductionInv, WorkOK
<1> QED
  BY <1>3, <1>4 DEF Prepare

\* The look at the root keeps it: from then on there is nothing in the root,
\* or what the run would write, whoever left it.
LEMMA PreflightStep ==
  ASSUME ProductionInv, NEW p \in Runs, Preflight(p)
  PROVE  ProductionInv'
<1> DEFINE matches == \A i \in 1..3 : artifacts[run[p].root][i] \in {NoArtifact, Rendered(i, run[p].selection)}
           verdict == IF matches THEN "write" ELSE "failed"
<1>1. Active(p) /\ UNCHANGED <<file, artifacts>>
  BY DEF Preflight, Active
<1>2. run' = [run EXCEPT ![p].pc = verdict]
  BY DEF Preflight
<1>3. WorkOK(p) /\ run[p].next = 1
  BY DEF ProductionInv, WorkOK, Preflight, Active
<1> HIDE DEF verdict
<1>4. run'[p] = [pc |-> verdict, root |-> run[p].root, next |-> 1, selection |-> run[p].selection]
  BY <1>1, <1>2, <1>3 DEF ProductionInv, WorkOK
<1>5. \A q \in Runs \ {p} : run'[q] = run[q] /\ ~Active(q)
  BY <1>1, <1>2 DEF ProductionInv
<1>6. run' = [q \in Runs |-> run'[q]]
  BY <1>2 DEF ProductionInv
<1>7. WorkOK(p)'
  <2>1. CASE matches
    <3>1. run'[p] = [pc |-> "write", root |-> run[p].root, next |-> 1, selection |-> run[p].selection]
      BY <1>4, <2>1 DEF verdict
    <3>2. \A i \in 1..3 : artifacts'[run[p].root][i] \in {NoArtifact, Rendered(i, run[p].selection)}
      BY <1>1, <2>1
    <3>3. PICK new : new = run'[p]
      OBVIOUS
    <3>4. /\ new.pc = "write" /\ new.root = run[p].root /\ new.next = 1 /\ new.selection = run[p].selection
          /\ new = [pc |-> new.pc, root |-> new.root, next |-> new.next, selection |-> new.selection]
      BY <3>1, <3>3
    <3>5. run[p].root \in Roots /\ SoundSelection(run[p].selection)
      BY <1>1, <1>3 DEF WorkOK
    <3> QED
      BY <3>2, <3>3, <3>4, <3>5 DEF WorkOK
  <2>2. CASE ~matches
    <3>1. run'[p].pc = "failed"
      BY <1>4, <2>2 DEF verdict
    <3> QED
      BY <3>1 DEF WorkOK, Active
  <2> QED
    BY <2>1, <2>2
<1>8. \A q \in Runs \ {p} : ~Active(q)'
  BY <1>5 DEF Active
<1>9. \A o \in Roots : RootOK(o)'
  BY <1>1, RootStays DEF ProductionInv
<1> QED
  BY <1>1, <1>6, <1>7, <1>8, <1>9 DEF ProductionInv, WorkOK

\* A run that fails or dies changes itself only.
LEMMA StopStep ==
  ASSUME ProductionInv, NEW p \in Runs, NEW pc \in {"failed", "dead"},
         run' = [run EXCEPT ![p] = [pc |-> pc]]
  PROVE  /\ run' = [q \in Runs |-> run'[q]] /\ ~Active(p)'
         /\ \A q \in Runs \ {p} : run'[q] = run[q]
  BY DEF ProductionInv, Active

\* A root that holds nothing, or what one sound selection renders, without
\* a gap before the manifest, is as it should be.
LEMMA RootOfOne ==
  ASSUME NEW o \in Roots, NEW s, SoundSelection(s),
         \A i \in 1..3 : artifacts'[o][i] \in {NoArtifact, Rendered(i, s)},
         artifacts'[o][3] # NoArtifact => \A i \in 1..3 : artifacts'[o][i] # NoArtifact
  PROVE  RootOK(o)'
<1>1. ASSUME NEW i \in 1..3
      PROVE  /\ WholeAt(o, i)' <=> artifacts'[o][i] # NoArtifact
             /\ WholeAt(o, i)' => artifacts'[o][i] = Rendered(i, s)
  <2>1. Rendered(i, s) \notin {NoArtifact, TornArtifact} /\ NoArtifact # TornArtifact
    BY RenderedFacts DEF NoArtifact, TornArtifact
  <2> QED
    BY <2>1, Zenon DEF WholeAt
<1>2. \A i \in 1..3 : Rendered(i, s).groups = s.groups /\ SoundArtifact(i, Rendered(i, s))
  BY RenderedFacts
<1>3. \A i \in 1..3 : WholeAt(o, i)' =>
          artifacts'[o][i].groups = s.groups /\ SoundArtifact(i, artifacts'[o][i])
  BY <1>1, <1>2
<1>4. 3 \in 1..3
  OBVIOUS
<1>5. WholeAt(o, 3)' => \A i \in 1..3 : WholeAt(o, i)'
  BY <1>1, <1>4
<1> QED
  BY <1>3, <1>5 DEF RootOK, SoundArtifact, SoundSelection

\* An artifact that is written or torn keeps the invariant.
LEMMA WriteArtifactStep ==
  ASSUME ProductionInv, NEW p \in Runs, WriteArtifact(p)
  PROVE  ProductionInv'
<1>1. run[p].pc = "write" /\ Active(p) /\ WorkOK(p)
  BY DEF WriteArtifact, Active, ProductionInv
<1>6. PICK o \in Roots, i \in 1..3 : o = run[p].root /\ i = run[p].next
  BY <1>1 DEF WorkOK
<1>7. PICK s : s = run[p].selection
  OBVIOUS
<1> DEFINE there == artifacts[o][i] # NoArtifact
           mine == Rendered(i, s)
<1>2. /\ SoundSelection(s)
      /\ run[p] = [pc |-> "write", root |-> o, next |-> i, selection |-> s]
      /\ \A j \in 1..3 : /\ artifacts[o][j] \in {NoArtifact, Rendered(j, s)}
                         /\ j < i => artifacts[o][j] # NoArtifact
  BY <1>1, <1>6, <1>7 DEF WorkOK
<1>3. \A q \in Runs \ {p} : ~Active(q)
  BY <1>1 DEF ProductionInv
<1>8. /\ artifacts = [x \in Roots |-> [j \in 1..3 |-> artifacts[x][j]]]
      /\ \A x \in Roots : RootOK(x)
  BY DEF ProductionInv
<1>9. mine # NoArtifact
  BY <1>2, RenderedFacts
<1> HIDE DEF mine
<1>4. CASE /\ artifacts' = IF there THEN artifacts ELSE [artifacts EXCEPT ![o][i] = mine]
           /\ run' = [run EXCEPT ![p] = IF i = Len(ArtifactNames)
                                           THEN [@ EXCEPT !.pc = "done"]
                                           ELSE [@ EXCEPT !.next = i + 1]]
  <2>1. /\ artifacts' = [x \in Roots |-> [j \in 1..3 |-> artifacts'[x][j]]]
        /\ \A x \in Roots \ {o} : artifacts'[x] = artifacts[x]
        /\ \A j \in 1..3 : artifacts'[o][j] = IF j = i /\ ~there THEN mine ELSE artifacts[o][j]
    <3>1. CASE there
      BY <1>4, <1>8, <3>1
    <3>2. CASE ~there
      <4>1. artifacts' = [artifacts EXCEPT ![o][i] = mine]
        BY <1>4, <3>2
      <4> QED
        BY <1>8, <3>2, <4>1
    <3> QED
      BY <3>1, <3>2
  <2>2. \A j \in 1..3 : /\ artifacts'[o][j] \in {NoArtifact, Rendered(j, s)}
                        /\ j <= i => artifacts'[o][j] # NoArtifact
    <3> SUFFICES ASSUME NEW j \in 1..3
                 PROVE  /\ artifacts'[o][j] \in {NoArtifact, Rendered(j, s)}
                        /\ j <= i => artifacts'[o][j] # NoArtifact
      OBVIOUS
    <3>1. CASE j = i
      BY <1>2, <1>9, <2>1, <3>1 DEF mine
    <3>2. CASE j # i
      BY <1>2, <2>1, <3>2
    <3> QED
      BY <3>1, <3>2
  <2>3. run' = [q \in Runs |-> run'[q]] /\ \A q \in Runs \ {p} : run'[q] = run[q]
    BY <1>4 DEF ProductionInv
  <2>4. Len(ArtifactNames) = 3
    BY DEF ArtifactNames
  <2>5. WorkOK(p)'
    <3>1. CASE i = 3
      <4>1. run'[p] = [run[p] EXCEPT !.pc = "done"]
        BY <1>4, <2>4, <3>1 DEF ProductionInv
      <4>2. run'[p].pc = "done"
        BY <1>2, <4>1
      <4> QED
        BY <4>2 DEF WorkOK, Active
    <3>2. CASE i # 3
      <4>1. run'[p] = [run[p] EXCEPT !.next = i + 1]
        BY <1>4, <2>4, <3>2 DEF ProductionInv
      <4>2. run'[p] = [pc |-> "write", root |-> o, next |-> i + 1, selection |-> s]
        BY <1>2, <4>1
      <4>3. i + 1 \in 1..3 /\ \A j \in 1..3 : j < i + 1 => j <= i
        BY <3>2
      <4>4. PICK new : new = run'[p]
        OBVIOUS
      <4>5. /\ new.pc = "write" /\ new.root = o /\ new.next = i + 1 /\ new.selection = s
            /\ new = [pc |-> new.pc, root |-> new.root, next |-> new.next, selection |-> new.selection]
        BY <4>2, <4>4
      <4> QED
        BY <1>2, <2>2, <4>3, <4>4, <4>5 DEF WorkOK
    <3> QED
      BY <3>1, <3>2
  <2>6. \A q \in Runs \ {p} : ~Active(q)'
    BY <1>3, <2>3 DEF Active
  <2>7. ASSUME NEW x \in Roots PROVE RootOK(x)'
    <3>1. CASE x = o
      <4>1. ASSUME artifacts'[o][3] # NoArtifact, NEW j \in 1..3 PROVE artifacts'[o][j] # NoArtifact
        <5>1. CASE i = 3
          BY <2>2, <5>1
        <5>2. CASE i # 3
          <6>1. artifacts'[o][3] = artifacts[o][3]
            BY <2>1, <5>2
          <6>2. WholeAt(o, 3)
            BY <1>2, <4>1, <6>1, RenderedFacts DEF WholeAt
          <6>3. WholeAt(o, j)
            BY <1>8, <6>2 DEF RootOK
          <6> QED
            BY <1>9, <2>1, <6>3 DEF WholeAt
        <5> QED
          BY <5>1, <5>2
      <4> QED
        BY <1>2, <2>2, <3>1, <4>1, RootOfOne
    <3>2. CASE x # o
      <4>1. artifacts'[x] = artifacts[x] /\ RootOK(x)
        BY <1>8, <2>1, <3>2
      <4> QED
        BY <4>1, RootStays
    <3> QED
      BY <3>1, <3>2
  <2> QED
    BY <2>1, <2>3, <2>5, <2>6, <2>7 DEF ProductionInv, WorkOK
<1>5. CASE /\ ~there
           /\ artifacts' = [artifacts EXCEPT ![o][i] = TornArtifact]
           /\ run' = [run EXCEPT ![p] = [pc |-> "dead"]]
  <2>1. /\ artifacts' = [x \in Roots |-> [j \in 1..3 |-> artifacts'[x][j]]]
        /\ \A x \in Roots, j \in 1..3 :
              artifacts'[x][j] = IF x = o /\ j = i THEN TornArtifact ELSE artifacts[x][j]
    BY <1>5, <1>8
  <2>2. run' = [q \in Runs |-> run'[q]] /\ \A q \in Runs : ~Active(q)'
    BY <1>3, <1>5, StopStep DEF Active
  <2>3. ~WholeAt(o, i) /\ ~WholeAt(o, i)' /\ ~WholeAt(o, 3)
    <3>1. ~WholeAt(o, i) /\ ~WholeAt(o, i)'
      BY <1>5, <2>1, Zenon DEF WholeAt
    <3> QED
      BY <1>8, <3>1 DEF RootOK
  <2>4. \A x \in Roots, j \in 1..3 :
           WholeAt(x, j)' => WholeAt(x, j) /\ artifacts'[x][j] = artifacts[x][j]
    <3> SUFFICES ASSUME NEW x \in Roots, NEW j \in 1..3, WholeAt(x, j)'
                 PROVE  WholeAt(x, j) /\ artifacts'[x][j] = artifacts[x][j]
      OBVIOUS
    <3>1. ~(x = o /\ j = i)
      BY <2>3
    <3>2. artifacts'[x][j] = artifacts[x][j]
      BY <2>1, <3>1
    <3> QED
      BY <3>2 DEF WholeAt
  <2>5. \A x \in Roots, j \in 1..3 : x # o /\ WholeAt(x, j) => WholeAt(x, j)'
    <3> SUFFICES ASSUME NEW x \in Roots, NEW j \in 1..3, x # o, WholeAt(x, j)
                 PROVE  WholeAt(x, j)'
      OBVIOUS
    <3>1. artifacts'[x][j] = artifacts[x][j]
      BY <2>1
    <3> QED
      BY <3>1 DEF WholeAt
  <2>6. ASSUME NEW x \in Roots PROVE RootOK(x)'
    <3> SUFFICES ASSUME NEW j \in 1..3, NEW k \in 1..3
                 PROVE  /\ WholeAt(x, j)' => SoundArtifact(j, artifacts'[x][j])
                        /\ WholeAt(x, j)' /\ WholeAt(x, k)' => artifacts'[x][j].groups = artifacts'[x][k].groups
                        /\ WholeAt(x, 3)' => WholeAt(x, j)'
      BY DEF RootOK, SoundArtifact, SoundSelection
    <3>1. RootOK(x) /\ 3 \in 1..3
      BY <1>8
    <3>2. WholeAt(x, 3)' => WholeAt(x, j)'
      BY <2>3, <2>4, <2>5, <3>1 DEF RootOK
    <3> QED
      BY <2>4, <3>1, <3>2 DEF RootOK
  <2> QED
    BY <2>1, <2>2, <2>6 DEF ProductionInv, WorkOK
<1> QED
  BY <1>4, <1>5, <1>6, <1>7 DEF WriteArtifact, mine

\* Every step keeps the invariant.
LEMMA ProductionStep == ProductionInv /\ [ProductionNext]_productionVars => ProductionInv'
<1> SUFFICES ASSUME ProductionInv, [ProductionNext]_productionVars PROVE ProductionInv'
  OBVIOUS
<1>1. ASSUME NEW p \in Runs, RunCrash(p)
      PROVE  ProductionInv'
  <2>1. run' = [q \in Runs |-> run'[q]] /\ \A q \in Runs : ~Active(q)'
    BY <1>1, StopStep DEF RunCrash, Active, ProductionInv
  <2>2. \A o \in Roots : RootOK(o)'
    BY <1>1, RootStays DEF RunCrash, ProductionInv
  <2> QED
    BY <1>1, <2>1, <2>2 DEF RunCrash, ProductionInv, WorkOK
<1>2. CASE UNCHANGED <<run, artifacts>>
  <2>1. \A o \in Roots : RootOK(o)'
    BY <1>2, RootStays DEF ProductionInv
  <2>2. \A p \in Runs : WorkOK(p)' /\ (Active(p)' <=> Active(p))
    BY <1>2 DEF ProductionInv, WorkOK, Active
  <2> QED
    BY <1>2, <2>1, <2>2 DEF ProductionInv
<1>3. ASSUME NEW o \in Roots, Empty(o)
      PROVE  ProductionInv'
  <2>1. UNCHANGED run /\ artifacts' = [artifacts EXCEPT ![o] = [i \in 1..3 |-> NoArtifact]]
        /\ \E i \in 1..3 : artifacts[o][i] = TornArtifact
    BY <1>3 DEF Empty
  <2>2. /\ artifacts' = [x \in Roots |-> [i \in 1..3 |-> artifacts'[x][i]]]
        /\ \A i \in 1..3 : artifacts'[o][i] = NoArtifact
        /\ \A x \in Roots \ {o} : artifacts'[x] = artifacts[x]
    BY <2>1 DEF ProductionInv
  <2>3. \A p \in Runs : WorkOK(p)'
    <3> SUFFICES ASSUME NEW p \in Runs, Active(p), WorkOK(p) PROVE WorkOK(p)'
      BY <2>1 DEF ProductionInv, WorkOK, Active
    <3>1. CASE run[p].pc = "write"
      <4>1. PICK i \in 1..3 : artifacts[o][i] = TornArtifact
        BY <2>1
      <4>2. run[p].root # o
        <5>1. Rendered(i, run[p].selection) # TornArtifact /\ NoArtifact # TornArtifact
          BY RenderedFacts DEF WorkOK, NoArtifact, TornArtifact
        <5> QED
          BY <3>1, <4>1, <5>1 DEF WorkOK
      <4> QED
        BY <2>1, <2>2, <4>2 DEF WorkOK
    <3>2. CASE run[p].pc = "preflight"
      BY <2>1, <3>2 DEF WorkOK
    <3> QED
      BY <3>1, <3>2 DEF Active
  <2>4. ASSUME NEW x \in Roots PROVE RootOK(x)'
    <3>1. CASE x = o
      BY <2>2, <3>1 DEF RootOK, WholeAt
    <3>2. CASE x # o
      <4>1. artifacts'[x] = artifacts[x] /\ RootOK(x)
        BY <2>2, <3>2 DEF ProductionInv
      <4> QED
        BY <4>1, RootStays
    <3> QED
      BY <3>1, <3>2
  <2> QED
    BY <2>1, <2>2, <2>3, <2>4 DEF ProductionInv, Active
<1> QED
  BY <1>1, <1>2, <1>3, PrepareStep, PreflightStep, WriteArtifactStep
     DEF ProductionNext, MeasureRequest, Lose, productionVars

\* The invariant says what the property asks.
LEMMA SelectionStands == ProductionInv => SelectionIsNew
<1> SUFFICES ASSUME ProductionInv PROVE SelectionIsNew
  OBVIOUS
<1>1. ASSUME NEW x \in WholeArtifacts
      PROVE  x.groups \cap (Holdout \cup Initial) = {} /\ (x.kind = "manifest" => SoundSelection(x))
  <2>1. PICK o \in Roots, i \in 1..3 : x = artifacts[o][i] /\ WholeAt(o, i)
    BY DEF WholeArtifacts, WholeAt
  <2>2. SoundArtifact(i, x)
    BY <2>1 DEF ProductionInv, RootOK
  <2>3. x.kind = "manifest" => i = 3
    BY <2>2 DEF SoundArtifact, ArtifactNames
  <2> QED
    BY <2>2, <2>3 DEF SoundArtifact
<1>2. NothingKnownIsRequested /\ CalibrationIsHeldOut
  BY <1>1 DEF NothingKnownIsRequested, CalibrationIsHeldOut, SoundSelection, Manifests
<1>3. OneSelectionPerRoot
  BY DEF OneSelectionPerRoot, ProductionInv, RootOK
<1> QED
  BY <1>2, <1>3 DEF SelectionIsNew

\* Whatever tables and roots the runs are given and wherever they die: no
\* artifact asks for a group of the holdout or of the cold start, a manifest
\* seals a request for groups its table does not hold, chosen with intervals
\* calibrated for each model on groups left out of the fit, and what lies in
\* one root asks for the same groups (production_search_v1.py).
THEOREM SelectionsAreNew == ProductionSpec => []SelectionIsNew
  BY ProductionStart, ProductionStep, SelectionStands, PTL DEF ProductionSpec

----------------------------------------------------------------------------
(* Stage4Closure: what a closed audit says *)

\* There are four arms.
LEMMA FourArms == IsFiniteSet(Arms) /\ Cardinality(Arms) = 4
<1> DEFINE a == "tvm_auto|fp16"  b == "tvm_auto|int8"  c == "trt_engine|fp16"  d == "trt_engine|int8"
<1>1. Arms = {} \cup {a} \cup {b} \cup {c} \cup {d}
  BY DEF Arms
<1>2. IsFiniteSet({}) /\ Cardinality({}) = 0
  BY FS_EmptySet
<1>3. IsFiniteSet({} \cup {a}) /\ Cardinality({} \cup {a}) = 1
  BY <1>2, FS_AddElement
<1>4. IsFiniteSet({} \cup {a} \cup {b}) /\ Cardinality({} \cup {a} \cup {b}) = 2
  BY <1>3, FS_AddElement
<1>5. IsFiniteSet({} \cup {a} \cup {b} \cup {c}) /\ Cardinality({} \cup {a} \cup {b} \cup {c}) = 3
  BY <1>4, FS_AddElement
<1>6. IsFiniteSet({} \cup {a} \cup {b} \cup {c} \cup {d}) /\ Cardinality({} \cup {a} \cup {b} \cup {c} \cup {d}) = 4
  BY <1>5, FS_AddElement
<1> QED
  BY <1>1, <1>6

\* A merged table of known groups.
TableOK(tab) == DOMAIN tab \subseteq GroupIds /\ \A g \in DOMAIN tab : tab[g] \in Entries

\* An election has a winner: the modal candidate exists and none beat it.
LEMMA HeadIsElected ==
  ASSUME NEW e \in Elections
  PROVE  CanonicalHead(e) \in DOMAIN e /\ \A n \in DOMAIN e : e[n] <= e[CanonicalHead(e)]
<1> DEFINE S == DOMAIN e
<1>1. IsFiniteSet(S) /\ S \subseteq Nat /\ S # {} /\ \A n \in S : e[n] \in Nat
  BY ClosureAssumption
<1>2. PICK x \in S : \A n \in S : e[n] <= e[x]
  BY <1>1, BestExists
<1> DEFINE T == {n \in S : e[n] = e[x]}
           name == [n \in T |-> 0 - n]
<1>3. PICK y \in T : \A n \in T : name[n] <= name[y]
  <2>1. IsFiniteSet(T) /\ T # {} /\ \A n \in T : name[n] \in Int
    BY <1>1, FS_Subset
  <2> HIDE DEF T, name
  <2> QED
    BY <2>1, BestExists
<1>4. \A n \in T : y <= n
  BY <1>1, <1>3
<1>5. /\ y \in S
      /\ \A m \in S : e[m] <= e[y]
      /\ \A m \in S : e[m] = e[y] => y <= m
  BY <1>2, <1>4
<1> QED
  BY <1>5 DEF CanonicalHead

\* Groups with all arms have one row per arm.
LEMMA WholeRows ==
  ASSUME NEW tab, NEW G, G \subseteq DOMAIN tab, \A g \in G : tab[g].arms = Arms
  PROVE  RowsOf(tab, G) = G \X Arms
<1>1. ASSUME NEW g \in G, NEW a \in Arms
      PROVE  <<g, a>> \in UNION {{h} \X tab[h].arms : h \in DOMAIN tab}
  <2>1. <<g, a>> \in {g} \X tab[g].arms
    OBVIOUS
  <2> QED
    BY <2>1
<1> QED
  BY <1>1 DEF RowsOf

\* Of valid rows there are four folds, one for each feedback group, and the
\* feedback groups have sixteen rows.
LEMMA FoldsOf ==
  ASSUME NEW tab, ValidRows(tab), IsFiniteSet(DOMAIN tab)
  PROVE  LET fed == InRole(tab, "online_feedback") IN
         /\ IsFiniteSet(fed) /\ Cardinality(fed) = 4
         /\ {f.heldout : f \in BuildFolds(tab)} = fed
         /\ Cardinality(BuildFolds(tab)) = 4
         /\ FeedbackRows(tab) = fed \X Arms
         /\ Cardinality(FeedbackRows(tab)) = 16
<1> DEFINE fed == InRole(tab, "online_feedback")
           FoldOf(h) == [heldout |-> h, baseline |-> InRole(tab, "train"), added |-> fed \ {h},
    updated |-> InRole(tab, "train") \cup (fed \ {h}), calibration |-> InRole(tab, "locked_holdout")]
<1>1. BuildFolds(tab) = {FoldOf(h) : h \in fed}
  BY DEF BuildFolds
<1>2. \A h : FoldOf(h).heldout = h
  OBVIOUS
<1>3. fed \subseteq DOMAIN tab /\ \A g \in fed : tab[g].arms = Arms
  BY DEF InRole, ValidRows, Whole
<1>4. IsFiniteSet(fed) /\ Cardinality(fed) = 4
  <2>1. Cardinality(fed) = RoleCount["online_feedback"]
    BY DEF ValidRows, Roles
  <2>2. RoleCount["online_feedback"] = 4
    BY DEF RoleCount, Roles
  <2> QED
    BY <1>3, <2>1, <2>2, FS_Subset
<1> HIDE DEF fed
<1>5. {f.heldout : f \in BuildFolds(tab)} = fed
  <2> HIDE DEF FoldOf
  <2>1. \A h \in fed : FoldOf(h) \in BuildFolds(tab)
    BY <1>1
  <2>2. \A f \in BuildFolds(tab) : f.heldout \in fed
    BY <1>1, <1>2
  <2> QED
    BY <1>2, <2>1, <2>2
<1>6. Cardinality(BuildFolds(tab)) = 4
  <2> DEFINE b == [h \in fed |-> FoldOf(h)]
  <2> HIDE DEF FoldOf
  <2>1. b \in Bijection(fed, BuildFolds(tab))
    BY <1>1, <1>2 DEF Bijection, Injection, Surjection, IsInjective
  <2> QED
    BY <2>1, <1>4, FS_Bijection DEF ExistsBijection
<1>7. FeedbackRows(tab) = fed \X Arms
  BY <1>3, WholeRows DEF FeedbackRows, fed
<1>8. Cardinality(FeedbackRows(tab)) = 16
  <2>1. Cardinality(fed \X Arms) = Cardinality(fed) * Cardinality(Arms)
    BY <1>4, FourArms, FS_Product
  <2> QED
    BY <2>1, <1>4, <1>7, FourArms
<1> QED
  BY <1>4, <1>5, <1>6, <1>7, <1>8 DEF fed

\* What an evaluation that was built holds: the table and the predictions it
\* was built from, which were valid then.
Built ==
  evaluation.status = "built" =>
    /\ after # None /\ before # None
    /\ evaluation.before = before /\ evaluation.after = after /\ evaluation.heads = heads
    /\ TableOK(evaluation.rows) /\ ValidRows(evaluation.rows)
    /\ CoversFeedback(evaluation.rows, before) /\ CoversFeedback(evaluation.rows, after)
    /\ evaluation.folds = BuildFolds(evaluation.rows)

\* What a finished audit holds: its gates, judged on the table as it was,
\* which has not been rebuilt since.
Audited ==
  audit.status \in {"open", "closed"} =>
    /\ evaluation.status = "built"
    /\ audit.gates = Gates(evaluation) /\ audit.sources = SourceRows(table)
    /\ audit.status = "closed" => \A k \in DOMAIN Gates(evaluation) : Gates(evaluation)[k]

\* The inductive invariant.
ClosureInv ==
  /\ TableOK(table) /\ drifts \in 0 .. MaxDrifts
  /\ evidence.election \in Elections
  /\ evaluation.status \in {"none", "rejected", "built"}
  /\ audit.status \in {"none", "raised", "open", "closed"}
  /\ after # None => before # None
  /\ Built /\ Audited

\* The invariant holds at the start.
LEMMA ClosureStart == ClosureInit => ClosureInv
<1> SUFFICES ASSUME ClosureInit PROVE ClosureInv
  OBVIOUS
<1>1. TableOK(table)
  BY ClosureAssumption DEF ClosureInit, TableOK
<1>2. evidence.election \in Elections
  BY DEF ClosureInit
<1> QED
  BY <1>1, <1>2, ClosureAssumption DEF ClosureInit, ClosureInv, Built, Audited, Pending

\* The table is rebuilt only before the audit, and an evaluation keeps the
\* rows it was built from.
LEMMA DriftStep == ClosureInv /\ Drift => ClosureInv'
<1> SUFFICES ASSUME ClosureInv, Drift PROVE ClosureInv'
  OBVIOUS
<1> DEFINE lost == CHOOSE a \in Arms : TRUE
<1>1. TableOK(table')
  <2> USE DEF ClosureInv, TableOK
  <2>1. CASE \E g \in DOMAIN table : \E r \in (Roles \cup {"other"}) \ {table[g].role} : table' = [table EXCEPT ![g].role = r]
    BY <2>1 DEF Entries
  <2>2. CASE \E g \in DOMAIN table : table' = [table EXCEPT ![g].arms = @ \ {lost}]
    <3> HIDE DEF lost
    <3> QED
      BY <2>2 DEF Entries
  <2>3. CASE \E g \in DOMAIN table : table' = [table EXCEPT ![g].finite = FALSE]
    BY <2>3 DEF Entries
  <2>4. CASE \E g \in DOMAIN table : table' = Restrict(table, DOMAIN table \ {g})
    BY <2>4 DEF Restrict
  <2>5. CASE \E g \in GroupIds \ DOMAIN table, r \in Roles, missing \in {{}, {lost}} :
          table' = [h \in DOMAIN table \cup {g} |->
                      IF h = g THEN [role |-> r, arms |-> Arms \ missing, finite |-> TRUE] ELSE table[h]]
    <3> HIDE DEF lost
    <3> QED
      BY <2>5 DEF Entries
  <2> QED
    BY <2>1, <2>2, <2>3, <2>4, <2>5, Zenon DEF Drift
<1>2. drifts' \in 0 .. MaxDrifts
  BY ClosureAssumption DEF Drift, ClosureInv
<1>3. audit.status = "none" /\ UNCHANGED <<before, after, heads, evaluation, evidence, audit>>
  BY Zenon DEF Drift
<1>4. Built' /\ Audited'
  BY <1>3 DEF ClosureInv, Built, Audited
<1> QED
  BY <1>1, <1>2, <1>3, <1>4 DEF ClosureInv

\* An evaluation is built from valid rows.
LEMMA EvaluateStep == ClosureInv /\ Evaluate => ClosureInv'
<1> SUFFICES ASSUME ClosureInv, Evaluate PROVE ClosureInv'
  OBVIOUS
<1>1. UNCHANGED <<table, drifts, before, after, heads, evidence, audit>>
  BY DEF Evaluate
<1>2. audit.status \notin {"open", "closed"}
  BY DEF Evaluate, ClosureInv, Audited
<1>3. CASE ValidRows(table) /\ CoversFeedback(table, before) /\ CoversFeedback(table, after)
  <2>1. evaluation' = [status |-> "built", folds |-> BuildFolds(table), before |-> before, after |-> after, heads |-> heads, rows |-> table]
    BY <1>3 DEF Evaluate
  <2>2. Built'
    BY <1>1, <1>3, <2>1 DEF Built, ClosureInv, Evaluate
  <2> QED
    BY <1>1, <1>2, <2>1, <2>2 DEF ClosureInv, Audited
<1>4. CASE ~(ValidRows(table) /\ CoversFeedback(table, before) /\ CoversFeedback(table, after))
  <2>1. evaluation' = [status |-> "rejected"]
    BY <1>4 DEF Evaluate
  <2> QED
    BY <1>1, <1>2, <2>1 DEF ClosureInv, Built, Audited
<1> QED
  BY <1>3, <1>4

\* An audit records the gates it judged.
LEMMA AuditStep == ClosureInv /\ Audit => ClosureInv'
<1> SUFFICES ASSUME ClosureInv, Audit PROVE ClosureInv'
  OBVIOUS
<1>1. UNCHANGED <<table, drifts, before, after, heads, evaluation, evidence>> /\ evaluation.status = "built"
  BY DEF Audit
<1>2. Gates(evaluation)' = Gates(evaluation) /\ SourceRows(table)' = SourceRows(table)
  BY <1>1 DEF Gates, CanonicalHead, Eligible, ProtocolValid, ReproducibilityValid, ImprovedTargets, RolesValid, HoldoutGate
<1>3. CASE audit' = [status |-> "raised"]
  BY <1>1, <1>3 DEF ClosureInv, Built, Audited
<1>4. CASE audit' = [status |-> IF \A k \in DOMAIN Gates(evaluation) : Gates(evaluation)[k] THEN "closed" ELSE "open",
             gates |-> Gates(evaluation), sources |-> SourceRows(table)]
  <2>1. Audited'
    BY <1>1, <1>2, <1>4 DEF Audited
  <2> QED
    BY <1>1, <1>4, <2>1 DEF ClosureInv, Built
<1> QED
  BY <1>3, <1>4 DEF Audit

\* Every step keeps the invariant.
LEMMA ClosureStep == ClosureInv /\ [ClosureNext]_closureVars => ClosureInv'
<1> SUFFICES ASSUME ClosureInv, [ClosureNext]_closureVars PROVE ClosureInv'
  OBVIOUS
<1>1. CASE PredictBefore
  BY <1>1 DEF PredictBefore, ClosureInv, Built, Audited, Gates, HoldoutGate, ProtocolValid, RolesValid
<1>2. CASE PredictAfter
  BY <1>2 DEF PredictAfter, ClosureInv, Built, Audited, Gates, HoldoutGate, ProtocolValid, RolesValid
<1>3. CASE UNCHANGED closureVars
  BY <1>3 DEF closureVars, ClosureInv, Built, Audited, Gates, HoldoutGate, ProtocolValid, RolesValid
<1> QED
  BY <1>1, <1>2, <1>3, DriftStep, EvaluateStep, AuditStep DEF ClosureNext

\* A table has finitely many groups.
LEMMA TablesAreFinite ==
  ASSUME NEW tab, TableOK(tab)
  PROVE  IsFiniteSet(DOMAIN tab)
  BY ClosureAssumption, FS_Subset DEF TableOK

\* In valid rows every group of a role is whole, and there are as many as the
\* role is to have.
LEMMA WholeInRole ==
  ASSUME NEW tab, ValidRows(tab), NEW r \in Roles, NEW folds
  PROVE  /\ ExpectedGroups(tab, r, folds) = InRole(tab, r)
         /\ Cardinality(InRole(tab, r)) = RoleCount[r]
  BY DEF ExpectedGroups, ValidRows, InRole

\* What a fold that was built holds.
LEMMA FoldShape ==
  ASSUME NEW tab, NEW f \in BuildFolds(tab)
  PROVE  /\ f.heldout \in InRole(tab, "online_feedback")
         /\ f.baseline = InRole(tab, "train") /\ f.calibration = InRole(tab, "locked_holdout")
         /\ f.added = InRole(tab, "online_feedback") \ {f.heldout}
         /\ f.updated = f.baseline \cup f.added
<1> DEFINE FoldOf(h) == [heldout |-> h, baseline |-> InRole(tab, "train"), added |-> InRole(tab, "online_feedback") \ {h},
    updated |-> InRole(tab, "train") \cup (InRole(tab, "online_feedback") \ {h}), calibration |-> InRole(tab, "locked_holdout")]
<1>1. PICK h \in InRole(tab, "online_feedback") : f = FoldOf(h)
  BY DEF BuildFolds
<1> QED
  BY <1>1

\* A fold that was built is sound for the audit, and its held-out group is in
\* none of its sets.
LEMMA FoldSound ==
  ASSUME NEW tab, NEW f \in BuildFolds(tab)
  PROVE  /\ FoldIsSound(f, InRole(tab, "online_feedback"), InRole(tab, "train"), InRole(tab, "locked_holdout"))
         /\ f.heldout \notin f.updated \cup f.baseline \cup f.calibration
<1>1. \A r, q \in Roles : r # q => InRole(tab, r) \cap InRole(tab, q) = {}
  BY DEF InRole
<1>2. /\ InRole(tab, "train") \cap InRole(tab, "online_feedback") = {}
      /\ InRole(tab, "train") \cap InRole(tab, "locked_holdout") = {}
      /\ InRole(tab, "online_feedback") \cap InRole(tab, "locked_holdout") = {}
  BY <1>1 DEF Roles
<1> QED
  BY <1>2, FoldShape DEF FoldIsSound

\* The audit accepts the protocol of an evaluation of this very table.
LEMMA FreshAccepted == ClosureInv => FreshEvaluationIsAccepted
<1> SUFFICES ASSUME ClosureInv, audit.status \in {"open", "closed"}, evaluation.rows = table,
                    evaluation.heads = CanonicalHead(evidence.election), ReproducibilityValid(evidence.rerun)
             PROVE  audit.gates.feedback_update_reproducible
  BY DEF FreshEvaluationIsAccepted
<1> DEFINE canonical == CanonicalHead(evidence.election)
           folds == evaluation.folds
<1>1. audit.gates = Gates(evaluation) /\ evaluation.status = "built"
  BY DEF ClosureInv, Audited
<1>2. /\ ValidRows(table) /\ folds = BuildFolds(table) /\ TableOK(table)
      /\ evaluation.before.ids = FeedbackRows(table) /\ evaluation.after.ids = FeedbackRows(table)
  BY <1>1 DEF ClosureInv, Built, CoversFeedback
<1>3. IsFiniteSet(DOMAIN table)
  BY <1>2, TablesAreFinite
<1>4. /\ Cardinality(folds) = 4 /\ {f.heldout : f \in folds} = InRole(table, "online_feedback")
      /\ Cardinality(InRole(table, "online_feedback")) = 4
      /\ Cardinality(FeedbackRows(table)) = 16
  BY <1>2, <1>3, FoldsOf
<1>5. /\ ExpectedGroups(table, "train", folds) = InRole(table, "train")
      /\ ExpectedGroups(table, "locked_holdout", folds) = InRole(table, "locked_holdout")
      /\ ExpectedGroups(table, "online_feedback", folds) = InRole(table, "online_feedback")
      /\ Cardinality(InRole(table, "train")) = 2 /\ Cardinality(InRole(table, "locked_holdout")) = 2
  BY <1>2, WholeInRole DEF Roles, RoleCount
<1>6. InRole(table, "train") # {} /\ InRole(table, "locked_holdout") # {}
  BY <1>5, FS_EmptySet
<1>7. InRole(table, "train") \cap InRole(table, "locked_holdout") = {}
  BY DEF InRole
<1>8. \A f \in folds : FoldIsSound(f, InRole(table, "online_feedback"), InRole(table, "train"), InRole(table, "locked_holdout"))
  BY <1>2, FoldSound
<1>9. ProtocolValid(evaluation, canonical, table)
  BY <1>2, <1>4, <1>5, <1>6, <1>7, <1>8 DEF ProtocolValid, FeedbackRows
<1>10. Gates(evaluation).feedback_update_reproducible
          = (ProtocolValid(evaluation, canonical, table) /\ ReproducibilityValid(evidence.rerun))
  BY DEF Gates
<1> QED
  BY <1>1, <1>9, <1>10, Zenon

\* The gates that a closed audit passed.
LEMMA ClosedGates ==
  ASSUME ClosureInv, Closed
  PROVE  /\ evaluation.heads = CanonicalHead(evidence.election)
         /\ ProtocolValid(evaluation, CanonicalHead(evidence.election), table)
         /\ ImprovedTargets(evaluation) # {} /\ RolesValid(table) /\ HoldoutGate(evidence.holdout, table)
         /\ audit.sources = SourceRows(table) /\ evaluation.status = "built"
<1>1. \A k \in DOMAIN Gates(evaluation) : Gates(evaluation)[k]
  BY DEF ClosureInv, Audited, Closed
<1>2. /\ evaluation.heads = CanonicalHead(evidence.election)
      /\ ProtocolValid(evaluation, CanonicalHead(evidence.election), table)
      /\ ImprovedTargets(evaluation) # {} /\ RolesValid(table) /\ HoldoutGate(evidence.holdout, table)
  BY <1>1 DEF Gates
<1> QED
  BY <1>2 DEF ClosureInv, Audited, Closed

\* What is closed is the update of this table: the protocol gate compares the
\* folds with the complete groups of each role, and the predicted rows with
\* the rows of the feedback groups.
LEMMA AboutThisTable == ClosureInv => ClosedIsAboutThisTable
<1> SUFFICES ASSUME ClosureInv, Closed PROVE ClosedIsAboutThisTable
  BY DEF ClosedIsAboutThisTable
<1> DEFINE rows == evaluation.rows  folds == evaluation.folds
<1>1. ProtocolValid(evaluation, CanonicalHead(evidence.election), table) /\ RolesValid(table) /\ evaluation.status = "built"
  BY ClosedGates
<1>2. /\ ValidRows(rows) /\ folds = BuildFolds(rows) /\ TableOK(rows)
      /\ before.ids = FeedbackRows(rows) /\ after.ids = FeedbackRows(rows)
      /\ evaluation.before = before
  BY <1>1 DEF ClosureInv, Built, CoversFeedback
<1>3. {f.heldout : f \in folds} = InRole(rows, "online_feedback") /\ Cardinality(folds) = 4
  BY <1>2, TablesAreFinite, FoldsOf
<1>4. PICK f \in folds : TRUE
  BY <1>3, FS_EmptySet
<1>5. /\ InRole(rows, "online_feedback") = ExpectedGroups(table, "online_feedback", folds)
      /\ f.baseline = ExpectedGroups(table, "train", folds)
      /\ f.calibration = ExpectedGroups(table, "locked_holdout", folds)
      /\ evaluation.before.ids = RowsOf(table, InRole(rows, "online_feedback"))
  BY <1>1, <1>3 DEF ProtocolValid, FoldIsSound
<1>6. f.baseline = InRole(rows, "train") /\ f.calibration = InRole(rows, "locked_holdout")
  BY <1>2, FoldShape
<1>7. ASSUME NEW g \in DOMAIN table, Whole(table, g)
      PROVE  g \in DOMAIN rows /\ rows[g].role = table[g].role
  <2>1. table[g].role \in Roles
    BY <1>1, <1>7 DEF RolesValid, Whole, Arms
  <2>2. g \in ExpectedGroups(table, table[g].role, folds)
    BY <1>7 DEF ExpectedGroups, InRole
  <2>3. g \in InRole(rows, table[g].role)
    BY <2>1, <2>2, <1>5, <1>6 DEF Roles
  <2> QED
    BY <2>3 DEF InRole
<1> QED
  BY <1>2, <1>5, <1>7 DEF ClosedIsAboutThisTable

\* In a closed audit nothing is judged on what it learned from.
LEMMA HoldoutUntouched == ClosureInv => HoldoutIsUntouched
<1> SUFFICES ASSUME ClosureInv, Closed PROVE HoldoutIsUntouched
  BY DEF HoldoutIsUntouched
<1>1. HoldoutGate(evidence.holdout, table) /\ evaluation.status = "built"
  BY ClosedGates
<1>2. \A f \in evaluation.folds : f.heldout \notin f.updated \cup f.baseline \cup f.calibration
  BY <1>1, FoldSound DEF ClosureInv, Built
<1>3. \A g \in evidence.holdout.groups : g \notin DOMAIN table \/ table[g].arms = {}
  BY <1>1 DEF HoldoutGate, Used
<1> QED
  BY <1>2, <1>3 DEF HoldoutIsUntouched

\* In a closed audit the evaluated head is the elected one.
LEMMA MostSelected == ClosureInv => HeadIsMostSelected
<1> SUFFICES ASSUME ClosureInv, Closed PROVE HeadIsMostSelected
  BY DEF HeadIsMostSelected
<1>1. evaluation.heads = CanonicalHead(evidence.election) /\ evaluation.status = "built"
  BY ClosedGates
<1>2. heads = CanonicalHead(evidence.election)
  BY <1>1 DEF ClosureInv, Built
<1> QED
  BY <1>2, HeadIsElected DEF HeadIsMostSelected, ClosureInv

\* In a closed audit one target gained without paying for it.
LEMMA NotBought == ClosureInv => GainIsNotBought
<1> SUFFICES ASSUME ClosureInv, Closed PROVE GainIsNotBought
  BY DEF GainIsNotBought
<1>1. ImprovedTargets(evaluation) # {} /\ evaluation.before = before /\ evaluation.after = after
  BY ClosedGates DEF ClosureInv, Built
<1> QED
  BY <1>1 DEF GainIsNotBought, ImprovedTargets

\* In a closed audit the two sources count every row once: no row lacks a
\* role.
LEMMA RowsCounted == ClosureInv => EveryRowIsCounted
<1> SUFFICES ASSUME ClosureInv, Closed PROVE EveryRowIsCounted
  BY DEF EveryRowIsCounted
<1> DEFINE all == UNION {{g} \X table[g].arms : g \in DOMAIN table}
           G(rs) == {g \in DOMAIN table : table[g].role \in rs}
           cold == RowsOf(table, G({"train", "locked_holdout"}))
           fed == RowsOf(table, G({"online_feedback"}))
<1>1. RolesValid(table) /\ audit.sources = SourceRows(table) /\ TableOK(table)
  BY ClosedGates DEF ClosureInv
<1>2. audit.sources.initial_coldstart = Cardinality(cold) /\ audit.sources.online_feedback = Cardinality(fed)
  BY <1>1 DEF SourceRows
<1>3. \A x \in all : \E g \in DOMAIN table : \E a \in Arms : a \in table[g].arms /\ x = <<g, a>>
  BY <1>1 DEF TableOK, Entries
<1>4. cold \cup fed = all
  <2>1. cold \cup fed \subseteq all
    BY DEF RowsOf
  <2>2. ASSUME NEW x \in all PROVE x \in cold \cup fed
    <3>1. PICK g \in DOMAIN table, a \in Arms : a \in table[g].arms /\ x = <<g, a>>
      BY <1>3
    <3>2. table[g].role \in Roles
      BY <1>1, <3>1 DEF RolesValid
    <3>4. g \in G({"train", "locked_holdout"}) \/ g \in G({"online_feedback"})
      BY <3>2 DEF Roles
    <3> HIDE DEF G
    <3> QED
      BY <3>1, <3>4 DEF RowsOf
  <2> QED
    BY <2>1, <2>2
<1>5. cold \cap fed = {}
  <2>1. G({"train", "locked_holdout"}) \cap G({"online_feedback"}) = {}
    OBVIOUS
  <2> HIDE DEF G
  <2> QED
    BY <2>1 DEF RowsOf
<1>6. IsFiniteSet(all)
  <2>1. all \subseteq GroupIds \X Arms
    BY <1>1 DEF TableOK, Entries
  <2> HIDE DEF all
  <2> QED
    BY <2>1, ClosureAssumption, FourArms, FS_Product, FS_Subset
<1> HIDE DEF all, cold, fed
<1>7. Cardinality(all) = Cardinality(cold) + Cardinality(fed)
  <2>1. IsFiniteSet(cold) /\ IsFiniteSet(fed)
    BY <1>4, <1>6, FS_Subset
  <2>2. Cardinality(cold \cap fed) = 0
    BY <1>5, FS_EmptySet
  <2>3. Cardinality(cold) \in Nat /\ Cardinality(fed) \in Nat
    BY <2>1, FS_CardinalityType
  <2>4. Cardinality(cold \cup fed) = Cardinality(cold) + Cardinality(fed) - Cardinality(cold \cap fed)
    BY <2>1, FS_Union, Zenon
  <2> QED
    BY <2>2, <2>3, <2>4, <1>4
<1> QED
  BY <1>2, <1>7 DEF EveryRowIsCounted, all

\* The invariant implies the types.
LEMMA ClosureTypes == ClosureInv => ClosureTypeOK
<1> SUFFICES ASSUME ClosureInv PROVE ClosureTypeOK
  OBVIOUS
<1>1. DOMAIN table \subseteq GroupIds /\ Range(table) \subseteq Entries
  BY DEF ClosureInv, TableOK, Range
<1>2. ASSUME evaluation.status = "built"
      PROVE  /\ Cardinality(evaluation.folds) = 4
             /\ Cardinality(evaluation.before.ids) = 16 /\ Cardinality(evaluation.after.ids) = 16
  BY <1>2, FoldsOf, TablesAreFinite DEF ClosureInv, Built, CoversFeedback
<1> QED
  BY <1>1, <1>2 DEF ClosureInv, ClosureTypeOK

\* ClosureInv holds in every reachable state.
THEOREM ClosureInvariance == ClosureSpec => []ClosureInv
  BY ClosureStart, ClosureStep, PTL DEF ClosureSpec

\* Types of table and reports, for every table, election and holdout: a built
\* evaluation has four folds and sixteen predicted rows.
THEOREM ClosureTypeCorrect == ClosureSpec => []ClosureTypeOK
  BY ClosureInvariance, ClosureTypes, PTL

\* Whatever the table was and however it is rebuilt between the predictions,
\* the evaluation and the audit, a closed audit is about the table that lies
\* there, on data that was held out, of the elected head, with a gain that was
\* not bought (closure_audit_v1.py, feedback_update_eval_v1.py).
THEOREM ClosedAuditsAreSound == ClosureSpec => []ClosedIsSound
<1>1. ClosureInv => ClosedIsSound
  BY FreshAccepted, AboutThisTable, RowsCounted, HoldoutUntouched, MostSelected, NotBought DEF ClosedIsSound
<1> QED
  BY <1>1, ClosureInvariance, PTL

----------------------------------------------------------------------------
(* NestedSelection: folds and rows *)

\* The numbers of a set in ascending order hold each of them once: no two
\* have the same rank, so every rank is somebody's.
LEMMA AscendingFacts ==
  ASSUME NEW S, IsFiniteSet(S), S \subseteq Nat
  PROVE  /\ Ascending(S) \in Seq(S) /\ DOMAIN Ascending(S) = 1 .. Cardinality(S)
         /\ Range(Ascending(S)) = S
         /\ \A k, l \in DOMAIN Ascending(S) : Ascending(S)[k] = Ascending(S)[l] => k = l
<1> DEFINE n == Cardinality(S)
           upto(s) == {x \in S : x <= s}
           rank == [s \in S |-> Cardinality(upto(s))]
           a == Ascending(S)
<1>1. n \in Nat /\ IsFiniteSet(1 .. n) /\ Cardinality(1 .. n) = n
  BY FS_CardinalityType, FS_Interval
<1>2. ASSUME NEW s \in S PROVE IsFiniteSet(upto(s)) /\ rank[s] \in 1 .. n
  <2>1. IsFiniteSet(upto(s)) /\ Cardinality(upto(s)) <= n /\ Cardinality(upto(s)) \in Nat
    BY FS_Subset, FS_CardinalityType
  <2>2. s \in upto(s)
    OBVIOUS
  <2>3. Cardinality(upto(s)) # 0
    BY <2>1, <2>2, FS_EmptySet
  <2> QED
    BY <1>1, <2>1, <2>3
<1>3. ASSUME NEW s \in S, NEW t \in S, s < t PROVE rank[s] # rank[t]
  <2>4. s \in Nat /\ t \in Nat /\ (\A x \in S : x \in Nat) /\ s < t
    BY <1>3
  <2>5. t <= t /\ ~(t <= s) /\ \A x \in S : x <= s => x <= t
    BY <2>4
  <2>1. upto(s) \in SUBSET upto(t) /\ t \in upto(t) /\ t \notin upto(s)
    BY <2>5, Zenon
  <2>2. upto(s) # upto(t)
    BY <2>1
  <2>3. Cardinality(upto(t)) = Cardinality(upto(s)) => upto(t) = upto(s)
    <3> HIDE DEF upto
    <3> QED
      BY <1>2, <2>1, FS_Subset
  <2> QED
    BY <2>2, <2>3
<1>4. rank \in Injection(S, 1 .. n)
  <2>1. rank \in [S -> 1 .. n]
    BY <1>2
  <2>2. \A s, t \in S : rank[s] = rank[t] => s = t
    BY <1>3
  <2> HIDE DEF rank
  <2> QED
    BY <2>1, <2>2 DEF Injection, IsInjective
<1>5. rank \in Surjection(S, 1 .. n)
  BY <1>1, <1>4, FS_Injection
<1>6. ASSUME NEW k \in 1 .. n PROVE a[k] \in S /\ rank[a[k]] = k
  <2>1. PICK s \in S : rank[s] = k
    BY <1>5 DEF Surjection
  <2>2. Cardinality(upto(s)) = k
    BY <2>1
  <2>3. a[k] = CHOOSE x \in S : Cardinality(upto(x)) = k
    BY DEF Ascending
  <2>4. a[k] \in S /\ Cardinality(upto(a[k])) = k
    BY <2>2, <2>3
  <2> QED
    BY <2>4
<1>7. DOMAIN a = 1 .. n /\ a = [k \in 1 .. n |-> a[k]]
  BY DEF Ascending
<1>8. a \in Seq(S)
  <2>1. a \in [1 .. n -> S]
    <3> HIDE DEF a, n
    <3> QED
      BY <1>6, <1>7
  <2> HIDE DEF a, n
  <2> QED
    BY <1>1, <2>1
<1>9. \A k, l \in 1 .. n : a[k] = a[l] => k = l
  BY <1>6
<1>10. ASSUME NEW s \in S PROVE \E k \in 1 .. n : a[k] = s
  <2>1. rank[s] \in 1 .. n
    BY <1>2
  <2>2. a[rank[s]] \in S /\ rank[a[rank[s]]] = rank[s]
    BY <2>1, <1>6
  <2>3. a[rank[s]] = s
    BY <2>2, <1>4 DEF Injection, IsInjective
  <2> QED
    BY <2>1, <2>3
<1>11. Range(a) = S
  <2> HIDE DEF a, n
  <2> QED
    BY <1>6, <1>7, <1>10 DEF Range
<1> QED
  BY <1>7, <1>8, <1>9, <1>11

\* The positions of a row list that are in no fold or in one fold are a
\* finite set of numbers.
LEMMA PositionsFacts ==
  ASSUME NEW T, NEW rows \in Seq(T), NEW S \in SUBSET DOMAIN rows
  PROVE  IsFiniteSet(S) /\ S \subseteq Nat
<1>1. DOMAIN rows = 1 .. Len(rows) /\ Len(rows) \in Nat
  OBVIOUS
<1>2. IsFiniteSet(1 .. Len(rows))
  BY <1>1, FS_Interval
<1>3. IsFiniteSet(S)
  BY <1>1, <1>2, FS_Subset
<1> QED
  BY <1>1, <1>3

\* A sequence over T is a function into T.
LEMMA SeqFacts ==
  ASSUME NEW T, NEW s \in Seq(T)
  PROVE  s \in [1 .. Len(s) -> T] /\ DOMAIN s = 1 .. Len(s) /\ Len(s) \in Nat /\ \A k \in DOMAIN s : s[k] \in T
  OBVIOUS

\* The rows at the positions of a list are the rows that the positions stand for.
LEMMA RowsAtFacts ==
  ASSUME NEW rows \in Seq(Rows), NEW positions \in Seq(DOMAIN rows)
  PROVE  /\ RowsAt(rows, positions) \in Seq(Rows)
         /\ DOMAIN RowsAt(rows, positions) = DOMAIN positions
         /\ Range(RowsAt(rows, positions)) = {rows[p] : p \in Range(positions)}
<1> DEFINE r == RowsAt(rows, positions)
<1>1. DOMAIN r = DOMAIN positions /\ \A p \in DOMAIN positions : r[p] = rows[positions[p]]
  BY DEF RowsAt
<1>2. \A p \in DOMAIN positions : positions[p] \in DOMAIN rows /\ rows[positions[p]] \in Rows
  OBVIOUS
<1>3. DOMAIN positions = 1 .. Len(positions) /\ Len(positions) \in Nat
  OBVIOUS
<1>4. r \in [1 .. Len(positions) -> Rows]
  BY <1>2, <1>3 DEF RowsAt
<1>5. Range(r) = {rows[p] : p \in Range(positions)}
  <2> HIDE DEF r
  <2> QED
    BY <1>1 DEF Range
<1> HIDE DEF r
<1> QED
  BY <1>1, <1>3, <1>4, <1>5 DEF r

\* Splitting a row list by group: every fold tests the groups that the split
\* gives it and trains on the others.
LEMMA SplitFacts ==
  ASSUME NEW rows \in Seq(Rows), NEW n \in Nat, NEW folds \in GroupedFolds(rows, n)
  PROVE  /\ DOMAIN folds = 1 .. n /\ Len(folds) = n
         /\ \E f \in [GroupsOf(rows) -> 0 .. n - 1] : \A k \in 1 .. n :
              /\ RowsAt(rows, folds[k].train) \in Seq(Rows) /\ RowsAt(rows, folds[k].test) \in Seq(Rows)
              /\ Range(RowsAt(rows, folds[k].train)) = {r \in Range(rows) : f[RowGroup[r]] # k - 1}
              /\ Range(RowsAt(rows, folds[k].test)) = {r \in Range(rows) : f[RowGroup[r]] = k - 1}
              /\ Range(folds[k].test) \subseteq DOMAIN rows
              /\ \A p, q \in DOMAIN folds[k].test : folds[k].test[p] = folds[k].test[q] => p = q
<1> DEFINE Held(f, k) == {p \in DOMAIN rows : f[RowGroup[rows[p]]] = k - 1}
<1>1. PICK f \in Splits(GroupsOf(rows), n) :
        folds = [k \in 1 .. n |-> [train |-> Ascending(DOMAIN rows \ Held(f, k)), test |-> Ascending(Held(f, k))]]
  BY DEF GroupedFolds
<1>2. f \in [GroupsOf(rows) -> 0 .. n - 1]
  BY <1>1 DEF Splits
<1>3. DOMAIN folds = 1 .. n /\ Len(folds) = n
  BY <1>1
<1>4. ASSUME NEW k \in 1 .. n
      PROVE  /\ RowsAt(rows, folds[k].train) \in Seq(Rows) /\ RowsAt(rows, folds[k].test) \in Seq(Rows)
             /\ Range(RowsAt(rows, folds[k].train)) = {r \in Range(rows) : f[RowGroup[r]] # k - 1}
             /\ Range(RowsAt(rows, folds[k].test)) = {r \in Range(rows) : f[RowGroup[r]] = k - 1}
             /\ Range(folds[k].test) \subseteq DOMAIN rows
             /\ \A p, q \in DOMAIN folds[k].test : folds[k].test[p] = folds[k].test[q] => p = q
  <2> DEFINE held == Held(f, k)
             rest == DOMAIN rows \ held
  <2>1. folds[k].train = Ascending(rest) /\ folds[k].test = Ascending(held)
    BY <1>1
  <2>2. held \in SUBSET DOMAIN rows /\ rest \in SUBSET DOMAIN rows
    OBVIOUS
  <2>3. IsFiniteSet(held) /\ held \subseteq Nat /\ IsFiniteSet(rest) /\ rest \subseteq Nat
    <3> HIDE DEF held
    <3> QED
      BY <2>2, PositionsFacts
  <2>4. \A r : r \in Range(rows) <=> \E p \in DOMAIN rows : r = rows[p]
    BY DEF Range
  <2>5. {rows[p] : p \in held} = {r \in Range(rows) : f[RowGroup[r]] = k - 1}
    BY <2>4
  <2>6. {rows[p] : p \in rest} = {r \in Range(rows) : f[RowGroup[r]] # k - 1}
    BY <2>4
  <2> HIDE DEF held, rest
  <2>7. /\ Ascending(held) \in Seq(held) /\ Range(Ascending(held)) = held
        /\ \A p, q \in DOMAIN Ascending(held) : Ascending(held)[p] = Ascending(held)[q] => p = q
        /\ Ascending(rest) \in Seq(rest) /\ Range(Ascending(rest)) = rest
    BY <2>3, AscendingFacts
  <2>8. Ascending(held) \in Seq(DOMAIN rows) /\ Ascending(rest) \in Seq(DOMAIN rows)
    BY <2>2, <2>7
  <2>9. /\ RowsAt(rows, Ascending(held)) \in Seq(Rows) /\ RowsAt(rows, Ascending(rest)) \in Seq(Rows)
        /\ Range(RowsAt(rows, Ascending(held))) = {rows[p] : p \in held}
        /\ Range(RowsAt(rows, Ascending(rest))) = {rows[p] : p \in rest}
    BY <2>7, <2>8, RowsAtFacts
  <2> QED
    BY <2>1, <2>2, <2>5, <2>6, <2>7, <2>9
<1> QED
  BY <1>2, <1>3, <1>4

\* A row list has finitely many groups.
LEMMA GroupsFinite ==
  ASSUME NEW rows \in Seq(Rows)
  PROVE  IsFiniteSet(GroupsOf(rows)) /\ Cardinality(GroupsOf(rows)) \in Nat
<1> DEFINE D == DOMAIN rows
           group == [p \in D |-> RowGroup[rows[p]]]
<1>1. IsFiniteSet(D)
  BY PositionsFacts
<1>2. GroupsOf(rows) = {group[p] : p \in D}
  BY DEF GroupsOf, Range
<1>3. group \in Surjection(D, GroupsOf(rows))
  <2>1. group \in [D -> GroupsOf(rows)]
    BY <1>2
  <2>2. \A g \in GroupsOf(rows) : \E p \in D : group[p] = g
    BY <1>2
  <2> HIDE DEF group, D
  <2> QED
    BY <2>1, <2>2 DEF Surjection
<1>4. IsFiniteSet(GroupsOf(rows))
  BY <1>1, <1>3, FS_Surjection
<1> QED
  BY <1>4, FS_CardinalityType

LEMMA AllRowsFacts ==
  /\ AllRows \in Seq(Rows) /\ DOMAIN AllRows = Rows /\ Range(AllRows) = Rows
  /\ \A j \in Rows : AllRows[j] = j
  /\ GroupsOf(AllRows) = MeasuredGroups
<1>1. DOMAIN RowGroup = 1 .. Len(RowGroup) /\ Len(RowGroup) \in Nat
  BY NestedAssumption
<1>2. AllRows \in [1 .. Len(RowGroup) -> Rows] /\ DOMAIN AllRows = Rows /\ \A j \in Rows : AllRows[j] = j
  BY <1>1 DEF AllRows, Rows
<1>3. AllRows \in Seq(Rows)
  BY <1>1, <1>2
<1>4. Range(AllRows) = Rows
  BY <1>2 DEF Range
<1>5. GroupsOf(AllRows) = MeasuredGroups
  BY <1>4 DEF GroupsOf, MeasuredGroups, Range, Rows
<1> QED
  BY <1>2, <1>3, <1>4, <1>5

\* The candidates of a target are some of the requested ones.
LEMMA NamesFacts ==
  ASSUME NEW of
  PROVE  CandidateNames(of) \in Seq([name : STRING, encoding : {"raw", "log", "residual"}])
<1> DEFINE wanted == {k \in DOMAIN Requested :
                        Requested[k].encoding # (IF of = "ap70" THEN "log" ELSE "residual")}
           apply == Ascending(wanted)
           Model == [name : STRING, encoding : {"raw", "log", "residual"}]
<1>1. CandidateNames(of) = [k \in DOMAIN apply |-> Requested[apply[k]]]
  BY DEF CandidateNames
<1>2. Requested \in Seq(Model)
  BY NestedAssumption
<1> HIDE DEF Model
<1>3. wanted \in SUBSET DOMAIN Requested
  OBVIOUS
<1> HIDE DEF wanted
<1>4. IsFiniteSet(wanted) /\ wanted \subseteq Nat
  BY <1>2, <1>3, PositionsFacts
<1>5. apply \in Seq(wanted)
  BY <1>4, AscendingFacts
<1> HIDE DEF apply
<1>6. \A k \in DOMAIN apply : Requested[apply[k]] \in Model
  BY <1>2, <1>3, <1>5
<1>7. DOMAIN apply = 1 .. Len(apply) /\ Len(apply) \in Nat
  BY <1>5
<1>8. CandidateNames(of) \in [1 .. Len(apply) -> Model]
  BY <1>1, <1>6, <1>7
<1>9. CandidateNames(of) \in Seq(Model)
  BY <1>7, <1>8
<1> QED
  BY <1>9 DEF Model

\* Among scores there is a first of the smallest.
LEMMA BestIsACandidate ==
  ASSUME NEW sc \in Seq(Nat), sc # <<>>
  PROVE  BestCandidate(sc) \in DOMAIN sc
<1> DEFINE D == DOMAIN sc
           less == [k \in D |-> -sc[k]]
<1>1. D = 1 .. Len(sc) /\ Len(sc) \in Nat /\ D # {} /\ \A k \in D : sc[k] \in Nat
  OBVIOUS
<1>2. IsFiniteSet(D)
  BY PositionsFacts
<1>3. \A k \in D : less[k] \in Int
  BY <1>1
<1>4. PICK x \in D : \A y \in D : less[y] <= less[x]
  <2> HIDE DEF less, D
  <2> QED
    BY <1>1, <1>2, <1>3, BestExists
<1>5. \A y \in D : sc[x] <= sc[y]
  BY <1>1, <1>4
<1> DEFINE M == {k \in D : sc[k] = sc[x]}
           back == [k \in M |-> -k]
<1>6. IsFiniteSet(M) /\ M # {} /\ \A k \in M : back[k] \in Int
  <2>1. M \in SUBSET D /\ x \in M
    OBVIOUS
  <2>2. \A k \in M : back[k] \in Int
    BY <1>1
  <2> HIDE DEF M, back
  <2> QED
    BY <1>2, <2>1, <2>2, FS_Subset
<1>7. PICK z \in M : \A y \in M : back[y] <= back[z]
  <2> HIDE DEF M, back
  <2> QED
    BY <1>6, BestExists
<1>8. z \in D /\ sc[z] = sc[x] /\ \A y \in D : sc[y] = sc[x] => z <= y
  BY <1>1, <1>7
<1>9. \A l \in 1 .. z - 1 : l \in D /\ sc[l] > sc[z]
  BY <1>1, <1>5, <1>8
<1>10. (\A l \in D : sc[z] <= sc[l]) /\ (\A l \in 1 .. z - 1 : sc[l] > sc[z])
  BY <1>5, <1>8, <1>9
<1> HIDE DEF M, back, less
<1> QED
  BY <1>8, <1>10 DEF BestCandidate

\* Three numbers can be put in order.
LEMMA IntervalOrdered ==
  ASSUME NEW raw \in [1 .. 3 -> 1 .. 3]
  PROVE  QuantileInterval(raw)[1] <= QuantileInterval(raw)[2] /\ QuantileInterval(raw)[2] <= QuantileInterval(raw)[3]
<1> DEFINE Sorts(s) == /\ s[1] <= s[2] /\ s[2] <= s[3]
                       /\ \E p \in [1 .. 3 -> 1 .. 3] : Range(p) = 1 .. 3 /\ \A k \in 1 .. 3 : s[k] = raw[p[k]]
           Perm(i, j, k) == [x \in 1 .. 3 |-> IF x = 1 THEN i ELSE IF x = 2 THEN j ELSE k]
<1>1. ASSUME NEW i \in 1 .. 3, NEW j \in 1 .. 3, NEW k \in 1 .. 3, i # j, j # k, i # k,
             raw[i] <= raw[j], raw[j] <= raw[k]
      PROVE  \E s \in [1 .. 3 -> Range(raw)] : Sorts(s)
  <2> DEFINE p == Perm(i, j, k)
             s == [x \in 1 .. 3 |-> raw[p[x]]]
  <2>1. p \in [1 .. 3 -> 1 .. 3] /\ p[1] = i /\ p[2] = j /\ p[3] = k
    OBVIOUS
  <2>2. Range(p) = 1 .. 3
    <3>1. \A y \in 1 .. 3 : y = i \/ y = j \/ y = k
      BY <1>1
    <3> HIDE DEF p
    <3> QED
      BY <2>1, <3>1 DEF Range
  <2> HIDE DEF p
  <2>3. s \in [1 .. 3 -> Range(raw)] /\ s[1] = raw[i] /\ s[2] = raw[j] /\ s[3] = raw[k]
    BY <2>1 DEF Range
  <2>4. \A x \in 1 .. 3 : s[x] = raw[p[x]]
    OBVIOUS
  <2> HIDE DEF s
  <2> QED
    BY <1>1, <2>1, <2>2, <2>3, <2>4
<1>2. raw[1] \in 1 .. 3 /\ raw[2] \in 1 .. 3 /\ raw[3] \in 1 .. 3
  OBVIOUS
<1>3. \E i, j, k \in 1 .. 3 : i # j /\ j # k /\ i # k /\ raw[i] <= raw[j] /\ raw[j] <= raw[k]
  <2>1. CASE raw[1] <= raw[2] /\ raw[2] <= raw[3]
    BY <2>1
  <2>2. CASE raw[1] <= raw[3] /\ raw[3] <= raw[2]
    BY <2>2
  <2>3. CASE raw[2] <= raw[1] /\ raw[1] <= raw[3]
    BY <2>3
  <2>4. CASE raw[2] <= raw[3] /\ raw[3] <= raw[1]
    BY <2>4
  <2>5. CASE raw[3] <= raw[1] /\ raw[1] <= raw[2]
    BY <2>5
  <2>6. CASE raw[3] <= raw[2] /\ raw[2] <= raw[1]
    BY <2>6
  <2> QED
    BY <1>2, <2>1, <2>2, <2>3, <2>4, <2>5, <2>6
<1>4. \E s \in [1 .. 3 -> Range(raw)] : Sorts(s)
  <2> HIDE DEF Sorts
  <2> QED
    BY <1>1, <1>3
<1>5. QuantileInterval(raw) = CHOOSE s \in [1 .. 3 -> Range(raw)] : Sorts(s)
  BY DEF QuantileInterval
<1>6. Sorts(QuantileInterval(raw))
  <2> HIDE DEF Sorts
  <2> QED
    BY <1>4, <1>5
<1> QED
  BY <1>6

----------------------------------------------------------------------------
(* NestedSelection: the inductive invariant *)

\* Before the outer split nothing has been done; after it the folds are of
\* the table.
Unsplit ==
  /\ fits = {} /\ oof = <<>> /\ picked = <<>> /\ counts = <<>>
  /\ fold = 0 /\ target = 1
IsSplit == outer \in GroupedFolds(AllRows, OuterSplits) /\ OuterSplits >= 2

\* Where the loops stand.
LoopInv ==
  /\ Unsplit \/ IsSplit
  /\ phase \in {"encode", "outer"} => Unsplit
  /\ phase \in {"inner", "score", "report", "done"} => IsSplit
  /\ phase \in {"inner", "score"} => fold < OuterSplits
  /\ phase \in {"report", "done"} => fold = OuterSplits
  /\ phase = "score" =>
       /\ inner \in GroupedFolds(TrainRows, InnerCount)
       /\ InnerCount \in 2 .. InnerSplits /\ innerFold <= InnerCount /\ Names # <<>>

\* A fit is of a loop position, draws the seed of that position, and is judged
\* on groups it has not seen.
FitRows(f) ==
  LET TestGroups == {RowGroup[j] : j \in Range(outer[f.outer + 1].test)}
  IN /\ {RowGroup[j] : j \in f.train} \cap {RowGroup[j] : j \in f.test} = {}
     /\ f.purpose = "candidate" => {RowGroup[j] : j \in f.train \cup f.test} \cap TestGroups = {}
FitPlace(f) ==
  /\ f.outer \in 0 .. OuterSplits - 1
  /\ \/ f.purpose = "candidate" /\ f.candidate \in 0 .. Len(Names) - 1 /\ f.inner \in 0 .. InnerSplits - 1
     \/ f.purpose = "outer_fit" /\ f.candidate = 0 /\ f.inner = 0
  /\ f.seed = DeriveSeed(f.purpose, f.outer, f.candidate, f.inner)
FitsInv == \A f \in fits : FitRows(f) /\ FitPlace(f)

\* The predictions so far are those of the outer folds so far, each once.
Tested(k) == Range(RowsAt(AllRows, outer[k].test))
OofInv ==
  /\ \A p \in DOMAIN oof : oof[p].fold < fold /\ oof[p].row \in Tested(oof[p].fold + 1)
  /\ \A p, q \in DOMAIN oof : oof[p].row = oof[q].row => p = q
  /\ \A k \in 1 .. fold : Tested(k) \subseteq {oof[p].row : p \in DOMAIN oof}

\* A table of counts is of one election per outer fold.
CountTables == UNION {[D -> Nat] : D \in SUBSET STRING}
Elects(tally) ==
  \E elected \in [1 .. OuterSplits -> DOMAIN tally] :
    \A n \in DOMAIN tally : tally[n] = Cardinality({x \in 1 .. OuterSplits : elected[x] = n})
CountsInv ==
  /\ counts \in Seq(CountTables)
  /\ \A k \in DOMAIN counts : Elects(counts[k])
  /\ phase = "done" => Len(counts) = target /\ counts[target] = SelectedCounts(Names, picked)
  /\ phase # "done" => Len(counts) = target - 1
  /\ \A x \in DOMAIN picked : picked[x] \in {Names[k].name : k \in DOMAIN Names}

NestedInv == NestedTypeOK /\ LoopInv /\ FitsInv /\ OofInv /\ CountsInv /\ IntervalIsOrdered


\* What the outer split says of the table.
LEMMA OuterFacts ==
  ASSUME IsSplit, OuterSplits \in Nat
  PROVE  /\ Len(outer) = OuterSplits
         /\ \E f \in [MeasuredGroups -> 0 .. OuterSplits - 1] : \A k \in 1 .. OuterSplits :
              /\ RowsAt(AllRows, outer[k].train) \in Seq(Rows) /\ RowsAt(AllRows, outer[k].test) \in Seq(Rows)
              /\ Range(RowsAt(AllRows, outer[k].train)) = {r \in Rows : f[RowGroup[r]] # k - 1}
              /\ Tested(k) = {r \in Rows : f[RowGroup[r]] = k - 1}
              /\ Range(outer[k].test) = Tested(k)
              /\ \A p, q \in DOMAIN RowsAt(AllRows, outer[k].test) :
                   RowsAt(AllRows, outer[k].test)[p] = RowsAt(AllRows, outer[k].test)[q] => p = q
<1>4. outer \in GroupedFolds(AllRows, OuterSplits) /\ AllRows \in Seq(Rows) /\ OuterSplits \in Nat
  BY AllRowsFacts DEF IsSplit
<1>1. PICK f \in [GroupsOf(AllRows) -> 0 .. OuterSplits - 1] : \A k \in 1 .. OuterSplits :
        /\ RowsAt(AllRows, outer[k].train) \in Seq(Rows) /\ RowsAt(AllRows, outer[k].test) \in Seq(Rows)
        /\ Range(RowsAt(AllRows, outer[k].train)) = {r \in Range(AllRows) : f[RowGroup[r]] # k - 1}
        /\ Range(RowsAt(AllRows, outer[k].test)) = {r \in Range(AllRows) : f[RowGroup[r]] = k - 1}
        /\ Range(outer[k].test) \subseteq DOMAIN AllRows
        /\ \A p, q \in DOMAIN outer[k].test : outer[k].test[p] = outer[k].test[q] => p = q
  BY <1>4, SplitFacts, Zenon
<1>2. Len(outer) = OuterSplits
  BY SplitFacts, AllRowsFacts DEF IsSplit
<1>3. ASSUME NEW k \in 1 .. OuterSplits
      PROVE  /\ Range(outer[k].test) = Range(RowsAt(AllRows, outer[k].test))
             /\ \A p, q \in DOMAIN RowsAt(AllRows, outer[k].test) :
                  RowsAt(AllRows, outer[k].test)[p] = RowsAt(AllRows, outer[k].test)[q] => p = q
  <2> DEFINE positions == outer[k].test
  <2>1. \A p \in DOMAIN positions : positions[p] \in Rows
    BY <1>1, AllRowsFacts DEF Range
  <2>2. /\ DOMAIN RowsAt(AllRows, positions) = DOMAIN positions
        /\ \A p \in DOMAIN positions : RowsAt(AllRows, positions)[p] = positions[p]
    BY <2>1, AllRowsFacts DEF RowsAt
  <2>3. \A p, q \in DOMAIN positions : positions[p] = positions[q] => p = q
    BY <1>1
  <2> HIDE DEF positions
  <2>4. Range(positions) = Range(RowsAt(AllRows, positions))
    BY <2>2 DEF Range
  <2> QED
    BY <2>2, <2>3, <2>4 DEF positions
<1> QED
  BY <1>1, <1>2, <1>3, AllRowsFacts DEF Tested

\* The rows of the outer fold the loop is at: it tests what it does not train on.
LEMMA CurrentFold ==
  ASSUME IsSplit, OuterSplits \in Nat, fold \in Nat, fold < OuterSplits
  PROVE  \E f \in [MeasuredGroups -> 0 .. OuterSplits - 1] :
           /\ TrainRows \in Seq(Rows) /\ TestRows \in Seq(Rows)
           /\ Range(TrainRows) = {r \in Rows : f[RowGroup[r]] # fold}
           /\ Tested(fold + 1) = {r \in Rows : f[RowGroup[r]] = fold}
           /\ Range(TestRows) = Tested(fold + 1) /\ Range(outer[fold + 1].test) = Tested(fold + 1)
           /\ \A p, q \in DOMAIN TestRows : TestRows[p] = TestRows[q] => p = q
           /\ \A k \in 1 .. OuterSplits : Tested(k) = {r \in Rows : f[RowGroup[r]] = k - 1}
<1>1. PICK f \in [MeasuredGroups -> 0 .. OuterSplits - 1] : \A k \in 1 .. OuterSplits :
        /\ RowsAt(AllRows, outer[k].train) \in Seq(Rows) /\ RowsAt(AllRows, outer[k].test) \in Seq(Rows)
        /\ Range(RowsAt(AllRows, outer[k].train)) = {r \in Rows : f[RowGroup[r]] # k - 1}
        /\ Tested(k) = {r \in Rows : f[RowGroup[r]] = k - 1}
        /\ Range(outer[k].test) = Tested(k)
        /\ \A p, q \in DOMAIN RowsAt(AllRows, outer[k].test) :
             RowsAt(AllRows, outer[k].test)[p] = RowsAt(AllRows, outer[k].test)[q] => p = q
  BY OuterFacts, Zenon
<1>2. fold + 1 \in 1 .. OuterSplits /\ (fold + 1) - 1 = fold
  OBVIOUS
<1>3. Range(TestRows) = Tested(fold + 1)
  BY DEF Tested, TestRows, Outer
<1> QED
  BY <1>1, <1>2, <1>3 DEF TrainRows, TestRows, Outer

\* The number of inner folds is a number, and not above the one asked for.
LEMMA InnerCountFacts ==
  ASSUME TrainRows \in Seq(Rows)
  PROVE  InnerCount \in Nat /\ InnerCount <= InnerSplits
<1> DEFINE c == Cardinality(GroupsOf(TrainRows))
<1>1. c \in Nat /\ InnerSplits \in Nat
  BY GroupsFinite, NestedAssumption
<1> HIDE DEF c
<1>2. \E x \in {InnerSplits, c} : \A y \in {InnerSplits, c} : x <= y
  BY <1>1
<1>3. Min({InnerSplits, c}) \in {InnerSplits, c} /\ \A y \in {InnerSplits, c} : Min({InnerSplits, c}) <= y
  BY <1>2 DEF Min
<1> QED
  BY <1>1, <1>3 DEF InnerCount, c

LEMMA NestedInit_Inv == NestedInit => NestedInv
<1> SUFFICES ASSUME NestedInit PROVE NestedInv
  OBVIOUS
<1>1. /\ fault \in Faults /\ phase = "encode" /\ target = 1 /\ fold = 0 /\ candidate = 1 /\ innerFold = 1
      /\ outer = <<>> /\ inner = <<>> /\ scores = <<>> /\ oof = <<>> /\ picked = <<>>
      /\ counts = <<>> /\ fits = {} /\ interval = <<>>
  BY DEF NestedInit
<1>2. TargetOrder \in Seq(STRING) /\ TargetOrder # <<>> /\ OuterSplits \in Nat /\ InnerSplits \in Nat \ {0}
      /\ Faults \subseteq InputFaults
  BY NestedAssumption
<1>3. target \in DOMAIN TargetOrder
  BY <1>1, <1>2
<1>4. NestedTypeOK
  BY <1>1, <1>2, <1>3 DEF NestedTypeOK
<1>5. LoopInv
  BY <1>1 DEF LoopInv, Unsplit
<1>6. FitsInv
  BY <1>1 DEF FitsInv
<1>7. OofInv
  BY <1>1 DEF OofInv
<1>8. CountsInv
  BY <1>1 DEF CountsInv
<1>9. IntervalIsOrdered
  BY <1>1 DEF IntervalIsOrdered
<1> QED
  BY <1>4, <1>5, <1>6, <1>7, <1>8, <1>9 DEF NestedInv

\* The step only moves to another phase, and that one is not done.
LEMMA StepRaise ==
  ASSUME NestedInv, Raise, phase # "done"
  PROVE  NestedInv'
<1> USE DEF Raise
<1>1. Names' = Names
  BY DEF Names
<1>2. NestedTypeOK'
  BY DEF NestedInv, NestedTypeOK
<1>3. LoopInv'
  BY DEF NestedInv, LoopInv, Unsplit, IsSplit
<1>4. FitsInv'
  BY <1>1 DEF NestedInv, FitsInv, FitRows, FitPlace
<1>5. OofInv'
  BY DEF NestedInv, OofInv, Tested
<1>6. CountsInv'
  BY <1>1 DEF NestedInv, CountsInv
<1>7. IntervalIsOrdered'
  BY DEF NestedInv, IntervalIsOrdered
<1> QED
  BY <1>2, <1>3, <1>4, <1>5, <1>6, <1>7 DEF NestedInv

LEMMA StepEncode == ASSUME NestedInv, Encode PROVE NestedInv'
<1>1. CASE Raise
  BY <1>1, StepRaise DEF Encode
<1>2. CASE ~Raise
  <2>1. /\ phase = "encode" /\ phase' = "outer"
        /\ UNCHANGED <<fault, target, fold, candidate, innerFold, outer, inner, scores, oof, picked,
                       counts, fits, interval>>
    BY <1>2 DEF Encode
  <2>2. Names' = Names
    BY <2>1 DEF Names
  <2>3. NestedTypeOK'
    BY <2>1 DEF NestedInv, NestedTypeOK
  <2>4. LoopInv'
    BY <2>1 DEF NestedInv, LoopInv, Unsplit, IsSplit
  <2>5. FitsInv'
    BY <2>1, <2>2 DEF NestedInv, FitsInv, FitRows, FitPlace
  <2>6. OofInv'
    BY <2>1 DEF NestedInv, OofInv, Tested
  <2>7. CountsInv'
    BY <2>1, <2>2 DEF NestedInv, CountsInv
  <2>8. IntervalIsOrdered'
    BY <2>1 DEF NestedInv, IntervalIsOrdered
  <2> QED
    BY <2>3, <2>4, <2>5, <2>6, <2>7, <2>8 DEF NestedInv
<1> QED
  BY <1>1, <1>2

LEMMA StepSplitOuter == ASSUME NestedInv, SplitOuter PROVE NestedInv'
<1>1. CASE Raise
  BY <1>1, StepRaise DEF SplitOuter
<1>2. CASE ~Raise
  <2>1. /\ phase = "outer" /\ phase' = "inner" /\ outer' \in GroupedFolds(AllRows, OuterSplits)
        /\ Splittable(AllRows, IF fault = "splits" THEN Cardinality(MeasuredGroups) + 1 ELSE OuterSplits)
        /\ UNCHANGED <<fault, target, fold, candidate, innerFold, inner, scores, oof, picked,
                       counts, fits, interval>>
    BY <1>2 DEF SplitOuter
  <2>2. Cardinality(MeasuredGroups) \in Nat
    BY GroupsFinite, AllRowsFacts
  <2>3. OuterSplits >= 2 /\ OuterSplits \in Nat
    BY <2>1, <2>2, AllRowsFacts, NestedAssumption DEF Splittable
  <2>4. Unsplit /\ fold < OuterSplits
    BY <2>1, <2>3 DEF NestedInv, LoopInv, Unsplit
  <2>5. NestedTypeOK'
    BY <2>1 DEF NestedInv, NestedTypeOK
  <2>6. LoopInv'
    BY <2>1, <2>3, <2>4 DEF LoopInv, IsSplit
  <2>7. FitsInv'
    BY <2>1, <2>4 DEF FitsInv, Unsplit
  <2>8. OofInv'
    BY <2>1, <2>4 DEF OofInv, Unsplit
  <2>9. CountsInv'
    BY <2>1, <2>4 DEF NestedInv, CountsInv, Unsplit
  <2>10. IntervalIsOrdered'
    BY <2>1 DEF NestedInv, IntervalIsOrdered
  <2> QED
    BY <2>5, <2>6, <2>7, <2>8, <2>9, <2>10 DEF NestedInv
<1> QED
  BY <1>1, <1>2

LEMMA StepSplitInner == ASSUME NestedInv, SplitInner PROVE NestedInv'
<1>1. CASE Raise
  BY <1>1, StepRaise DEF SplitInner
<1>2. CASE ~Raise
  <2>1. /\ phase = "inner" /\ phase' = "score" /\ inner' \in GroupedFolds(TrainRows, InnerCount)
        /\ candidate' = 1 /\ innerFold' = 1 /\ scores' = <<>>
        /\ Names # <<>> /\ Splittable(TrainRows, InnerCount)
        /\ UNCHANGED <<fault, target, fold, outer, oof, picked, counts, fits, interval>>
    BY <1>2 DEF SplitInner
  <2>2. Names' = Names
    BY <2>1 DEF Names
  <2>3. TrainRows' = TrainRows /\ InnerCount' = InnerCount
    BY <2>1 DEF TrainRows, Outer, InnerCount
  <2>4. IsSplit /\ fold < OuterSplits /\ fold \in Nat /\ OuterSplits \in Nat /\ InnerSplits \in Nat \ {0}
    BY <2>1, NestedAssumption DEF NestedInv, LoopInv, NestedTypeOK
  <2>5. TrainRows \in Seq(Rows)
    BY <2>4, OuterFacts DEF TrainRows, Outer
  <2>6. InnerCount \in 2 .. InnerSplits
    BY <2>1, <2>4, <2>5, InnerCountFacts DEF Splittable
  <2>7. Len(inner') = InnerCount
    BY <2>1, <2>5, <2>6, SplitFacts
  <2>8. NestedTypeOK'
    <3>1. Len(Names) \in Nat
      BY NamesFacts DEF Names
    <3> QED
      BY <2>1, <2>2, <2>4, <2>6, <2>7, <3>1 DEF NestedInv, NestedTypeOK
  <2>9. LoopInv'
    BY <2>1, <2>2, <2>3, <2>4, <2>6 DEF NestedInv, LoopInv, IsSplit, Unsplit
  <2>10. FitsInv'
    BY <2>1, <2>2 DEF NestedInv, FitsInv, FitRows, FitPlace
  <2>11. OofInv'
    BY <2>1 DEF NestedInv, OofInv, Tested
  <2>12. CountsInv'
    BY <2>1, <2>2 DEF NestedInv, CountsInv
  <2>13. IntervalIsOrdered'
    BY <2>1 DEF NestedInv, IntervalIsOrdered
  <2> QED
    BY <2>8, <2>9, <2>10, <2>11, <2>12, <2>13 DEF NestedInv
<1> QED
  BY <1>1, <1>2


LEMMA StepScoreFold == ASSUME NestedInv, ScoreFold PROVE NestedInv'
<1> DEFINE train == RowsAt(TrainRows, inner[innerFold].train)
           test == RowsAt(TrainRows, inner[innerFold].test)
           fit == Fit("candidate", candidate - 1, innerFold - 1, train, test)
<1>1. CASE Raise
  BY <1>1, StepRaise DEF ScoreFold
<1>2. CASE ~Raise
  <2>1. /\ phase = "score" /\ candidate <= Len(Names) /\ fits' = fits \cup {fit}
        /\ \/ /\ innerFold < Len(inner) /\ innerFold' = innerFold + 1 /\ UNCHANGED <<candidate, scores>>
           \/ /\ ~(innerFold < Len(inner)) /\ innerFold' = 1 /\ candidate' = candidate + 1
              /\ \E s \in Scores : scores' = Append(scores, s)
        /\ UNCHANGED <<fault, phase, target, fold, outer, inner, oof, picked, counts, interval>>
    BY <1>2 DEF ScoreFold
  <2>2. Names' = Names
    BY <2>1 DEF Names
  <2>3. TrainRows' = TrainRows /\ InnerCount' = InnerCount
    BY <2>1 DEF TrainRows, Outer, InnerCount
  <2>4. /\ IsSplit /\ fold < OuterSplits /\ fold \in Nat /\ OuterSplits \in Nat /\ InnerSplits \in Nat \ {0}
        /\ innerFold \in Nat \ {0} /\ candidate \in Nat \ {0}
        /\ inner \in GroupedFolds(TrainRows, InnerCount)
        /\ InnerCount \in 2 .. InnerSplits /\ innerFold <= InnerCount
    BY <2>1, NestedAssumption DEF NestedInv, LoopInv, NestedTypeOK
  <2>5. Len(Names) \in Nat
    BY NamesFacts DEF Names
  <2>6. PICK f \in [MeasuredGroups -> 0 .. OuterSplits - 1] :
          /\ TrainRows \in Seq(Rows)
          /\ Range(TrainRows) = {r \in Rows : f[RowGroup[r]] # fold}
          /\ Range(outer[fold + 1].test) = {r \in Rows : f[RowGroup[r]] = fold}
    BY <2>4, CurrentFold
  <2>7. PICK h \in [GroupsOf(TrainRows) -> 0 .. InnerCount - 1] :
          /\ Range(train) = {r \in Range(TrainRows) : h[RowGroup[r]] # innerFold - 1}
          /\ Range(test) = {r \in Range(TrainRows) : h[RowGroup[r]] = innerFold - 1}
    <3>1. InnerCount \in Nat /\ innerFold \in 1 .. InnerCount
      BY <2>4
    <3>2. inner \in GroupedFolds(TrainRows, InnerCount) /\ TrainRows \in Seq(Rows)
      BY <2>4, <2>6
    <3>3. PICK h \in [GroupsOf(TrainRows) -> 0 .. InnerCount - 1] : \A k \in 1 .. InnerCount :
            /\ RowsAt(TrainRows, inner[k].train) \in Seq(Rows) /\ RowsAt(TrainRows, inner[k].test) \in Seq(Rows)
            /\ Range(RowsAt(TrainRows, inner[k].train)) = {r \in Range(TrainRows) : h[RowGroup[r]] # k - 1}
            /\ Range(RowsAt(TrainRows, inner[k].test)) = {r \in Range(TrainRows) : h[RowGroup[r]] = k - 1}
            /\ Range(inner[k].test) \subseteq DOMAIN TrainRows
            /\ \A p, q \in DOMAIN inner[k].test : inner[k].test[p] = inner[k].test[q] => p = q
      BY <3>1, <3>2, SplitFacts, Zenon
    <3> QED
      BY <3>1, <3>3
  <2>8. Len(inner) = InnerCount
    <3>1. InnerCount \in Nat
      BY <2>4
    <3> QED
      BY <2>4, <2>6, <3>1, SplitFacts, Zenon
  <2>9. /\ fit.purpose = "candidate" /\ fit.outer = fold /\ fit.candidate = candidate - 1
        /\ fit.inner = innerFold - 1 /\ fit.train = Range(train) /\ fit.test = Range(test)
        /\ fit.seed = DeriveSeed("candidate", fold, candidate - 1, innerFold - 1)
    BY DEF Fit
  <2> HIDE DEF fit, train, test
  <2>10. FitRows(fit)
    <3>1. {RowGroup[j] : j \in fit.train} \cap {RowGroup[j] : j \in fit.test} = {}
      BY <2>7, <2>9
    <3>2. {RowGroup[j] : j \in fit.train \cup fit.test} \cap {RowGroup[j] : j \in Range(outer[fold + 1].test)} = {}
      BY <2>6, <2>7, <2>9
    <3> QED
      BY <2>9, <3>1, <3>2 DEF FitRows
  <2>11. FitPlace(fit)
    BY <2>1, <2>4, <2>5, <2>9 DEF FitPlace
  <2>12. NestedTypeOK'
    <3>1. scores \in Seq(Scores) /\ Len(scores) = candidate - 1
      BY <2>1 DEF NestedInv, NestedTypeOK
    <3>2. scores' \in Seq(Scores) /\ Len(scores') = candidate' - 1
      <4>1. CASE UNCHANGED <<candidate, scores>>
        BY <3>1, <4>1
      <4>2. ASSUME candidate' = candidate + 1, NEW m \in Scores, scores' = Append(scores, m)
            PROVE  scores' \in Seq(Scores) /\ Len(scores') = candidate' - 1
        BY <2>4, <3>1, <4>2
      <4> QED
        BY <2>1, <4>1, <4>2
    <3>3. candidate' \in Nat \ {0} /\ innerFold' \in 1 .. InnerSplits /\ candidate' <= Len(Names) + 1
          /\ innerFold' <= Len(inner)
      BY <2>1, <2>4, <2>5, <2>8
    <3> QED
      BY <2>1, <2>2, <3>2, <3>3 DEF NestedInv, NestedTypeOK
  <2>13. LoopInv'
    <3>1. innerFold' <= InnerCount
      BY <2>1, <2>4, <2>8
    <3> QED
      BY <2>1, <2>2, <2>3, <2>4, <3>1 DEF NestedInv, LoopInv, IsSplit
  <2>14. FitsInv'
    <3>1. \A g \in fits' : FitRows(g) /\ FitPlace(g)
      BY <2>1, <2>10, <2>11 DEF NestedInv, FitsInv
    <3> QED
      BY <2>1, <2>2, <3>1 DEF FitsInv, FitRows, FitPlace
  <2>15. OofInv'
    BY <2>1 DEF NestedInv, OofInv, Tested
  <2>16. CountsInv'
    BY <2>1, <2>2 DEF NestedInv, CountsInv
  <2>17. IntervalIsOrdered'
    BY <2>1 DEF NestedInv, IntervalIsOrdered
  <2> QED
    BY <2>12, <2>13, <2>14, <2>15, <2>16, <2>17 DEF NestedInv
<1> QED
  BY <1>1, <1>2

\* A row list that is appended to another stands behind it.
LEMMA ConcatFacts ==
  ASSUME NEW T, NEW s \in Seq(T), NEW u \in Seq(T)
  PROVE  /\ s \o u \in Seq(T)
         /\ \A p \in DOMAIN s : p \in DOMAIN (s \o u) /\ (s \o u)[p] = s[p]
         /\ \A p \in DOMAIN u : Len(s) + p \in DOMAIN (s \o u) /\ (s \o u)[Len(s) + p] = u[p]
         /\ \A p \in DOMAIN (s \o u) : p \in DOMAIN s \/ \E x \in DOMAIN u : p = Len(s) + x
<1>1. Len(s) \in Nat /\ Len(u) \in Nat /\ DOMAIN s = 1 .. Len(s) /\ DOMAIN u = 1 .. Len(u)
  OBVIOUS
<1>2. s \o u \in Seq(T) /\ Len(s \o u) = Len(s) + Len(u) /\ DOMAIN (s \o u) = 1 .. Len(s) + Len(u)
  OBVIOUS
<1>3. \A p \in 1 .. Len(s) + Len(u) : (s \o u)[p] = IF p <= Len(s) THEN s[p] ELSE u[p - Len(s)]
  OBVIOUS
<1>4. \A p \in DOMAIN s : p \in DOMAIN (s \o u) /\ (s \o u)[p] = s[p]
  BY <1>1, <1>2, <1>3
<1>5. \A p \in DOMAIN u : Len(s) + p \in DOMAIN (s \o u) /\ (s \o u)[Len(s) + p] = u[p]
  BY <1>1, <1>2, <1>3
<1>6. ASSUME NEW p \in DOMAIN (s \o u), p \notin DOMAIN s PROVE \E x \in DOMAIN u : p = Len(s) + x
  <2>1. p - Len(s) \in DOMAIN u /\ p = Len(s) + (p - Len(s))
    BY <1>1, <1>2, <1>6
  <2> QED
    BY <2>1
<1> QED
  BY <1>2, <1>4, <1>5, <1>6

LEMMA StepFitOuter == ASSUME NestedInv, FitOuter PROVE NestedInv'
<1> DEFINE best == BestCandidate(scores)
           fit == Fit("outer_fit", 0, 0, TrainRows, TestRows)
           new == [p \in DOMAIN TestRows |-> [row |-> TestRows[p], fold |-> fold]]
<1>1. CASE Raise
  BY <1>1, StepRaise DEF FitOuter
<1>2. CASE ~Raise
  <2>1. /\ phase = "score" /\ candidate > Len(Names) /\ fits' = fits \cup {fit}
        /\ picked' = Append(picked, Names[best].name) /\ oof' = oof \o new /\ fold' = fold + 1
        /\ phase' = IF fold + 1 < Len(outer) THEN "inner" ELSE "report"
        /\ UNCHANGED <<fault, target, candidate, innerFold, outer, inner, scores, counts, interval>>
    BY <1>2 DEF FitOuter
  <2>2. Names' = Names
    BY <2>1 DEF Names
  <2>3. /\ IsSplit /\ fold < OuterSplits /\ fold \in Nat /\ OuterSplits \in Nat
        /\ candidate \in Nat \ {0} /\ candidate <= Len(Names) + 1 /\ scores \in Seq(Scores)
        /\ Len(scores) = candidate - 1 /\ Names # <<>> /\ picked \in Seq(STRING) /\ Len(picked) = fold
        /\ oof \in Seq([row : Rows, fold : 0 .. OuterSplits - 1])
    BY <2>1, NestedAssumption DEF NestedInv, LoopInv, NestedTypeOK
  <2>4. Names \in Seq([name : STRING, encoding : {"raw", "log", "residual"}])
    BY NamesFacts DEF Names
  <2>5. best \in DOMAIN Names /\ Names[best].name \in STRING
    <3>1. Len(scores) = Len(Names) /\ Len(Names) \in Nat \ {0}
      BY <2>1, <2>3, <2>4
    <3>2. scores \in Seq(Nat) /\ scores # <<>>
      <4>1. DOMAIN scores = 1 .. Len(scores) /\ \A k \in DOMAIN scores : scores[k] \in Nat
        <5>1. scores \in Seq(Scores) /\ Scores \subseteq Nat
          BY <2>3, NestedAssumption
        <5>2. DOMAIN scores = 1 .. Len(scores) /\ \A k \in DOMAIN scores : scores[k] \in Scores
          BY <5>1, SeqFacts, Zenon
        <5> QED
          BY <5>1, <5>2
      <4>2. scores \in [1 .. Len(scores) -> Nat]
        <5>1. scores \in [1 .. Len(scores) -> Scores]
          BY <2>3, SeqFacts, Zenon
        <5> QED
          BY <4>1, <5>1
      <4> QED
        BY <3>1, <4>2
    <3>3. best \in DOMAIN scores
      BY <3>2, BestIsACandidate
    <3> HIDE DEF best
    <3>4. best \in DOMAIN Names
      BY <2>3, <2>4, <3>1, <3>3
    <3>5. Names[best] \in [name : STRING, encoding : {"raw", "log", "residual"}]
      BY <2>4, <3>4, SeqFacts, Zenon
    <3> QED
      BY <3>4, <3>5
  <2>6. PICK f \in [MeasuredGroups -> 0 .. OuterSplits - 1] :
          /\ TestRows \in Seq(Rows)
          /\ Range(TrainRows) = {r \in Rows : f[RowGroup[r]] # fold}
          /\ Range(TestRows) = {r \in Rows : f[RowGroup[r]] = fold}
          /\ Range(TestRows) = Tested(fold + 1)
          /\ \A p, q \in DOMAIN TestRows : TestRows[p] = TestRows[q] => p = q
          /\ \A k \in 1 .. OuterSplits : Tested(k) = {r \in Rows : f[RowGroup[r]] = k - 1}
    BY <2>3, CurrentFold
  <2>7. Len(outer) = OuterSplits
    BY <2>3, OuterFacts
  <2>8. /\ fit.purpose = "outer_fit" /\ fit.outer = fold /\ fit.candidate = 0 /\ fit.inner = 0
        /\ fit.train = Range(TrainRows) /\ fit.test = Range(TestRows)
        /\ fit.seed = DeriveSeed("outer_fit", fold, 0, 0)
    BY DEF Fit
  <2>9. /\ new \in Seq([row : Rows, fold : 0 .. OuterSplits - 1]) /\ DOMAIN new = DOMAIN TestRows
        /\ \A p \in DOMAIN TestRows : new[p].row = TestRows[p] /\ new[p].fold = fold
    <3>1. DOMAIN TestRows = 1 .. Len(TestRows) /\ Len(TestRows) \in Nat /\ \A p \in DOMAIN TestRows : TestRows[p] \in Rows
      BY <2>6
    <3>2. new \in [1 .. Len(TestRows) -> [row : Rows, fold : 0 .. OuterSplits - 1]]
      BY <2>3, <3>1
    <3>3. new \in Seq([row : Rows, fold : 0 .. OuterSplits - 1])
      <4> DEFINE Prediction == [row : Rows, fold : 0 .. OuterSplits - 1]
      <4>1. new \in [1 .. Len(TestRows) -> Prediction]
        BY <3>2
      <4> HIDE DEF new, Prediction
      <4>2. new \in Seq(Prediction)
        BY <3>1, <4>1
      <4> QED
        BY <4>2 DEF Prediction
    <3> QED
      BY <3>3
  <2> HIDE DEF fit, best, new
  <2>10. FitRows(fit) /\ FitPlace(fit)
    <3>1. FitRows(fit)
      BY <2>6, <2>8 DEF FitRows
    <3>2. FitPlace(fit)
      BY <2>3, <2>8 DEF FitPlace
    <3> QED
      BY <3>1, <3>2
  <2>11. /\ oof' \in Seq([row : Rows, fold : 0 .. OuterSplits - 1])
         /\ \A p \in DOMAIN oof : p \in DOMAIN oof' /\ oof'[p] = oof[p]
         /\ \A p \in DOMAIN new : Len(oof) + p \in DOMAIN oof' /\ oof'[Len(oof) + p] = new[p]
         /\ \A p \in DOMAIN oof' : p \in DOMAIN oof \/ \E x \in DOMAIN new : p = Len(oof) + x
    <3> DEFINE Prediction == [row : Rows, fold : 0 .. OuterSplits - 1]
    <3>1. oof \in Seq(Prediction)
      BY <2>3
    <3>2. new \in Seq(Prediction)
      BY <2>9
    <3>3. oof' = oof \o new
      BY <2>1
    <3> HIDE DEF Prediction
    <3>4. /\ oof \o new \in Seq(Prediction)
          /\ \A p \in DOMAIN oof : p \in DOMAIN (oof \o new) /\ (oof \o new)[p] = oof[p]
          /\ \A p \in DOMAIN new : Len(oof) + p \in DOMAIN (oof \o new) /\ (oof \o new)[Len(oof) + p] = new[p]
          /\ \A p \in DOMAIN (oof \o new) : p \in DOMAIN oof \/ \E x \in DOMAIN new : p = Len(oof) + x
      BY <3>1, <3>2, ConcatFacts
    <3> QED
      BY <3>3, <3>4 DEF Prediction
  <2>12. /\ picked' \in Seq(STRING) /\ Len(picked') = fold + 1 /\ DOMAIN picked' = 1 .. fold + 1
         /\ \A x \in 1 .. fold : picked'[x] = picked[x]
         /\ picked'[fold + 1] = Names[best].name
    BY <2>1, <2>3, <2>5
  <2>13. phase' \in {"inner", "report"} /\ (phase' = "inner" => fold' < OuterSplits) /\ (phase' = "report" => fold' = OuterSplits)
    BY <2>1, <2>3, <2>7
  <2>14. NestedTypeOK'
    BY <2>1, <2>3, <2>11, <2>12, <2>13 DEF NestedInv, NestedTypeOK
  <2>15. LoopInv'
    BY <2>1, <2>3, <2>13 DEF LoopInv, IsSplit
  <2>16. FitsInv'
    <3>1. \A g \in fits' : FitRows(g) /\ FitPlace(g)
      BY <2>1, <2>10 DEF NestedInv, FitsInv
    <3> QED
      BY <2>1, <2>2, <3>1 DEF FitsInv, FitRows, FitPlace
  <2>17. OofInv'
    <3>1. \A k : Tested(k)' = Tested(k)
      BY <2>1 DEF Tested
    <3>2. /\ \A p \in DOMAIN oof : oof[p].fold < fold /\ oof[p].fold \in Nat /\ oof[p].row \in Tested(oof[p].fold + 1)
          /\ \A p, q \in DOMAIN oof : oof[p].row = oof[q].row => p = q
          /\ \A k \in 1 .. fold : Tested(k) \subseteq {oof[p].row : p \in DOMAIN oof}
      <4>1. \A p \in DOMAIN oof : oof[p] \in [row : Rows, fold : 0 .. OuterSplits - 1]
        BY <2>3, SeqFacts, Zenon
      <4> QED
        BY <2>3, <4>1 DEF NestedInv, OofInv
    <3>3. \A p \in DOMAIN new : new[p].fold = fold /\ new[p].row \in Tested(fold + 1)
      BY <2>6, <2>9 DEF Range
    <3>4. ASSUME NEW p \in DOMAIN oof'
          PROVE  oof'[p].fold < fold' /\ oof'[p].row \in Tested(oof'[p].fold + 1)
      <4>1. CASE p \in DOMAIN oof
        BY <2>1, <2>3, <2>11, <3>2, <4>1
      <4>2. ASSUME NEW x \in DOMAIN new, p = Len(oof) + x
            PROVE  oof'[p].fold < fold' /\ oof'[p].row \in Tested(oof'[p].fold + 1)
        <5>1. oof'[p] = new[x] /\ new[x].fold = fold /\ new[x].row \in Tested(fold + 1)
          BY <2>11, <3>3, <4>2
        <5> QED
          BY <2>1, <2>3, <5>1
      <4> QED
        BY <2>11, <4>1, <4>2
    <3>5. ASSUME NEW p \in DOMAIN oof, NEW x \in DOMAIN new PROVE oof[p].row # new[x].row
      <4>1. oof[p].fold + 1 \in 1 .. OuterSplits /\ oof[p].fold # fold /\ fold + 1 \in 1 .. OuterSplits
        BY <2>3, <3>2
      <4>2. /\ Tested(oof[p].fold + 1) = {r \in Rows : f[RowGroup[r]] = (oof[p].fold + 1) - 1}
            /\ Tested(fold + 1) = {r \in Rows : f[RowGroup[r]] = (fold + 1) - 1}
        BY <2>6, <4>1
      <4>3. f[RowGroup[oof[p].row]] = (oof[p].fold + 1) - 1 /\ f[RowGroup[new[x].row]] = (fold + 1) - 1
        BY <3>2, <3>3, <4>2
      <4>4. (oof[p].fold + 1) - 1 # (fold + 1) - 1
        BY <2>3, <3>2, <4>1
      <4> QED
        BY <4>3, <4>4
    <3>6. ASSUME NEW p \in DOMAIN oof', NEW q \in DOMAIN oof', oof'[p].row = oof'[q].row PROVE p = q
      <4>1. CASE p \in DOMAIN oof /\ q \in DOMAIN oof
        BY <2>11, <3>2, <3>6, <4>1
      <4>2. CASE p \in DOMAIN oof /\ q \notin DOMAIN oof
        BY <2>11, <3>5, <3>6, <4>2
      <4>3. CASE p \notin DOMAIN oof /\ q \in DOMAIN oof
        BY <2>11, <3>5, <3>6, <4>3
      <4>4. CASE p \notin DOMAIN oof /\ q \notin DOMAIN oof
        BY <2>6, <2>9, <2>11, <3>6, <4>4
      <4> QED
        BY <4>1, <4>2, <4>3, <4>4
    <3>7. ASSUME NEW k \in 1 .. fold', NEW r \in Tested(k) PROVE \E p \in DOMAIN oof' : oof'[p].row = r
      <4>1. CASE k \in 1 .. fold
        BY <2>11, <3>2, <4>1
      <4>2. CASE k = fold + 1
        <5>1. PICK x \in DOMAIN TestRows : TestRows[x] = r
          BY <2>6, <3>7, <4>2 DEF Range
        <5> QED
          BY <2>9, <2>11, <5>1
      <4> QED
        BY <2>1, <2>3, <4>1, <4>2
    <3> QED
      BY <3>1, <3>4, <3>6, <3>7 DEF OofInv
  <2>18. CountsInv'
    <3>1. \A x \in DOMAIN picked' : picked'[x] \in {Names[k].name : k \in DOMAIN Names}
      <4> SUFFICES ASSUME NEW x \in 1 .. fold + 1
                   PROVE  picked'[x] \in {Names[k].name : k \in DOMAIN Names}
        BY <2>12
      <4>1. CASE x = fold + 1
        BY <2>5, <2>12, <4>1
      <4>2. CASE x # fold + 1
        <5>1. x \in 1 .. fold
          BY <2>3, <4>2
        <5>2. picked'[x] = picked[x] /\ x \in DOMAIN picked
          BY <2>3, <2>12, <5>1
        <5> QED
          BY <5>2 DEF NestedInv, CountsInv
      <4> QED
        BY <4>1, <4>2
    <3> QED
      BY <2>1, <2>2, <2>13, <3>1 DEF NestedInv, CountsInv
  <2>19. IntervalIsOrdered'
    BY <2>1 DEF NestedInv, IntervalIsOrdered
  <2> QED
    BY <2>14, <2>15, <2>16, <2>17, <2>18, <2>19 DEF NestedInv
<1> QED
  BY <1>1, <1>2

\* The counts of a target whose outer folds are all done are of one election
\* per fold: the elections are the ones that were made.
LEMMA CountsOfElections ==
  ASSUME NestedInv, phase = "report"
  PROVE  SelectedCounts(Names, picked) \in CountTables /\ Elects(SelectedCounts(Names, picked))
<1> DEFINE D == {Names[k].name : k \in DOMAIN Names}
           tally == SelectedCounts(Names, picked)
           of(n) == {x \in DOMAIN picked : picked[x] = n}
<1>1. /\ picked \in Seq(STRING) /\ Len(picked) = OuterSplits /\ OuterSplits \in Nat
      /\ \A x \in DOMAIN picked : picked[x] \in D
  BY NestedAssumption DEF NestedInv, NestedTypeOK, LoopInv, CountsInv
<1>2. DOMAIN picked = 1 .. OuterSplits /\ picked \in [1 .. OuterSplits -> D]
  BY <1>1
<1>3. tally = [n \in D |-> Cardinality(of(n))]
  BY DEF SelectedCounts
<1>4. D \in SUBSET STRING
  <2>1. Names \in Seq([name : STRING, encoding : {"raw", "log", "residual"}])
    BY NamesFacts DEF Names
  <2>2. \A k \in DOMAIN Names : Names[k] \in [name : STRING, encoding : {"raw", "log", "residual"}]
    BY <2>1, SeqFacts, Zenon
  <2> QED
    BY <2>2
<1>5. ASSUME NEW n \in D PROVE Cardinality(of(n)) \in Nat
  <2>1. IsFiniteSet(1 .. OuterSplits) /\ of(n) \in SUBSET (1 .. OuterSplits)
    BY <1>1, <1>2, FS_Interval
  <2> HIDE DEF of
  <2> QED
    BY <2>1, FS_Subset, FS_CardinalityType
<1>6. tally \in [D -> Nat]
  BY <1>3, <1>5
<1>7. \A n \in D : tally[n] = Cardinality({x \in 1 .. OuterSplits : picked[x] = n})
  BY <1>2, <1>3
<1> HIDE DEF D, tally
<1>8. tally \in CountTables
  BY <1>4, <1>6 DEF CountTables
<1>9. Elects(tally)
  BY <1>2, <1>6, <1>7 DEF Elects
<1> QED
  BY <1>8, <1>9 DEF tally

LEMMA StepReportTarget == ASSUME NestedInv, ReportTarget PROVE NestedInv'
<1> DEFINE tally == SelectedCounts(Names, picked)
<1>1. /\ phase = "report" /\ counts' = Append(counts, tally)
      /\ \/ /\ target < Len(TargetOrder) /\ target' = target + 1 /\ fold' = 0 /\ oof' = <<>>
            /\ picked' = <<>> /\ fits' = {} /\ phase' = "inner"
         \/ phase' = "done" /\ UNCHANGED <<target, fold, oof, picked, fits>>
      /\ UNCHANGED <<fault, candidate, innerFold, outer, inner, scores, interval>>
  BY DEF ReportTarget
<1>2. tally \in CountTables /\ Elects(tally)
  BY <1>1, CountsOfElections
<1>3. /\ IsSplit /\ fold = OuterSplits /\ OuterSplits \in Nat /\ OuterSplits >= 2
      /\ counts \in Seq(CountTables) /\ Len(counts) = target - 1
      /\ \A k \in DOMAIN counts : Elects(counts[k])
  BY <1>1, NestedAssumption DEF NestedInv, NestedTypeOK, LoopInv, IsSplit, CountsInv
<1>4. target \in Nat \ {0} /\ target \in DOMAIN TargetOrder /\ DOMAIN TargetOrder = 1 .. Len(TargetOrder)
      /\ Len(TargetOrder) \in Nat
  BY NestedAssumption DEF NestedInv, NestedTypeOK
<1> HIDE DEF tally
<1>5. /\ counts' \in Seq(CountTables) /\ Len(counts') = target /\ DOMAIN counts' = 1 .. target
      /\ counts'[target] = tally /\ \A k \in DOMAIN counts' : k # target => k \in DOMAIN counts /\ counts'[k] = counts[k]
  BY <1>1, <1>2, <1>3, <1>4
<1>6. \A k \in DOMAIN counts' : counts'[k] \in CountTables /\ Elects(counts'[k])
  BY <1>2, <1>3, <1>5
<1>7. \A k \in DOMAIN counts' : counts'[k] \in [DOMAIN counts'[k] -> Nat]
  BY <1>6 DEF CountTables
<1>9. IntervalIsOrdered'
  BY <1>1 DEF NestedInv, IntervalIsOrdered
<1>10. CASE phase' = "inner"
  <2>1. /\ target < Len(TargetOrder) /\ target' = target + 1 /\ fold' = 0 /\ oof' = <<>>
        /\ picked' = <<>> /\ fits' = {}
    BY <1>1, <1>10
  <2>2. NestedTypeOK'
    BY <1>1, <1>4, <1>7, <1>10, <2>1, <1>3 DEF NestedInv, NestedTypeOK
  <2>3. LoopInv'
    BY <1>1, <1>3, <1>10, <2>1 DEF LoopInv, IsSplit
  <2>4. FitsInv'
    BY <2>1 DEF FitsInv
  <2>5. OofInv'
    BY <2>1 DEF OofInv
  <2>6. CountsInv'
    BY <1>4, <1>5, <1>6, <1>10, <2>1 DEF CountsInv, Elects
  <2> QED
    BY <1>9, <2>2, <2>3, <2>4, <2>5, <2>6 DEF NestedInv
<1>11. CASE phase' = "done"
  <2>1. UNCHANGED <<target, fold, oof, picked, fits>>
    BY <1>1, <1>11
  <2>2. Names' = Names
    BY <2>1 DEF Names
  <2>3. NestedTypeOK'
    BY <1>1, <1>7, <1>11, <2>1, <2>2 DEF NestedInv, NestedTypeOK
  <2>4. LoopInv'
    BY <1>1, <1>3, <1>11, <2>1 DEF LoopInv, IsSplit
  <2>5. FitsInv'
    BY <1>1, <2>1, <2>2 DEF NestedInv, FitsInv, FitRows, FitPlace
  <2>6. OofInv'
    BY <1>1, <2>1 DEF NestedInv, OofInv, Tested
  <2>7. counts'[target'] = SelectedCounts(Names', picked')
    BY <1>5, <2>1, <2>2 DEF tally
  <2>8. CountsInv'
    BY <1>4, <1>5, <1>6, <1>11, <2>1, <2>2, <2>7 DEF NestedInv, CountsInv, Elects
  <2> QED
    BY <1>9, <2>3, <2>4, <2>5, <2>6, <2>8 DEF NestedInv
<1> QED
  BY <1>1, <1>10, <1>11

LEMMA StepInterval == ASSUME NestedInv, Interval PROVE NestedInv'
<1>1. /\ phase = "done" /\ UNCHANGED <<fault, phase, target, fold, candidate, innerFold, outer, inner,
                                       scores, oof, picked, counts, fits>>
  BY DEF Interval
<1>2. PICK raw \in [1 .. 3 -> 1 .. 3] : interval' = QuantileInterval(raw)
  BY DEF Interval
<1>3. Names' = Names
  BY <1>1 DEF Names
<1>4. NestedTypeOK'
  BY <1>1 DEF NestedInv, NestedTypeOK
<1>5. LoopInv'
  BY <1>1 DEF NestedInv, LoopInv, Unsplit, IsSplit
<1>6. FitsInv'
  BY <1>1, <1>3 DEF NestedInv, FitsInv, FitRows, FitPlace
<1>7. OofInv'
  BY <1>1 DEF NestedInv, OofInv, Tested
<1>8. CountsInv'
  BY <1>1, <1>3 DEF NestedInv, CountsInv
<1>9. IntervalIsOrdered'
  BY <1>2, IntervalOrdered DEF IntervalIsOrdered
<1> QED
  BY <1>4, <1>5, <1>6, <1>7, <1>8, <1>9 DEF NestedInv

LEMMA StepNestedStutter == ASSUME NestedInv, UNCHANGED nestedVars PROVE NestedInv'
<1> USE DEF nestedVars
<1>1. Names' = Names
  BY DEF Names
<1>2. TrainRows' = TrainRows /\ InnerCount' = InnerCount
  BY DEF TrainRows, Outer, InnerCount
<1>3. NestedTypeOK'
  BY <1>1 DEF NestedInv, NestedTypeOK
<1>4. LoopInv'
  BY <1>1, <1>2 DEF NestedInv, LoopInv, Unsplit, IsSplit
<1>5. FitsInv'
  BY <1>1 DEF NestedInv, FitsInv, FitRows, FitPlace
<1>6. OofInv'
  BY DEF NestedInv, OofInv, Tested
<1>7. CountsInv'
  BY <1>1 DEF NestedInv, CountsInv
<1>8. IntervalIsOrdered'
  BY DEF NestedInv, IntervalIsOrdered
<1> QED
  BY <1>3, <1>4, <1>5, <1>6, <1>7, <1>8 DEF NestedInv

LEMMA NestedInvariance == NestedSpec => []NestedInv
<1>1. NestedInv /\ [NestedNext]_nestedVars => NestedInv'
  BY StepEncode, StepSplitOuter, StepSplitInner, StepScoreFold, StepFitOuter, StepReportTarget,
     StepInterval, StepNestedStutter DEF NestedNext
<1> QED
  BY <1>1, NestedInit_Inv, PTL DEF NestedSpec

(* Every variable of a nested selection has its type.                      *)
THEOREM NestedTypeCorrect == NestedSpec => []NestedTypeOK
<1>1. NestedInv => NestedTypeOK
  BY DEF NestedInv
<1> QED
  BY <1>1, NestedInvariance, PTL

(* A finished target has predicted every row, since its folds are all of   *)
(* the groups.                                                             *)
LEMMA RowsArePredictedOnce == NestedInv => EachRowIsPredictedOnce
<1> SUFFICES ASSUME NestedInv PROVE EachRowIsPredictedOnce
  OBVIOUS
<1>1. oof \in Seq([row : Rows, fold : 0 .. OuterSplits - 1]) /\ OuterSplits \in Nat
  BY NestedAssumption DEF NestedInv, NestedTypeOK
<1>2. \A p \in DOMAIN oof : oof[p] \in [row : Rows, fold : 0 .. OuterSplits - 1]
  BY <1>1, SeqFacts, Zenon
<1>3. ASSUME phase \in {"report", "done"} PROVE {oof[p].row : p \in DOMAIN oof} = Rows
  <2>1. IsSplit /\ fold = OuterSplits
    BY <1>3 DEF NestedInv, LoopInv
  <2>2. PICK f \in [MeasuredGroups -> 0 .. OuterSplits - 1] : \A k \in 1 .. OuterSplits :
          /\ RowsAt(AllRows, outer[k].train) \in Seq(Rows) /\ RowsAt(AllRows, outer[k].test) \in Seq(Rows)
          /\ Range(RowsAt(AllRows, outer[k].train)) = {r \in Rows : f[RowGroup[r]] # k - 1}
          /\ Tested(k) = {r \in Rows : f[RowGroup[r]] = k - 1}
          /\ Range(outer[k].test) = Tested(k)
          /\ \A p, q \in DOMAIN RowsAt(AllRows, outer[k].test) :
               RowsAt(AllRows, outer[k].test)[p] = RowsAt(AllRows, outer[k].test)[q] => p = q
    BY <1>1, <2>1, OuterFacts, Zenon
  <2>3. ASSUME NEW r \in Rows PROVE \E p \in DOMAIN oof : oof[p].row = r
    <3>1. RowGroup[r] \in MeasuredGroups
      BY DEF Rows, MeasuredGroups, Range
    <3>2. f[RowGroup[r]] \in 0 .. OuterSplits - 1
      BY <3>1
    <3>3. f[RowGroup[r]] + 1 \in 1 .. OuterSplits /\ (f[RowGroup[r]] + 1) - 1 = f[RowGroup[r]]
      BY <1>1, <3>2
    <3>4. r \in Tested(f[RowGroup[r]] + 1)
      BY <2>2, <3>3
    <3> QED
      BY <2>1, <3>3, <3>4 DEF NestedInv, OofInv
  <2> QED
    BY <1>2, <2>3
<1>4. \A p \in DOMAIN oof : oof[p].row \in Range(RowsAt(AllRows, outer[oof[p].fold + 1].test))
  BY DEF NestedInv, OofInv, Tested
<1> QED
  BY <1>3, <1>4 DEF NestedInv, OofInv, EachRowIsPredictedOnce

(* The head that the counts elect was picked: there is a fold, its pick is *)
(* counted, and nothing with a lower count is elected.                     *)
LEMMA CountsAreOfElections == NestedInv => CountsAddUp
<1> SUFFICES ASSUME NestedInv PROVE CountsAddUp
  OBVIOUS
<1>1. \A k \in DOMAIN counts : Elects(counts[k])
  BY DEF NestedInv, CountsInv
<1>2. ASSUME phase = "done", NEW n \in DOMAIN counts[target],
             \A m \in DOMAIN counts[target] : counts[target][m] <= counts[target][n]
      PROVE  n \in Range(picked)
  <2> DEFINE D == {Names[k].name : k \in DOMAIN Names}
             of(m) == {x \in DOMAIN picked : picked[x] = m}
  <2>1. /\ counts[target] = SelectedCounts(Names, picked) /\ fold = OuterSplits /\ OuterSplits >= 2
        /\ picked \in Seq(STRING) /\ Len(picked) = fold /\ OuterSplits \in Nat
        /\ \A x \in DOMAIN picked : picked[x] \in D
    BY <1>2, NestedAssumption DEF NestedInv, NestedTypeOK, LoopInv, IsSplit, CountsInv
  <2>2. counts[target] = [m \in D |-> Cardinality(of(m))]
    BY <2>1 DEF SelectedCounts
  <2>3. 1 \in DOMAIN picked /\ DOMAIN picked = 1 .. OuterSplits /\ IsFiniteSet(1 .. OuterSplits)
    BY <2>1, FS_Interval
  <2>4. ASSUME NEW m \in D PROVE IsFiniteSet(of(m)) /\ Cardinality(of(m)) \in Nat
    <3>1. of(m) \in SUBSET (1 .. OuterSplits)
      BY <2>3
    <3> HIDE DEF of
    <3> QED
      BY <2>3, <3>1, FS_Subset, FS_CardinalityType
  <2>5. picked[1] \in D /\ n \in D
    BY <1>2, <2>1, <2>2, <2>3
  <2>6. Cardinality(of(picked[1])) # 0
    <3>1. 1 \in of(picked[1])
      BY <2>3
    <3> QED
      BY <2>4, <2>5, <3>1, FS_EmptySet
  <2>7. Cardinality(of(picked[1])) <= Cardinality(of(n))
    BY <1>2, <2>2, <2>5
  <2> HIDE DEF of
  <2>8. Cardinality(of(n)) # 0
    BY <2>4, <2>5, <2>6, <2>7
  <2>9. of(n) # {}
    <3> HIDE DEF of
    <3> QED
      BY <2>8, FS_EmptySet
  <2> QED
    BY <2>9 DEF Range, of
<1> QED
  BY <1>1, <1>2 DEF CountsAddUp, Elects

LEMMA SeedArithmetic ==
  ASSUME NEW f, f.outer \in 0 .. 9, f.candidate \in 0 .. 9, f.inner \in 0 .. 9,
         NEW g, g.outer \in 0 .. 9, g.candidate \in 0 .. 9, g.inner \in 0 .. 9
  PROVE  /\ 100 * f.outer + 10 * f.candidate + f.inner = 100 * g.outer + 10 * g.candidate + g.inner
              => f.outer = g.outer /\ f.candidate = g.candidate /\ f.inner = g.inner
         /\ 100 * f.outer + 10 * f.candidate + f.inner # 1000 + g.outer
         /\ 1000 + f.outer = 1000 + g.outer => f.outer = g.outer
<1> DEFINE a == f.outer  b == f.candidate  c == f.inner
           d == g.outer  e == g.candidate  h == g.inner
<1>1. /\ a \in 0 .. 9 /\ b \in 0 .. 9 /\ c \in 0 .. 9
      /\ d \in 0 .. 9 /\ e \in 0 .. 9 /\ h \in 0 .. 9
  OBVIOUS
<1> HIDE DEF a, b, c, d, e, h
<1>2. /\ a \in Int /\ 0 <= a /\ a <= 9 /\ b \in Int /\ 0 <= b /\ b <= 9 /\ c \in Int /\ 0 <= c /\ c <= 9
      /\ d \in Int /\ 0 <= d /\ d <= 9 /\ e \in Int /\ 0 <= e /\ e <= 9 /\ h \in Int /\ 0 <= h /\ h <= 9
  BY <1>1
<1>3. /\ 100 * a + 10 * b + c = 100 * d + 10 * e + h => a = d /\ b = e /\ c = h
      /\ 100 * a + 10 * b + c # 1000 + d
      /\ 1000 + a = 1000 + d => a = d
  BY <1>2
<1> QED
  BY <1>3 DEF a, b, c, d, e, h

(* Within the ranges of the seed schedule (a hundred numbers per outer     *)
(* fold, ten per candidate) positions and seeds are one to one.            *)
LEMMA SeedsTellFitsApart == NestedInv /\ SeedRangesHold => SeedsAreDisjoint
<1> SUFFICES ASSUME NestedInv, SeedRangesHold, NEW f \in fits, NEW g \in fits, f.seed = g.seed
             PROVE  <<f.purpose, f.outer, f.candidate, f.inner>> = <<g.purpose, g.outer, g.candidate, g.inner>>
  BY DEF SeedsAreDisjoint
<1>1. FitPlace(f) /\ FitPlace(g)
  BY DEF NestedInv, FitsInv
<1>2. /\ Len(Names) \in Nat /\ Len(Names) <= 10 /\ OuterSplits \in Nat /\ OuterSplits <= 10
      /\ InnerSplits \in Nat /\ InnerSplits <= 10
  <2>1. Len(Names) \in Nat
    BY NamesFacts DEF Names
  <2>2. target \in DOMAIN TargetOrder
    BY DEF NestedInv, NestedTypeOK
  <2> QED
    BY <2>1, <2>2, NestedAssumption DEF SeedRangesHold, Names
<1>3. ASSUME NEW x, FitPlace(x)
      PROVE  /\ x.outer \in 0 .. 9 /\ x.candidate \in 0 .. 9 /\ x.inner \in 0 .. 9
             /\ \/ x.purpose = "candidate" /\ x.seed = 100 * x.outer + 10 * x.candidate + x.inner
                \/ /\ x.purpose = "outer_fit" /\ x.seed = 1000 + x.outer
                   /\ x.candidate = 0 /\ x.inner = 0
  <2> DEFINE c == Len(Names)
  <2>1. /\ x.outer \in 0 .. OuterSplits - 1 /\ x.seed = DeriveSeed(x.purpose, x.outer, x.candidate, x.inner)
        /\ \/ x.purpose = "candidate" /\ x.candidate \in 0 .. c - 1 /\ x.inner \in 0 .. InnerSplits - 1
           \/ x.purpose = "outer_fit" /\ x.candidate = 0 /\ x.inner = 0
    BY <1>3 DEF FitPlace
  <2>2. c \in Nat /\ c <= 10
    BY <1>2
  <2> HIDE DEF c
  <2>3. CASE x.purpose = "candidate" /\ x.candidate \in 0 .. c - 1 /\ x.inner \in 0 .. InnerSplits - 1
    <3>1. x.seed = 100 * x.outer + 10 * x.candidate + x.inner
      BY <2>1, <2>3 DEF DeriveSeed
    <3>2. x.outer \in 0 .. 9
      BY <1>2, <2>1
    <3>3. x.candidate \in 0 .. 9
      BY <2>2, <2>3
    <3>4. x.inner \in 0 .. 9
      BY <1>2, <2>3
    <3> QED
      BY <2>3, <3>1, <3>2, <3>3, <3>4
  <2>4. CASE x.purpose = "outer_fit" /\ x.candidate = 0 /\ x.inner = 0
    <3>1. x.seed = 1000 + x.outer
      BY <2>1, <2>4 DEF DeriveSeed
    <3> QED
      BY <1>2, <2>1, <2>4, <3>1
  <2> QED
    BY <2>1, <2>3, <2>4
<1>4. /\ f.outer \in 0 .. 9 /\ f.candidate \in 0 .. 9 /\ f.inner \in 0 .. 9
      /\ \/ f.purpose = "candidate" /\ f.seed = 100 * f.outer + 10 * f.candidate + f.inner
         \/ f.purpose = "outer_fit" /\ f.seed = 1000 + f.outer /\ f.candidate = 0 /\ f.inner = 0
  BY <1>1, <1>3
<1>5. /\ g.outer \in 0 .. 9 /\ g.candidate \in 0 .. 9 /\ g.inner \in 0 .. 9
      /\ \/ g.purpose = "candidate" /\ g.seed = 100 * g.outer + 10 * g.candidate + g.inner
         \/ g.purpose = "outer_fit" /\ g.seed = 1000 + g.outer /\ g.candidate = 0 /\ g.inner = 0
  BY <1>1, <1>3
<1>6. f.purpose = g.purpose /\ f.outer = g.outer /\ f.candidate = g.candidate /\ f.inner = g.inner
  <2>1. CASE f.purpose = "candidate" /\ g.purpose = "candidate"
    <3>1. 100 * f.outer + 10 * f.candidate + f.inner = 100 * g.outer + 10 * g.candidate + g.inner
      BY <1>4, <1>5, <2>1
    <3> QED
      BY <1>4, <1>5, <2>1, <3>1, SeedArithmetic
  <2>2. CASE f.purpose = "outer_fit" /\ g.purpose = "outer_fit"
    <3>1. 1000 + f.outer = 1000 + g.outer /\ f.candidate = g.candidate /\ f.inner = g.inner
      BY <1>4, <1>5, <2>2
    <3> QED
      BY <1>4, <1>5, <2>2, <3>1
  <2>3. CASE f.purpose = "candidate" /\ g.purpose = "outer_fit"
    <3>1. 100 * f.outer + 10 * f.candidate + f.inner = 1000 + g.outer
      BY <1>4, <1>5, <2>3
    <3> QED
      BY <1>4, <1>5, <3>1, SeedArithmetic
  <2>4. CASE f.purpose = "outer_fit" /\ g.purpose = "candidate"
    <3>1. 100 * g.outer + 10 * g.candidate + g.inner = 1000 + f.outer
      BY <1>4, <1>5, <2>4
    <3> QED
      BY <1>4, <1>5, <3>1, SeedArithmetic
  <2> QED
    BY <1>4, <1>5, <2>1, <2>2, <2>3, <2>4
<1> QED
  BY <1>6

(* No model is judged on what it learned from: for any table, any split of *)
(* its groups, any candidates and any scores, a fit shares no group with   *)
(* the rows it predicts or with the outer test fold it is chosen for.      *)
THEOREM TestRowsStayUnseen == NestedSpec => []NoTestRowIsFit
<1>1. NestedInv => NoTestRowIsFit
  BY DEF NestedInv, FitsInv, FitRows, NoTestRowIsFit
<1> QED
  BY <1>1, NestedInvariance, PTL

(* Within the ranges of the seed schedule a nested selection is honest.    *)
THEOREM SelectionsAreHonest ==
  ASSUME SeedRangesHold
  PROVE  NestedSpec => []NestedIsHonest
<1>1. NestedInv => NestedIsHonest
  <2>1. NestedInv => NoTestRowIsFit /\ IntervalIsOrdered
    BY DEF NestedInv, FitsInv, FitRows, NoTestRowIsFit
  <2> QED
    BY <2>1, RowsArePredictedOnce, CountsAreOfElections, SeedsTellFitsApart DEF NestedIsHonest
<1> QED
  BY <1>1, NestedInvariance, PTL

=============================================================================
