----------------------------- MODULE MCComparison -----------------------------
(* What is compared and how it is told, on small instances: a history looks at *)
(* the arms of an ablation (ThreeArmSearch), at the scores computed from what  *)
(* they evaluated (AblationScoring), or at the public table (PaperTable).      *)
EXTENDS ThreeArmSearch, PaperTable, TLC

CONSTANTS wide, trap, pad

VARIABLES
  subject,                            \* "arms", "scores" or "table"
  latency, visited, convLog           \* those of AblationScoring

----------------------------------------------------------------------------
(* The grid of the smoke test in small: the wide, a width that is fast only  *)
(* untuned (trap), and its padded neighbour that tunes better (pad); at fp16 *)
(* with a population of the whole grid, and with int8 and a small one.       *)
MCWidths == {wide, trap, pad}
Pair(d, t) == [default |-> d, tuned |-> t]
MCLatency == (wide :> Pair(6, 4)) @@ (trap :> Pair(2, 2)) @@ (pad :> Pair(3, 1))
MCInt8Latency == (wide :> Pair(4, 3)) @@ (trap :> Pair(2, 2)) @@ (pad :> Pair(2, 1))
MCAP == (wide :> 63) @@ (trap :> 59) @@ (pad :> 59)

Setup(q, p, b, k) == [quants |-> q, popSize |-> p, budget |-> b, topK |-> k]
MCSetups == {Setup({"fp16"}, 3, 6, 0), Setup({"fp16", "int8"}, 2, 4, 1)}
MCBuildable == {wide, pad}

----------------------------------------------------------------------------
(* Archives of up to three evaluations an arm: a chain of trade-offs, a tie, *)
(* three layers, and points outside the box.                                 *)
P(w, s) == [width |-> w, sched |-> s]
MCPoints == [width : MCWidths, sched : {"default", "tuned"}]
MCPointAP == [p \in MCPoints |-> IF p.width = wide THEN 3 ELSE IF p.width = trap THEN 2 ELSE 1]
MCTables ==
  {(P(wide, "default") :> 5) @@ (P(wide, "tuned") :> 4) @@ (P(trap, "default") :> 3)
     @@ (P(trap, "tuned") :> 3) @@ (P(pad, "default") :> 6) @@ (P(pad, "tuned") :> 1)}

Scoring == INSTANCE AblationScoring WITH
  Points <- MCPoints, Tables <- MCTables, AP <- MCPointAP, Reference <- <<5, 0>>, MaxEvals <- 3
ASSUME ScoringAssumption == Scoring!ScoringAssumption

----------------------------------------------------------------------------
(* Tables *)

Measure(id, method, ap, lat, en, trusted) ==
  [id |-> id, device |-> "d1", method |-> method, ap70 |-> ap, latency |-> lat, energy |-> en,
   gold |-> TRUE, validated |-> TRUE, verified |-> trusted]

Cell(method, status) == [device |-> "d1", method |-> method, status |-> status]

Evidence(ids) == [i \in ids |-> "verified"]

\* One baseline, trusted or not, and up to three points of one arm that stand on both sides of the
\* floor and of the window, in both orders of arrival.
Shapes == {[ap |-> a, lat |-> l, en |-> e] : a \in {6, 7}, l \in {100, 101, 102}, e \in {1, 2}}
ThirdShapes == {[ap |-> 7, lat |-> 100, en |-> 2], [ap |-> 8, lat |-> 101, en |-> 1],
                [ap |-> 5, lat |-> 99, en |-> 1]}

Arrived(p, q, r, tp, tq) ==
  <<Measure(1, Baseline, 8, 101, 2, TRUE), Measure(4, "arm", p.ap, p.lat, p.en, tp),
    Measure(3, "arm", q.ap, q.lat, q.en, tq), Measure(2, "arm", r.ap, r.lat, r.en, TRUE)>>

SelectionInputs ==
  {[points |-> Arrived(p, q, r, tp, tq), evidence |-> Evidence(1..4),
    cells |-> <<Cell("arm", s)>>] :
     p \in Shapes, q \in Shapes, r \in ThirdShapes, tp \in BOOLEAN, tq \in BOOLEAN,
     s \in {"complete", "complete_failure"}}

\* Two arms, a second baseline or none, another device, an id twice, evidence that is missing or
\* not verified, a cell twice.
Sole == Measure(1, Baseline, 8, 101, 1, TRUE)
Fast == Measure(2, "arm", 7, 100, 2, TRUE)
Poor == Measure(3, "arm", 3, 90, 1, TRUE)
Other == Measure(4, "twin", 7, 100, 2, TRUE)
Away(p) == [p EXCEPT !.device = "d2"]
Unvalidated(p) == [p EXCEPT !.validated = FALSE]
BothArms == <<Cell("arm", "complete"), Cell("twin", "complete")>>

MixedInputs ==
  {[points |-> s, evidence |-> e, cells |-> c] :
     s \in {<<Sole, Fast, Poor, Other>>, <<Fast, Sole, Other>>, <<Sole, [Sole EXCEPT !.id = 5], Fast>>,
            <<Sole, Unvalidated([Sole EXCEPT !.id = 5]), Fast>>, <<Sole, Poor, Away(Fast)>>,
            <<Fast, Away(Sole)>>, <<Sole, Poor, Poor>>, <<Unvalidated(Sole), Fast>>},
     e \in {Evidence(1..5), Evidence({1, 2, 3}), [Evidence(1..5) EXCEPT ![2] = "pending"]},
     c \in {BothArms, <<Cell("arm", "complete"), Cell("arm", "complete_failure")>>,
            <<Cell("twin", "complete_failure"), [Cell("arm", "complete") EXCEPT !.device = "d2"]>>}}

\* For the command line: inputs whose artifacts agree in some names and differ in others.
PublishInputs ==
  {[points |-> s, evidence |-> Evidence(1..5), cells |-> <<Cell("arm", st)>>] :
     s \in {<<Sole, Fast>>, <<Sole, Fast, Poor>>, <<Sole, Poor>>, <<Sole, Poor, Poor>>},
     st \in {"complete", "complete_failure"}}

AllInputs == SelectionInputs \cup MixedInputs \cup PublishInputs

\* the other inputs are read by one run that lives
Small == runs > 1 \/ crashes > 0 => input \in PublishInputs
First == runs = 1 => input \in PublishInputs

----------------------------------------------------------------------------
scoreVars == <<latency, visited, convLog>>

NoArm == setup = Setup({"fp16"}, 3, 6, 0) /\ arm = "noS" /\ start = {} /\ Init
NoTable == input = (CHOOSE in \in PublishInputs : TRUE) /\ TableInit

\* Where the serial arm of the smoke test starts decides nothing, its population holds the grid:
\* one forced width is enough.
MCInit ==
  \/ subject = "arms" /\ Init /\ start \subseteq {pad} /\ Scoring!Init /\ NoTable
  \/ subject = "scores" /\ Scoring!Init /\ NoArm /\ NoTable
  \/ subject = "table" /\ TableInit /\ NoArm /\ Scoring!Init
\* Bound: the joint arm with int8, whose space is the largest, is left after three generations.
SearchStep ==
  /\ subject = "arms"
  /\ arm = "joint" /\ "int8" \in Quants => gens < 3
  /\ Next /\ UNCHANGED <<subject, scoreVars, tableVars>>
TableStep ==
  /\ subject = "table" /\ TableNext /\ Small'
  /\ runs' > runs => First
  /\ UNCHANGED <<subject, vars, scoreVars>>
MCNext ==
  \/ SearchStep
  \/ subject = "scores" /\ Scoring!Next /\ UNCHANGED <<subject, vars, tableVars>>
  \/ TableStep

MCSpec == MCInit /\ [][MCNext]_<<subject, vars, scoreVars, tableVars>>

----------------------------------------------------------------------------
(* The types of searches, scores and tables. *)
TypesOK ==
  /\ TypeOK
  /\ subject = "scores" => Scoring!TypeOK
  /\ TableTypeOK

(* The hypervolume is the dominated area, curves and their means never fall,  *)
(* fronts are the layers of the archive and keep their ends, an arm that      *)
(* visits more is no slower, and ranks add up, ties or not.                   *)
ScoresMeanWhatTheySay == subject = "scores" => Scoring!ScoresMeanWhatTheySay
=============================================================================
