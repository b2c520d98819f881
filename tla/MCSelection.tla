------------------------------ MODULE MCSelection ------------------------------
(* From candidates to requests, on small instances: a history looks at the   *)
(* registry the candidates are materialized into (RegistryMaterialization),  *)
(* at a batch selected in one shot from such a registry (ProductionSelection)*)
(* or at the rounds of an experiment (Stage7Trajectory).                     *)
EXTENDS Stage7Trajectory, RegistryMaterialization, ProductionSelection, TLC

CONSTANTS b1, b2, p1, p2, o1

VARIABLES
    subject                    \* "registry", "batch" or "rounds"

-----------------------------------------------------------------------------
(* Experiments: four genomes in two pools, two models that prefer opposite   *)
(* ends of the candidates, two trajectories at a time.                       *)
SmallPools == {1..3, 2..4}
SmallPredictions == {"low", "high"}
Lowest(n, c) == CHOOSE b \in kSubset(n, c) : \A x \in b, y \in c \ b : x < y
Highest(n, c) == CHOOSE b \in kSubset(n, c) : \A x \in b, y \in c \ b : x > y
Big(n) == {c \in SUBSET (1..4) : Cardinality(c) >= n}
PolicyOf(n) == [p \in SmallPredictions |->
    [c \in Big(n) |-> IF p = "low" THEN Lowest(n, c) ELSE Highest(n, c)]]
DrawOf(n) == [s \in {1, 2} |-> [c \in Big(n) |-> IF s = 1 THEN Highest(n, c) ELSE Lowest(n, c)]]
PolicyOne == PolicyOf(1)
DrawOne == DrawOf(1)
Traj(v, s) == [variant |-> v, seed |-> s]
TwoFrozen == {Traj("without_measured_feedback", 1), Traj("without_measured_feedback", 2)}
Online == {Traj("full", 1), Traj("without_measured_feedback", 1)}
Drawn == {Traj("without_surrogate", 1)}
Trajectory == TwoFrozen \cup Online \cup Drawn
Started == {Traj(r.variant, r.seed) : r \in Requests}
Flawed == {o \in OutputPaths :
              out[o] = Torn \/ (feedback[o] # Absent /\ ~Answers(feedback[o], out[o]))}
Written == {o \in OutputPaths : out[o] # Absent}
(* Bounds: at most two trajectories, those of one of the pairs; the fourth   *)
(* path is for the variant that learns, alone, which then has room to fork   *)
(* and go on; one torn output or incomplete answer at a time, before that.   *)
Small ==
    /\ \E pair \in {TwoFrozen, Online, Drawn} : Started \subseteq pair
    /\ Cardinality(Flawed) <= 1
    /\ Started # {Traj("full", 1)} \/ Flawed # {} => Cardinality(Written) <= 3
(* Nothing more is measured when no path is left to go on to.                *)
Exhausted == Cardinality(Written) = (IF Started = {Traj("full", 1)} THEN 4 ELSE 3)
NoIdleMeasure == Exhausted => UNCHANGED feedback
(* Callers take the first free path: which one it is tells nothing apart.    *)
FirstFree == \A o \in Written' \ Written : \A u \in 1..(o - 1) : u \in Written

-----------------------------------------------------------------------------
(* Batches: pyramid groups 1 to 5, of which two are the cold start and one   *)
(* is in the holdout; two co-driving groups of the cold start.               *)
MCModelOf == [g \in 1..7 |-> IF g <= 5 THEN "pyramid" ELSE "codriving"]
MCWidth == <<2, 8, 3, 5, 5, 2, 8>>
MCUncertainty == <<1, 1, 1, 1, 2, 1, 1>>
MCHashOrder == <<4, 2, 7, 1, 5, 3, 6>>
MCKinds(a, b, c) == <<"ready", "ready", a, b, c, "ready", "ready">>
MCSources == {MCKinds("ready", "ready", "ready"), MCKinds("blocked", "ready", "ready"),
                 MCKinds("ready", "single", "absent"), MCKinds("foreign", "ready", "ready"),
                 MCKinds("ready", "blocked", "graphless"), MCKinds("leaky", "ready", "ready")}
MCPoint(n, g, q) == CASE g = 3 -> <<1, n, 0>> [] g = 4 -> <<2, 2, IF q = "int8" THEN 0 ELSE -1>>
                      [] OTHER -> <<2, 2, 0>>
MCForecast == [n \in 1..7 |-> [g \in 1..7 |-> [d \in {"tvm_auto", "trt_engine"} |-> [q \in {"fp16", "int8"} |-> MCPoint(n, g, q)]]]]

MCGroups == 1..7

-----------------------------------------------------------------------------
(* Registries: plans of one, two or four candidates over three widths;       *)
(* recipes that render all of them apart, and recipes that name too little,  *)
(* escape, or lack a mode.                                                   *)
Fields == {"s1", "s2", "s3"}
MCEntries == [width : {<<1, 1, 1>>, <<1, 2, 2>>, <<2, 1, 2>>}, q : {"fp16", "int8"}, points : {"a"}]
             \cup {[width |-> <<1, 1, 1>>, q |-> "fp16", points |-> "b"]}
MCOf(w, q) == [width |-> w, q |-> q, points |-> "a"]
MCPlan(s, n) == [entries |-> s, candidates |-> Len(s), structures |-> n]
MCPlans ==
    {MCPlan(<<e>>, 1) : e \in MCEntries}
    \cup {MCPlan(s, n) : s \in [1..2 -> MCEntries \ {MCOf(<<1, 2, 2>>, "int8")}], n \in 1..2}
    \cup {MCPlan(<<MCOf(<<1, 1, 1>>, "fp16"), MCOf(<<1, 1, 1>>, "int8"), MCOf(w, "fp16"), MCOf(<<2, 1, 2>>, "int8")>>, 3) :
              w \in {<<1, 2, 2>>, <<1, 1, 1>>}}
Tmpl(l, f) == [literal |-> l, fields |-> f]
MCOutputs(f) == [k \in {"training", "checkpoint", "onnx", "calibration"} |-> Tmpl(k, f)]
MCRecipe(artifact, outputs) == [group |-> Tmpl("pyramid|", Fields), artifact |-> artifact, outputs |-> outputs]
MCBoth(t) == [q \in {"fp16", "int8"} |-> t]
MCFull == Tmpl("artifact", Fields)
MCRecipes == {
    MCRecipe(MCFull, MCBoth(MCOutputs({"artifact_id", "q_mode"}))),
    MCRecipe(Tmpl("artifact", {"s1"}), MCBoth(MCOutputs({"group_id", "q_mode"}))),
    MCRecipe(MCFull, MCBoth(MCOutputs({"s1", "q_mode"}))),
    MCRecipe(MCFull, MCBoth(MCOutputs({"artifact_id"}))),
    MCRecipe(MCFull, [q \in {"fp16"} |-> MCOutputs({"s1", "s2"})]),
    MCRecipe(MCFull, MCBoth([MCOutputs({"artifact_id", "q_mode"}) EXCEPT !["onnx"] = Tmpl("checkpoint", {"artifact_id", "q_mode"})])),
    MCRecipe(MCFull, MCBoth([MCOutputs({"artifact_id", "q_mode"}) EXCEPT !["onnx"] = Tmpl("../", {"q_mode"})])),
    MCRecipe(MCFull, [q \in {"fp16"} |-> [MCOutputs({"artifact_id"}) EXCEPT !["onnx"] = Tmpl("source_registry", {"s1"})]]),
    [MCRecipe(MCFull, MCBoth(MCOutputs({"artifact_id", "q_mode"}))) EXCEPT !.group = Tmpl("pyramid|", {"s1"})],
    MCRecipe(Tmpl("artifact", {}), MCBoth(MCOutputs({"group_id", "q_mode"})))}

-----------------------------------------------------------------------------
Symmetry == Permutations({b1, b2})

(* The cold start alone, or group 4 measured in an earlier request.          *)
SmallFile ==
    /\ \A g \in Groups \ Initial : g # 4 => file[g] = "none"
    /\ file[4] = "success" => \A g \in Initial : ModelOf[g] = Target => file[g] = "success"
NoBatch == file = [g \in Groups |-> IF g \in Initial THEN "success" ELSE "none"] /\ ProductionInit

MCInit ==
    \/ subject = "rounds" /\ Init /\ RegistryInit /\ NoBatch
    \/ subject = "batch" /\ ProductionInit /\ SmallFile /\ Init /\ RegistryInit
    \/ subject = "registry" /\ RegistryInit /\ Init /\ NoBatch
MCNext ==
    \/ subject = "rounds" /\ Next /\ Small' /\ FirstFree /\ NoIdleMeasure /\ UNCHANGED <<subject, registryVars, productionVars>>
    \/ subject = "batch" /\ ProductionNext /\ UNCHANGED <<subject, registryVars, vars>>
    \/ subject = "registry" /\ RegistryNext /\ UNCHANGED <<subject, productionVars, vars>>
MCSpec == MCInit /\ [][MCNext]_<<subject, registryVars, productionVars, vars>>

(* The types of requests and of selections. *)
TypesOK == TypeOK /\ ProductionTypeOK
=============================================================================
