--------------------------- MODULE CouplingRules ---------------------------
(***************************************************************************)
(* The rules by which Stage1 judges whether a model's pruning,             *)
(* quantization and scheduling can be searched apart: the safe predictor   *)
(* (v0), its calibration (v1) and the classifier's three classes.  They    *)
(* are functions of a partition manifest and of the evidence files that    *)
(* exist; the modules that run them say when each is read.                 *)
(* A module left out of the trace is named by what its description says    *)
(* ("attention", "routing", "custom", "maxfusion", "fusion", "sparse",     *)
(* "other"); blockers, gates and next steps are names of their own.        *)
(***************************************************************************)
EXTENDS Sequences, FiniteSets

None == <<>>

----------------------------------------------------------------------------
(* Manifests *)

Missing(ckpt) == ckpt \in {"missing", "missing_architecture_scan_only"}

\* A skipped subgraph with a type: the type words decide how the predictor reads it.
TypedKind(kind) ==
  CASE kind \in {"sparse", "other"} -> "custom" [] kind = "routing" -> "attention" [] OTHER -> kind

\* TraceAdapter.typed_skipped_subgraphs: whatever the trace leaves out blocks.
AdapterSkips(legacy) == {[name |-> k, kind |-> TypedKind(k), says |-> "blocks"] : k \in legacy}

\* legacy_trace_plan_from_manifest, for a manifest without a trace plan
LegacyPlan(man) ==
  [ckpt |-> man.ckpt, manual |-> TRUE, review |-> TRUE,
   confidence |-> IF Missing(man.ckpt) THEN "low" ELSE "medium",
   skips |-> man.typed \cup
     {[name |-> k, kind |-> TypedKind(k),
       says |-> IF k \in {"attention", "routing", "fusion", "other"} THEN "blocks" ELSE "passes"] : k \in man.legacy}]

PlanOf(man) == IF man.plan = None THEN LegacyPlan(man) ELSE man.plan[1]

----------------------------------------------------------------------------
(* coupling_predictor: skipped subgraphs *)

\* _skip_type_and_blocker
BlocksByKind(kind) == kind \in {"attention", "custom", "fusion", "unknown"}

GateOf(model, kind) ==
  CASE kind = "attention" -> "attention_fusion" [] kind = "custom" -> "custom_subgraph"
    [] kind = "fusion" -> "routing_fusion"
    [] kind = "maxfusion" /\ model = "fcooper" -> "maxfusion"
    [] OTHER -> "skipped_" \o kind

Typed(item) ==
  [name |-> item.name, kind |-> item.kind,
   blocks |-> item.says = "blocks" \/ (item.says = "unsaid" /\ BlocksByKind(item.kind))]
Untyped(k) == [name |-> k, kind |-> k, blocks |-> BlocksByKind(k)]

\* Of several entries with the same name and type the first one counts.
Behind(first, rest) == first \cup {s \in rest : \A f \in first : <<f.name, f.kind>> # <<s.name, s.kind>>}

\* _manifest_with_trace_plan, _normalize_skipped_subgraphs
Skips(man) ==
  Behind(Behind({Typed(t) : t \in man.typed}, {Typed(t) : t \in PlanOf(man).skips}),
         {Untyped(k) : k \in man.legacy})

SkipBlockers(man) == {GateOf(man.model, s.kind) : s \in {t \in Skips(man) : t.blocks}}

----------------------------------------------------------------------------
(* coupling_predictor: one manifest *)

\* _model_gate, _required_gates
Required(model) ==
  CASE model = "fcooper" -> {"basebev", "maxfusion", "routing_fusion"}
    [] model = "attfuse" -> {"basebev", "attention_fusion", "routing_fusion"}
    [] model = "where2comm" -> {"basebev", "attention_fusion", "routing_fusion", "neck_deconv"}
    [] model = "v2xvit" -> {"basebev", "attention_fusion", "qgranularity", "routing_fusion", "q_ap"}
    [] model = "codriving" -> {"resnet_completion", "neck_deconv"}
    [] model = "pyramid" -> {"p_hub", "q_ap"}
    [] OTHER -> {}

If(condition, name) == IF condition THEN {name} ELSE {}

\* What the trace plan itself leaves open, and the step that would close it.
\* A plan whose builder failed says nothing of the checkpoint; the manifest is asked instead.
NoCheckpoint(man) == Missing(IF PlanOf(man).ckpt = "unsaid" THEN man.ckpt ELSE PlanOf(man).ckpt)

PlanBlockers(man) ==
  If(PlanOf(man).manual, "manual_override") \cup If(PlanOf(man).confidence = "low", "boundary_confidence")
    \cup If(NoCheckpoint(man), "missing_checkpoint")
PlanSteps(man) ==
  If(PlanOf(man).manual \/ PlanOf(man).review, "review_boundary")
    \cup If(PlanOf(man).confidence = "low", "override_boundary") \cup If(NoCheckpoint(man), "provide_checkpoint")

SeparableVerdicts == {"MEASURED_SEPARABLE", "PREDICTED_SEPARABLE_LOW_RISK", "ANCHOR_PROBED_LOW_RISK"}

\* v0 is what the calibration keeps of the verdict and scope it replaces.
Report(man, verdict, scope, level, blockers, steps) ==
  [model |-> man.model, ckpt |-> man.ckpt, planCkpt |-> PlanOf(man).ckpt, verdict |-> verdict, scope |-> scope,
   level |-> level, blockers |-> blockers, steps |-> steps, v0 |-> <<verdict, scope>>]

\* Mutated form: one of the two CoDriving anchors will do.
HasSomeAnchor(evidence) == evidence \cap {"dense_core", "pqs"} # {}

HasAnchor(evidence) == {"dense_core", "pqs"} \subseteq evidence

MaxFusionBound(man, evidence) ==
  /\ \E s \in Skips(man) : s.name = "maxfusion" \/ GateOf(man.model, s.kind) = "maxfusion"
  /\ {"maxfusion_bound", "basebev_coupling"} \subseteq evidence

PyramidSteps(man, evidence) ==
  (Required("pyramid") \cup PlanSteps(man)) \ If("s3_pyramid" \in evidence, "q_ap")

\* predict_manifest
Predict(man, evidence) ==
  LET open == SkipBlockers(man) \cup PlanBlockers(man)
      steps == Required(man.model) \cup PlanSteps(man)
  IN CASE man.model = "codriving" /\ HasAnchor(evidence) ->
            Report(man, "ANCHOR_PROBED_LOW_RISK", "codriving_envelope", "measured_negative_anchor",
                   open \cup {"scope_limited", "no_extrapolation"}, steps)
       [] man.model = "attfuse" ->
            Report(man, "FUSION_UNCOVERED_UNKNOWN", "traced_dense", "uncovered", open \cup {"attention_fusion"}, steps)
       [] man.model = "v2xvit" ->
            Report(man, "JOINT_OR_PAIR_SEARCH_REQUIRED", "full_model_gate_blocked",
                   IF "s3_v2xvit" \in evidence THEN "fake_quant" ELSE "existing_cell",
                   open \cup {"attention_fusion", "routing_fusion", "qgranularity"}, steps)
       [] man.model = "pyramid" ->
            Report(man, "P_HUB_CONTEXT_BLOCKS", "full_model_p_hub_context", "historical_trt",
                   open \cup {"p_hub"}, PyramidSteps(man, evidence))
       [] man.model = "fcooper" /\ MaxFusionBound(man, evidence) ->
            Report(man, "LOW_CONFIDENCE", "full_model_schedule_coupling", "measured_schedule_coupling",
                   open \cup {"routing_fusion"}, {"routing_fusion", "s4_three_arm"})
       [] man.model = "fcooper" /\ ~MaxFusionBound(man, evidence) ->
            Report(man, "LOW_CONFIDENCE", "full_model_pending", "static_only", open \cup Required("fcooper"), steps)
       [] man.model \in {"codriving", "where2comm", "other"} /\ SkipBlockers(man) # {}
            /\ (man.model = "codriving" => ~HasAnchor(evidence)) ->
            Report(man, "FUSION_UNCOVERED_UNKNOWN", "traced_dense", "uncovered", open, steps)
       [] OTHER ->
            LET next == IF steps = {} THEN {"targeted_probe"} ELSE steps
            IN Report(man, "LOW_CONFIDENCE", "traced_dense", "static_only", open \cup next, next)

----------------------------------------------------------------------------
(* What is made of a prediction *)

FullModelScopes ==
  {"full_model_gate_blocked", "full_model_p_hub_context", "full_model_schedule_coupling", "full_model_pending",
   "full_model_gated_pair"}

\* find_overpromotions
Overpromoted(r) == r.blockers # {} /\ r.scope \in FullModelScopes /\ r.verdict \in SeparableVerdicts

\* calibrated_predictor._calibrate_model
Calibrate(base) ==
  CASE base.model = "codriving" ->
         [base EXCEPT !.verdict = "SCOPED_NEGATIVE_ANCHOR", !.scope = "codriving_envelope",
                      !.level = "measured_existing_anchor"]
    [] base.model = "fcooper" ->
         [base EXCEPT !.verdict = "PAIR_CALIBRATION_REQUIRED", !.scope = "full_model_gated_pair",
                      !.level = "measured_s4_pair", !.steps = (@ \ {"s4_three_arm"}) \cup {"s4_ap_or_hv"}]
    [] base.model = "attfuse" ->
         [base EXCEPT !.verdict = "FUSION_UNCOVERED_BLOCKED", !.steps = @ \cup {"attention_fusion"}]
    [] base.model = "v2xvit" ->
         [base EXCEPT !.verdict = "PAIR_OR_JOINT_GATE", !.level = "fake_quant"]
    [] base.model = "pyramid" ->
         [base EXCEPT !.verdict = "P_HUB_CONTEXT_HISTORICAL", !.level = "historical_trt", !.steps = @ \ {"q_ap"}]
    [] base.model = "where2comm" ->
         [base EXCEPT !.verdict = "ARCHITECTURE_ONLY", !.level = "architecture_only"]
    [] OTHER -> base

\* model_classifier._acceleration_class_for_model
AccelerationClass(base) ==
  CASE base.ckpt = "missing_architecture_scan_only" \/ Missing(base.planCkpt) -> "SCAN_FAILED"
    [] base.model = "codriving" /\ base.ckpt # "missing_architecture_scan_only" /\ ~Missing(base.planCkpt) ->
         "SEPARABLE_ACCELERATION"
    [] OTHER -> "CO_ACCELERATION_REQUIRED"
=============================================================================
