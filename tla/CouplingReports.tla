-------------------------- MODULE CouplingReports --------------------------
(***************************************************************************)
(* The prediction reports of Stage1.  Probes add evidence files; the       *)
(* predictor reads the manifest and the evidence and writes the v0 report; *)
(* the calibration reads the v0 report, which may be older than the        *)
(* evidence, and writes the v1 report.  Each can be run at any time.       *)
(***************************************************************************)
EXTENDS CouplingRules

CONSTANTS
  Manifests,  \* the manifests a scan can have left
  Evidence    \* the evidence that probes can bring

VARIABLES
  manifest,  \* the partition manifest
  evidence,  \* what the evidence files say by now
  v0, v1     \* None or <<report>>

couplingVars == <<manifest, evidence, v0, v1>>

CouplingInit == manifest \in Manifests /\ evidence = {} /\ v0 = None /\ v1 = None

\* A probe ends and its report is written.
Probe(e) ==
  /\ e \notin evidence
  /\ evidence' = evidence \cup {e}
  /\ UNCHANGED <<manifest, v0, v1>>

\* predict_manifests, for this manifest
WriteV0 ==
  /\ v0' = <<Predict(manifest, evidence)>>
  /\ UNCHANGED <<manifest, evidence, v1>>

\* build_predictions_v1; without a v0 report there is nothing to calibrate
WriteV1 ==
  /\ v0 # None
  /\ v1' = <<Calibrate(v0[1])>>
  /\ UNCHANGED <<manifest, evidence, v0>>

CouplingNext == (\E e \in Evidence : Probe(e)) \/ WriteV0 \/ WriteV1

CouplingSpec == CouplingInit /\ [][CouplingNext]_couplingVars

----------------------------------------------------------------------------
(* Properties *)

Names ==
  {"attention_fusion", "routing_fusion", "maxfusion", "custom_subgraph", "skipped_maxfusion", "skipped_sparse",
   "skipped_other", "skipped_routing", "manual_override", "boundary_confidence", "missing_checkpoint", "basebev",
   "neck_deconv", "qgranularity", "q_ap", "resnet_completion", "p_hub", "scope_limited", "no_extrapolation",
   "review_boundary", "override_boundary", "provide_checkpoint", "targeted_probe", "s4_three_arm", "s4_ap_or_hv"}

\* Reports are about the manifest's model and name known blockers and steps.
CouplingTypeOK ==
  /\ evidence \subseteq Evidence
  /\ \A r \in {v0, v1} \ {None} : /\ r[1].model = manifest.model
                                  /\ r[1].blockers \subseteq Names /\ r[1].steps \subseteq Names

\* A separable verdict rests on both CoDriving measurements, is about the measured envelope and
\* not the model, and neither report is one the overpromotion guard would have to reject.
SeparableIsMeasured ==
  /\ v0 # None /\ v0[1].verdict \in SeparableVerdicts =>
       {"dense_core", "pqs"} \subseteq evidence /\ v0[1].scope \notin FullModelScopes
  /\ \A r \in {v0, v1} \ {None} : ~Overpromoted(r[1])

\* A subgraph that the adapter or the trace plan declares blocking is among the blockers of both
\* reports, whatever the model's own rule adds; only an entry of the adapter with the same name and
\* type takes it back, one it declares harmless or leaves to a type that blocks nothing.
BlockingSkipStaysBlocked ==
  \A r \in {v0, v1} \ {None} : \A item \in manifest.typed \cup PlanOf(manifest).skips :
    item.says = "blocks" =>
      \/ GateOf(manifest.model, item.kind) \in r[1].blockers
      \/ \E t \in manifest.typed : t.name = item.name /\ t.kind = item.kind /\ ~Typed(t).blocks

\* What the trace plan leaves open has its next step in both reports.  F-Cooper with its MaxFusion
\* bound is left out: its branch starts the list of steps anew.
OpenPlanHasItsStep ==
  \A r \in {v0, v1} \ {None} :
    r[1].level \notin {"measured_schedule_coupling", "measured_s4_pair"} => PlanSteps(manifest) \subseteq r[1].steps

\* A report claims what is known: separability as measured, blockers as declared, and a next step
\* for all that is open.
ReportsAreGrounded == SeparableIsMeasured /\ BlockingSkipStaysBlocked /\ OpenPlanHasItsStep
=============================================================================
