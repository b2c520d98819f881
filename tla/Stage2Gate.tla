----------------------------- MODULE Stage2Gate -----------------------------
(***************************************************************************)
(* The gate between Stage1 and Stage2.  A scan leaves a manifest; the      *)
(* classifier predicts from manifests and evidence and writes a report in  *)
(* which each record carries the digest of its manifest; the optimizer     *)
(* opens for a manifest only if the report has a record of this model,     *)
(* this path and this digest, and then writes its output, an evidence      *)
(* delta and a summary, each once and never over a different one.  The     *)
(* programs share nothing but files and read a manifest several times.     *)
(* A digest is the content it is taken of.                                 *)
(***************************************************************************)
EXTENDS Integers, CouplingRules

CONSTANTS
  Paths,         \* where manifests lie
  Targets,       \* those of them the optimizer is run for
  Identity,      \* path -> its part from framework/partitions on, or None
  Contents,      \* what a scan can leave at a path
  FirstManifests,  \* what lies there at first
  Evidence,      \* the evidence that probes can bring
  MaxScans,      \* bound on the scans that replace a manifest
  RescanDuring   \* the programs, of "classifier" and "optimizer", that a scan may overlap

ASSUME GateAssumption ==
  /\ Targets \subseteq Paths /\ MaxScans \in Nat
  /\ FirstManifests \subseteq [Paths -> Contents]

\* scan writes the typed skips of its adapter beside the untyped ones; a manifest from before they
\* were typed has no trace plan either.
ASSUME ScanAssumption ==
  \A c \in Contents : c.typed = AdapterSkips(c.legacy) \/ (c.typed = {} /\ c.plan = None)

VARIABLES
  manifest,    \* path -> content
  scans,       \* how often a manifest was replaced
  evidence,
  report,      \* the classification: [status, records]
  classifier,  \* [pc, todo, made]
  optimizer,   \* [pc, path, hw, gate, space, data]
  files        \* target -> what the optimizer has written for it

vars == <<manifest, scans, evidence, report, classifier, optimizer, files>>

Kinds == {"out", "delta", "md"}
Absent == [state |-> "absent", of |-> None]
Torn == [state |-> "torn", of |-> None]
Whole(x) == [state |-> "whole", of |-> <<x>>]

IdleClassifier == [pc |-> "idle", todo |-> {}, made |-> {}]
IdleOptimizer == [pc |-> "idle", path |-> None, hw |-> None, gate |-> None, space |-> None, data |-> None]

Init ==
  /\ manifest \in FirstManifests /\ scans = 0
  /\ evidence = {}
  /\ report = [status |-> "absent", records |-> {}]
  /\ classifier = IdleClassifier /\ optimizer = IdleOptimizer
  /\ files = [p \in Targets |-> [k \in Kinds |-> Absent]]

----------------------------------------------------------------------------
(* Scans and probes *)

MayRescan ==
  /\ classifier.pc # "idle" => "classifier" \in RescanDuring
  /\ optimizer.pc # "idle" => "optimizer" \in RescanDuring

\* run_one: whether the scan succeeds or fails, it replaces the manifest.
Rescan(p, content) ==
  /\ scans < MaxScans /\ MayRescan
  /\ manifest' = [manifest EXCEPT ![p] = content]
  /\ scans' = scans + 1
  /\ UNCHANGED <<evidence, report, classifier, optimizer, files>>

Probe(e) ==
  /\ e \notin evidence
  /\ evidence' = evidence \cup {e}
  /\ UNCHANGED <<manifest, scans, report, classifier, optimizer, files>>

----------------------------------------------------------------------------
(* The classifier *)

\* _model_record; "seen" is what the prediction was made of, which the record does not say.
ModelRecord(m, digest) ==
  [path |-> m.path, model |-> m.base.model, digest |-> digest, ckpt |-> m.base.ckpt,
   class |-> AccelerationClass(m.base), level |-> m.base.level, scope |-> m.base.scope, seen |-> m.seen]

StartClassifier(P) ==
  /\ classifier.pc = "idle" /\ P # {}
  /\ classifier' = [pc |-> "reading", todo |-> P, made |-> {}]
  /\ UNCHANGED <<manifest, scans, evidence, report, optimizer, files>>

\* predict_manifests takes the manifests one by one, each with the evidence of its moment.
PredictOne(p) ==
  /\ p \in classifier.todo
  /\ classifier' =
       [classifier EXCEPT
          !.todo = @ \ {p},
          !.made = @ \cup {[path |-> p, seen |-> manifest[p], base |-> Predict(manifest[p], evidence)]}]
  /\ UNCHANGED <<manifest, scans, evidence, report, optimizer, files>>

\* The digests are taken when all predictions are made; the report is then opened for writing.
OpenReport ==
  /\ classifier.pc = "reading" /\ classifier.todo = {}
  /\ classifier' = [pc |-> "writing", todo |-> {}, made |-> {ModelRecord(m, manifest[m.path]) : m \in classifier.made}]
  /\ report' = [status |-> "torn", records |-> {}]
  /\ UNCHANGED <<manifest, scans, evidence, optimizer, files>>

CloseReport ==
  /\ classifier.pc = "writing"
  /\ report' = [status |-> "whole", records |-> classifier.made]
  /\ classifier' = IdleClassifier
  /\ UNCHANGED <<manifest, scans, evidence, optimizer, files>>

ClassifierDies ==
  /\ classifier.pc # "idle"
  /\ classifier' = IdleClassifier
  /\ UNCHANGED <<manifest, scans, evidence, report, optimizer, files>>

----------------------------------------------------------------------------
(* The gate *)

\* Mutated form: model and path identify a record.
SameNamed(p, content) ==
  {r \in report.records : r.model = content.model /\ Identity[r.path] = Identity[p]}

\* _find_model_record
Matching(p, content) ==
  {r \in report.records : r.model = content.model /\ Identity[r.path] = Identity[p] /\ r.digest = content}

Related(p, content) ==
  {r \in report.records : r.model = content.model \/ Identity[r.path] = Identity[p] \/ r.digest = content}

Closed(reason, source) == [allowed |-> FALSE, mode |-> "fail_closed", reason |-> reason, source |-> source]
Open(mode, reason, source) == [allowed |-> TRUE, mode |-> mode, reason |-> reason, source |-> source]

\* Mutated form: the mode is named for the class.
DecideByClass(r) == Open(r.class, r.class, <<r>>)

Decide(r) ==
  CASE r.class = "SCAN_FAILED" -> Closed("scan_failed", <<r>>)
    [] r.class # "SCAN_FAILED" /\ Missing(r.ckpt) -> Closed("checkpoint_optimization_blocked", <<r>>)
    [] r.class = "SEPARABLE_ACCELERATION" /\ ~Missing(r.ckpt) -> Open("serial", "separable_acceleration", <<r>>)
    [] r.class = "CO_ACCELERATION_REQUIRED" /\ ~Missing(r.ckpt) -> Open("joint", "co_acceleration_required", <<r>>)

\* apply_stage1_gate, for the content it reads
Decisions(p, content) ==
  IF report.status = "absent" THEN {Closed("missing_classification", None)}
  ELSE IF Matching(p, content) # {} THEN {Decide(r) : r \in Matching(p, content)}
  ELSE IF Related(p, content) # {} THEN {Closed("model_identity_mismatch", None)}
  ELSE {Closed("classification_record_missing", None)}

\* A report cut short does not parse; a path outside framework/partitions has no identity.
GateRaises(p) == report.status = "torn" \/ (report.status = "whole" /\ Identity[p] = None)

----------------------------------------------------------------------------
(* What the bridge and the contracts make of a manifest *)

\* _skipped_blocks: a skip that is not said to pass blocks the whole model, and so does any fusion;
\* the untyped list counts only if there is no typed one.
TypedBlockers(content) == {t.name : t \in {u \in content.typed : u.says # "passes" \/ u.kind \in {"fusion", "maxfusion"}}}

UntypedBlockers(content) == content.legacy \ {"sparse"}

\* The gate of a skip: the adapter's own for a typed one, else by its description.
BlockerGate(content, name) ==
  CASE content.typed # {} -> "trace_closure"
    [] content.typed = {} /\ name = "sparse" -> "sparse_frontend"
    [] content.typed = {} /\ name \in {"fusion", "maxfusion", "attention"} -> "routing_fusion"
    [] OTHER -> "coverage_caveat"

\* Mutated form: one blocker is enough.
FirstBlocker(content) ==
  LET names == IF content.typed # {} THEN TypedBlockers(content) ELSE UntypedBlockers(content)
  IN IF names = {} THEN {} ELSE {BlockerGate(content, CHOOSE n \in names : TRUE)}

\* _claim_scope: the gates of what blocks
ClaimBlockers(content) ==
  {BlockerGate(content, n) : n \in IF content.typed # {} THEN TypedBlockers(content) ELSE UntypedBlockers(content)}

\* _recommendations: of the first candidate, the first active point, else its first point
Recommended(content) ==
  LET active == {i \in DOMAIN content.points : content.points[i] = "active"}
  IN IF content.points = <<>> THEN None
     ELSE IF active = {} THEN <<1>>
     ELSE <<CHOOSE i \in active : \A j \in active : i <= j>>

\* build_stage2_output, with the parts as they were read
Output(hw, gate, space, digest) ==
  [model |-> space.model, digest |-> digest, hw |-> hw, gate |-> gate, claim |-> ClaimBlockers(space),
   points |-> space.points, recommended |-> IF gate.allowed THEN Recommended(space) ELSE None]

\* _demo_evidence_delta holds the recommendation, marked as a demonstration; the summary repeats the gate.
Rendered(kind, data) ==
  CASE kind = "out" -> data
    [] kind = "delta" -> [model |-> data.model, hw |-> data.hw, demo |-> data.recommended]
    [] kind = "md" -> [model |-> data.model, hw |-> data.hw, mode |-> data.gate.mode, reason |-> data.gate.reason]

\* to_optimization_status: of the record the gate found, an output tells this much.
SourceClassification(r) == [model |-> r.model, class |-> r.class, ckpt |-> r.ckpt, level |-> r.level, scope |-> r.scope]

OptimizationStatus(gate) ==
  [allowed |-> gate.allowed, mode |-> gate.mode, reason |-> gate.reason,
   source |-> IF gate.source = None THEN None ELSE <<SourceClassification(gate.source[1])>>]

\* What can be read in a file; which record exactly an output was made of is not in it.
Told(kind, x) ==
  IF kind # "out" THEN x
  ELSE [model |-> x.model, digest |-> x.digest, hw |-> x.hw, status |-> OptimizationStatus(x.gate),
        claim |-> x.claim, points |-> x.points, recommended |-> x.recommended]

----------------------------------------------------------------------------
(* The optimizer *)

Start(p) ==
  /\ optimizer.pc = "idle"
  /\ optimizer' = [IdleOptimizer EXCEPT !.pc = "gate", !.path = p, !.hw = manifest[p].hw]
  /\ UNCHANGED <<manifest, scans, evidence, report, classifier, files>>

PassGate ==
  /\ optimizer.pc = "gate"
  /\ \/ /\ GateRaises(optimizer.path)
        /\ optimizer' = IdleOptimizer
     \/ /\ ~GateRaises(optimizer.path)
        /\ \E d \in Decisions(optimizer.path, manifest[optimizer.path]) :
             optimizer' = [optimizer EXCEPT !.pc = "space", !.gate = <<d>>]
  /\ UNCHANGED <<manifest, scans, evidence, report, classifier, files>>

\* load_stage2_search_space refuses the manifest of a scan that did not succeed.
LoadSpace ==
  /\ optimizer.pc = "space"
  /\ LET content == manifest[optimizer.path]
     IN optimizer' = IF content.scan = "ok" THEN [optimizer EXCEPT !.pc = "digest", !.space = <<content>>]
                     ELSE IdleOptimizer
  /\ UNCHANGED <<manifest, scans, evidence, report, classifier, files>>

TakeDigest ==
  /\ optimizer.pc = "digest"
  /\ optimizer' = [optimizer EXCEPT !.pc = "out",
       !.data = <<Output(optimizer.hw, optimizer.gate[1], optimizer.space[1], manifest[optimizer.path])>>]
  /\ UNCHANGED <<manifest, scans, evidence, report, classifier, files>>

\* The delta and the summary are written if they are asked for.
After(kind) == CASE kind = "out" -> {"delta", "md", "idle"} [] kind = "delta" -> {"md", "idle"} [] kind = "md" -> {"idle"}

Proceed(kind) == \E next \in After(kind) :
  optimizer' = IF next = "idle" THEN IdleOptimizer ELSE [optimizer EXCEPT !.pc = next]

\* Mutated form: what lies there is replaced.
WriteOver(kind) ==
  /\ optimizer.pc = kind
  /\ files' = [files EXCEPT ![optimizer.path][kind] = Whole(Rendered(kind, optimizer.data[1]))]
  /\ Proceed(kind)
  /\ UNCHANGED <<manifest, scans, evidence, report, classifier>>

Same(kind, old, x) == old.state = "whole" /\ Told(kind, old.of[1]) = Told(kind, x)

\* _write_json: what lies there already must read the same.
Write(kind) ==
  /\ optimizer.pc = kind
  /\ LET now == Rendered(kind, optimizer.data[1])
         old == files[optimizer.path][kind]
     IN /\ files' = [files EXCEPT ![optimizer.path][kind] = IF @ = Absent THEN Whole(now) ELSE @]
        /\ IF old = Absent \/ Same(kind, old, now) THEN Proceed(kind) ELSE optimizer' = IdleOptimizer
  /\ UNCHANGED <<manifest, scans, evidence, report, classifier>>

\* A program that dies while it writes leaves a part of the file.
OptimizerDies ==
  /\ optimizer.pc # "idle"
  /\ optimizer' = IdleOptimizer
  /\ \/ UNCHANGED files
     \/ /\ optimizer.pc \in Kinds /\ files[optimizer.path][optimizer.pc] = Absent
        /\ files' = [files EXCEPT ![optimizer.path][optimizer.pc] = Torn]
  /\ UNCHANGED <<manifest, scans, evidence, report, classifier>>

Next ==
  \/ \E p \in Paths, c \in Contents : Rescan(p, c)
  \/ \E e \in Evidence : Probe(e)
  \/ \E P \in SUBSET Paths : StartClassifier(P)
  \/ \E p \in Paths : PredictOne(p)
  \/ OpenReport \/ CloseReport \/ ClassifierDies
  \/ \E p \in Targets : Start(p)
  \/ PassGate \/ LoadSpace \/ TakeDigest
  \/ \E kind \in Kinds : Write(kind)
  \/ OptimizerDies

Spec == Init /\ [][Next]_vars

----------------------------------------------------------------------------
(* Properties *)

Written(p, kind) == files[p][kind].state = "whole"
OutputOf(p) == files[p].out.of[1]

\* Types; an output is open in one of the two modes, or closed.
TypeOK ==
  /\ manifest \in [Paths -> Contents] /\ scans \in 0..MaxScans /\ evidence \subseteq Evidence
  /\ report.status \in {"absent", "torn", "whole"}
  /\ \A p \in Targets : Written(p, "out") =>
       IF OutputOf(p).gate.allowed THEN OutputOf(p).gate.mode \in {"serial", "joint"}
       ELSE OutputOf(p).gate.mode = "fail_closed" /\ OutputOf(p).recommended = None

\* An output that is open rests on a prediction made of exactly the manifest it is about, not of
\* an older one at the same path, nor of one with the same name in another directory.
OpenGateIsClassified ==
  \A p \in Targets : Written(p, "out") /\ OutputOf(p).gate.allowed =>
    OutputOf(p).gate.source[1].seen = OutputOf(p).digest

\* A model without a trained checkpoint, by its manifest or by its trace plan, is never optimized.
UntrainedIsNeverOptimized ==
  \A p \in Targets : Written(p, "out") /\ OutputOf(p).gate.allowed =>
    ~Missing(OutputOf(p).digest.ckpt) /\ ~Missing(PlanOf(OutputOf(p).digest).ckpt)

\* Whatever runs died or were refused in between, a delta or a summary stands beside the output it
\* was rendered from.
ArtifactsAgree ==
  \A p \in Targets, kind \in Kinds : Written(p, kind) =>
    Written(p, "out") /\ files[p][kind].of[1] = Rendered(kind, OutputOf(p))

\* Every skip the scan left that the predictor holds against the whole model has its gate among the
\* claim's blockers, which the bridge collects by a reading of its own.
BlockersAreCarried ==
  \A p \in Targets : Written(p, "out") =>
    LET content == OutputOf(p).digest
        left == {t.name : t \in content.typed} \cup content.legacy
    IN \A s \in Skips(content) :
         s.blocks /\ s.name \in left => BlockerGate(content, s.name) \in OutputOf(p).claim

\* The gate opens only for a trained model, by a prediction made of this very manifest.
GateIsSound == OpenGateIsClassified /\ UntrainedIsNeverOptimized
=============================================================================
