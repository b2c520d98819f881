------------------------- MODULE Stage2GateProofs -------------------------
(***************************************************************************)
(* Proofs about the gate between Stage1 and Stage2.  What the optimizer    *)
(* leaves agrees with itself whenever a scan replaces a manifest; that it  *)
(* rests on a prediction of the very manifest it is about is proved for    *)
(* scans that wait until the other programs are idle, which nothing but    *)
(* the order they are called in ensures.                                   *)
(***************************************************************************)
EXTENDS Stage2Gate, TLAPS

Classes == {"SCAN_FAILED", "SEPARABLE_ACCELERATION", "CO_ACCELERATION_REQUIRED"}

----------------------------------------------------------------------------
(* The inductive invariant, whatever scans overlap *)

GateForm(d) ==
  /\ d.allowed \in BOOLEAN
  /\ d.mode \in IF d.allowed THEN {"serial", "joint"} ELSE {"fail_closed"}

OutputForm(o) == GateForm(o.gate) /\ (~o.gate.allowed => o.recommended = None)

Shapes ==
  /\ manifest \in [Paths -> Contents] /\ scans \in 0..MaxScans /\ evidence \subseteq Evidence
  /\ report.status \in {"absent", "torn", "whole"}
  /\ classifier = [pc |-> classifier.pc, todo |-> classifier.todo, made |-> classifier.made]
  /\ classifier.todo \subseteq Paths /\ (classifier.pc # "reading" => classifier.todo = {})
  /\ optimizer = [pc |-> optimizer.pc, path |-> optimizer.path, hw |-> optimizer.hw, gate |-> optimizer.gate,
                  space |-> optimizer.space, data |-> optimizer.data]
  /\ optimizer.pc # "idle" => optimizer.path \in Targets
  /\ DOMAIN files = Targets /\ \A p \in Targets : DOMAIN files[p] = Kinds

Classed ==
  /\ \A r \in report.records : r.class \in Classes
  /\ classifier.pc = "writing" => \A r \in classifier.made : r.class \in Classes

\* The part that is about one target's files
FilesAgree(p) ==
  /\ Written(p, "out") => OutputForm(OutputOf(p))
  /\ \A kind \in Kinds : Written(p, kind) =>
       Written(p, "out") /\ files[p][kind].of[1] = Rendered(kind, OutputOf(p))

Formed ==
  /\ optimizer.pc \in {"space", "digest"} => GateForm(optimizer.gate[1])
  /\ optimizer.pc \in Kinds => OutputForm(optimizer.data[1])
  /\ optimizer.pc \in {"delta", "md"} => Same("out", files[optimizer.path].out, optimizer.data[1])

FormInv == Shapes /\ Classed /\ Formed /\ \A p \in Targets : FilesAgree(p)

----------------------------------------------------------------------------
(* The inductive invariant where no scan overlaps the other programs *)

RecordSound(r) ==
  /\ r.seen = r.digest /\ r.ckpt = r.seen.ckpt
  /\ r.class # "SCAN_FAILED" => ~Missing(PlanOf(r.seen).ckpt)

GateSoundFor(d, content) ==
  d.allowed => d.source[1].seen = content /\ ~Missing(content.ckpt) /\ ~Missing(PlanOf(content).ckpt)

OutputSound(o) == GateSoundFor(o.gate, o.digest) /\ o.claim = ClaimBlockers(o.digest) /\ o.digest \in Contents

MadeSound(m) == m.seen = manifest[m.path] /\ \E e : m.base = Predict(m.seen, e)

PredictionsSound ==
  /\ \A r \in report.records : RecordSound(r)
  /\ classifier.pc = "reading" => \A m \in classifier.made : MadeSound(m)
  /\ classifier.pc = "writing" => \A r \in classifier.made : RecordSound(r)

OptimizerSound ==
  /\ optimizer.pc \in {"space", "digest"} => GateSoundFor(optimizer.gate[1], manifest[optimizer.path])
  /\ optimizer.pc = "digest" => optimizer.space[1] = manifest[optimizer.path]
  /\ optimizer.pc \in Kinds => OutputSound(optimizer.data[1])

FilesSound == \A p \in Targets : Written(p, "out") => OutputSound(OutputOf(p))

SoundInv == PredictionsSound /\ OptimizerSound /\ FilesSound

----------------------------------------------------------------------------
(* Facts about the rules *)

\* A class is one of three.
LEMMA ClassOfThree == \A base : AccelerationClass(base) \in Classes
  BY DEF AccelerationClass, Classes

\* A prediction repeats the checkpoint of its manifest and of that manifest's trace plan.
LEMMA PredictionRepeats ==
  ASSUME NEW man, NEW e
  PROVE Predict(man, e).ckpt = man.ckpt /\ Predict(man, e).planCkpt = PlanOf(man).ckpt
  <1>1. \E verdict, scope, level, blockers, steps :
          Predict(man, e) = Report(man, verdict, scope, level, blockers, steps)
    BY DEF Predict
  <1> QED BY <1>1 DEF Report

\* What is not a failed scan has a plan whose checkpoint is not missing.
LEMMA ClassNeedsPlan ==
  ASSUME NEW base, AccelerationClass(base) # "SCAN_FAILED"
  PROVE ~Missing(base.planCkpt)
  BY DEF AccelerationClass

\* A record is about the manifest its prediction was made of, if that one was still there.
LEMMA RecordIsSound ==
  ASSUME NEW m, MadeSound(m)
  PROVE RecordSound(ModelRecord(m, manifest[m.path]))
  <1> PICK e : m.base = Predict(m.seen, e) BY DEF MadeSound
  <1>1. m.seen = manifest[m.path] BY DEF MadeSound
  <1>2. m.base.ckpt = m.seen.ckpt /\ m.base.planCkpt = PlanOf(m.seen).ckpt BY PredictionRepeats
  <1> DEFINE r == ModelRecord(m, manifest[m.path])
  <1>3. r.seen = m.seen /\ r.digest = manifest[m.path] /\ r.ckpt = m.base.ckpt /\ r.class = AccelerationClass(m.base)
    BY DEF ModelRecord
  <1>4. r.class # "SCAN_FAILED" => ~Missing(PlanOf(r.seen).ckpt) BY <1>2, <1>3, ClassNeedsPlan
  <1> QED BY <1>1, <1>2, <1>3, <1>4 DEF RecordSound

\* What the gate makes of a record has one of its forms, and opens only for a sound prediction.
LEMMA DecideForm ==
  ASSUME NEW r, r.class \in Classes
  PROVE GateForm(Decide(r))
        /\ (Decide(r).allowed => Decide(r).source = <<r>> /\ ~Missing(r.ckpt) /\ r.class # "SCAN_FAILED")
  <1>1. CASE r.class = "SCAN_FAILED" BY <1>1 DEF Decide, Closed, GateForm
  <1>2. CASE r.class # "SCAN_FAILED" /\ Missing(r.ckpt) BY <1>2 DEF Decide, Closed, GateForm
  <1>3. CASE r.class = "SEPARABLE_ACCELERATION" /\ ~Missing(r.ckpt) BY <1>3 DEF Decide, Open, GateForm
  <1>4. CASE r.class = "CO_ACCELERATION_REQUIRED" /\ ~Missing(r.ckpt) BY <1>4 DEF Decide, Open, GateForm
  <1> QED BY <1>1, <1>2, <1>3, <1>4 DEF Classes

\* A decision is closed, or made of a record that matches.
LEMMA DecisionCases ==
  \A p, content : \A d \in Decisions(p, content) :
    \/ ~d.allowed /\ GateForm(d)
    \/ \E r \in report.records : r.digest = content /\ d = Decide(r)
  <1> SUFFICES ASSUME NEW p, NEW content, NEW d \in Decisions(p, content)
               PROVE \/ ~d.allowed /\ GateForm(d)
                     \/ \E r \in report.records : r.digest = content /\ d = Decide(r)
    OBVIOUS
  <1>1. (\E reason, source : d = Closed(reason, source)) \/ \E r \in report.records : r.digest = content /\ d = Decide(r)
    BY DEF Decisions, Matching
  <1>2. \A reason, source : ~Closed(reason, source).allowed /\ GateForm(Closed(reason, source))
    BY DEF Closed, GateForm
  <1> QED BY <1>1, <1>2

\* With the skips a scan can leave, one that blocks has its gate in the claim.
LEMMA BlockersAreClaimed ==
  ASSUME NEW c \in Contents, NEW s \in Skips(c), s.blocks,
         s.name \in {t.name : t \in c.typed} \cup c.legacy
  PROVE BlockerGate(c, s.name) \in ClaimBlockers(c)
  <1>1. CASE c.typed # {}
    <2>1. c.typed = AdapterSkips(c.legacy) BY <1>1, ScanAssumption
    <2>2. PICK t \in c.typed : t.name = s.name
      <3>1. CASE s.name \in c.legacy
        <4>1. [name |-> s.name, kind |-> TypedKind(s.name), says |-> "blocks"] \in c.typed
          BY <2>1, <3>1 DEF AdapterSkips
        <4> QED BY <4>1
      <3> QED BY <3>1
    <2>3. t.says = "blocks" BY <2>1, <2>2 DEF AdapterSkips
    <2>4. s.name \in TypedBlockers(c) BY <2>2, <2>3 DEF TypedBlockers
    <2> QED BY <1>1, <2>4 DEF ClaimBlockers
  <1>2. CASE c.typed = {}
    <2>1. s.name \in c.legacy BY <1>2
    <2>2. c.plan = None
      <3>1. CASE c.typed = AdapterSkips(c.legacy) BY <3>1, <1>2, <2>1 DEF AdapterSkips
      <3> QED BY <3>1, ScanAssumption
    <2>3. CASE s.name # "sparse"
      BY <1>2, <2>1, <2>3 DEF ClaimBlockers, UntypedBlockers
    <2>4. SUFFICES ASSUME s.name = "sparse" PROVE FALSE BY <2>3
    <2>5. s \in {Typed(t) : t \in PlanOf(c).skips} \cup {Untyped(k) : k \in c.legacy}
      BY <1>2 DEF Skips, Behind
    <2>6. CASE s \in {Untyped(k) : k \in c.legacy}
      <3>1. PICK k \in c.legacy : s = Untyped(k) BY <2>6
      <3>2. k = "sparse" BY <2>4, <3>1 DEF Untyped
      <3>3. s.blocks = BlocksByKind("sparse") BY <3>1, <3>2 DEF Untyped
      <3>4. ~BlocksByKind("sparse") BY DEF BlocksByKind
      <3> QED BY <3>3, <3>4
    <2>7. CASE s \in {Typed(t) : t \in PlanOf(c).skips}
      <3>1. PICK t \in LegacyPlan(c).skips : s = Typed(t) BY <2>2, <2>7 DEF PlanOf
      <3>2. LegacyPlan(c).skips = c.typed \cup
              {[name |-> k, kind |-> TypedKind(k),
                says |-> IF k \in {"attention", "routing", "fusion", "other"} THEN "blocks" ELSE "passes"] : k \in c.legacy}
        BY DEF LegacyPlan
      <3>3. PICK k \in c.legacy :
              t = [name |-> k, kind |-> TypedKind(k),
                   says |-> IF k \in {"attention", "routing", "fusion", "other"} THEN "blocks" ELSE "passes"]
        BY <1>2, <3>1, <3>2
      <3>4. k = "sparse" BY <2>4, <3>1, <3>3 DEF Typed
      <3>5. t.says = "passes" BY <3>3, <3>4
      <3> QED BY <3>1, <3>5 DEF Typed
    <2> QED BY <2>5, <2>6, <2>7
  <1> QED BY <1>1, <1>2

\* Outputs that read the same have the same delta and summary.
LEMMA ToldIsEnough ==
  ASSUME NEW x, NEW y, Told("out", x) = Told("out", y), NEW kind \in {"delta", "md"}
  PROVE Rendered(kind, x) = Rendered(kind, y)
  <1>1. x.model = y.model /\ x.hw = y.hw /\ x.recommended = y.recommended
        /\ OptimizationStatus(x.gate) = OptimizationStatus(y.gate)
    BY DEF Told
  <1>2. x.gate.mode = y.gate.mode /\ x.gate.reason = y.gate.reason
    BY <1>1 DEF OptimizationStatus
  <1> QED BY <1>1, <1>2 DEF Rendered

----------------------------------------------------------------------------
(* Whatever scans overlap *)

LEMMA InitForm == Init => FormInv
  <1> SUFFICES ASSUME Init PROVE FormInv OBVIOUS
  <1>1. Shapes BY GateAssumption DEF Init, Shapes, IdleClassifier, IdleOptimizer
  <1>2. Classed BY DEF Init, Classed, IdleClassifier
  <1>3. Formed BY DEF Init, Formed, IdleOptimizer, Kinds
  <1>4. \A p \in Targets : FilesAgree(p) BY DEF Init, FilesAgree, Written, Absent, Kinds
  <1> QED BY <1>1, <1>2, <1>3, <1>4 DEF FormInv

\* The classifier writes records of the three classes, and touches nothing of the optimizer.
LEMMA ClassifierForm ==
  ASSUME FormInv,
         \/ \E P \in SUBSET Paths : StartClassifier(P)
         \/ \E p \in Paths : PredictOne(p)
         \/ OpenReport \/ CloseReport \/ ClassifierDies
  PROVE FormInv'
  <1>1. Shapes /\ Classed BY DEF FormInv
  <1>2. UNCHANGED <<manifest, scans, evidence, optimizer, files>>
    BY DEF StartClassifier, PredictOne, OpenReport, CloseReport, ClassifierDies
  <1>3. Shapes' /\ Classed'
    <2>1. CASE \E P \in SUBSET Paths : StartClassifier(P)
      BY <2>1, <1>1, <1>2 DEF StartClassifier, Shapes, Classed
    <2>2. ASSUME NEW p \in Paths, PredictOne(p) PROVE Shapes' /\ Classed'
      <3>1. classifier.pc = "reading" BY <2>2, <1>1 DEF PredictOne, Shapes
      <3>2. classifier'.pc = classifier.pc /\ classifier'.todo = classifier.todo \ {p}
        BY <2>2, <1>1 DEF PredictOne, Shapes
      <3>3. classifier' = [pc |-> classifier'.pc, todo |-> classifier'.todo, made |-> classifier'.made]
        BY <2>2, <1>1 DEF PredictOne, Shapes
      <3>4. report' = report BY <2>2 DEF PredictOne
      <3>5. Shapes' BY <3>1, <3>2, <3>3, <3>4, <1>1, <1>2 DEF Shapes
      <3>6. Classed' BY <3>1, <3>2, <3>4, <1>1 DEF Classed
      <3> QED BY <3>5, <3>6
    <2>3. CASE OpenReport
      <3>1. classifier'.made = {ModelRecord(m, manifest[m.path]) : m \in classifier.made}
        BY <2>3 DEF OpenReport
      <3>2. \A r \in classifier'.made : r.class \in Classes
        BY <3>1, ClassOfThree DEF ModelRecord
      <3>3. Shapes' BY <2>3, <1>1, <1>2 DEF OpenReport, Shapes
      <3>4. Classed' BY <2>3, <3>2 DEF OpenReport, Classed
      <3> QED BY <3>3, <3>4
    <2>4. CASE CloseReport
      BY <2>4, <1>1, <1>2 DEF CloseReport, Shapes, Classed, IdleClassifier
    <2>5. CASE ClassifierDies
      BY <2>5, <1>1, <1>2 DEF ClassifierDies, Shapes, Classed, IdleClassifier
    <2> QED BY <2>1, <2>2, <2>3, <2>4, <2>5
  <1>4. Formed' BY <1>2 DEF FormInv, Formed
  <1>5. \A p \in Targets : FilesAgree(p)' BY <1>2 DEF FormInv, FilesAgree, Written, OutputOf
  <1> QED BY <1>3, <1>4, <1>5 DEF FormInv

\* Until it writes, the optimizer changes its own record alone.
LEMMA ReadingForm ==
  ASSUME FormInv, (\E p \in Targets : Start(p)) \/ PassGate \/ LoadSpace \/ TakeDigest
  PROVE FormInv'
  <1>1. Shapes /\ Classed /\ Formed BY DEF FormInv
  <1>2. UNCHANGED <<manifest, scans, evidence, report, classifier, files>>
    BY DEF Start, PassGate, LoadSpace, TakeDigest
  <1> DEFINE Shape == optimizer = [pc |-> optimizer.pc, path |-> optimizer.path, hw |-> optimizer.hw,
                  gate |-> optimizer.gate, space |-> optimizer.space, data |-> optimizer.data]
                 /\ (optimizer.pc # "idle" => optimizer.path \in Targets)
             Goal == Shape' /\ Formed'
  <1>3. Goal
    <2>1. ASSUME NEW p \in Targets, Start(p) PROVE Goal
      BY <2>1 DEF Start, IdleOptimizer, Formed, Kinds
    <2>2. CASE PassGate
      <3>1. CASE optimizer' = IdleOptimizer BY <3>1 DEF IdleOptimizer, Formed, Kinds
      <3>2. ASSUME NEW d \in Decisions(optimizer.path, manifest[optimizer.path]),
                   optimizer' = [optimizer EXCEPT !.pc = "space", !.gate = <<d>>]
            PROVE Goal
        <4>1. GateForm(d)
          <5>2. ASSUME NEW r \in report.records, d = Decide(r) PROVE GateForm(d)
            <6>1. r.class \in Classes BY <1>1 DEF Classed
            <6> QED BY <6>1, <5>2, DecideForm
          <5>3. \/ ~d.allowed /\ GateForm(d)
                \/ \E r \in report.records : r.digest = manifest[optimizer.path] /\ d = Decide(r)
            BY DecisionCases
          <5> QED BY <5>2, <5>3
        <4>2. optimizer'.pc = "space" /\ optimizer'.gate[1] = d BY <3>2, <1>1 DEF Shapes
        <4>3. optimizer.pc = "gate" BY <2>2 DEF PassGate
        <4>4. Formed' BY <4>1, <4>2 DEF Formed, Kinds
        <4> QED BY <3>2, <1>1, <4>3, <4>4 DEF Shapes
      <3>3. \/ optimizer' = IdleOptimizer
            \/ \E d \in Decisions(optimizer.path, manifest[optimizer.path]) :
                 optimizer' = [optimizer EXCEPT !.pc = "space", !.gate = <<d>>]
        BY <2>2 DEF PassGate
      <3> HIDE DEF Goal
      <3> QED BY <3>1, <3>2, <3>3
    <2>3. CASE LoadSpace
      <3>1. CASE optimizer' = IdleOptimizer BY <3>1 DEF IdleOptimizer, Formed, Kinds
      <3>2. CASE optimizer' = [optimizer EXCEPT !.pc = "digest", !.space = <<manifest[optimizer.path]>>]
        <4>1. optimizer'.pc = "digest" /\ optimizer'.gate = optimizer.gate BY <3>2, <1>1 DEF Shapes
        <4>2. optimizer.pc = "space" BY <2>3 DEF LoadSpace
        <4>3. Formed' BY <4>1, <4>2, <1>1 DEF Formed, Kinds
        <4> QED BY <3>2, <1>1, <4>2, <4>3 DEF Shapes
      <3>3. \/ optimizer' = IdleOptimizer
            \/ optimizer' = [optimizer EXCEPT !.pc = "digest", !.space = <<manifest[optimizer.path]>>]
        BY <2>3 DEF LoadSpace
      <3> QED BY <3>1, <3>2, <3>3
    <2>4. CASE TakeDigest
      <3> DEFINE o == Output(optimizer.hw, optimizer.gate[1], optimizer.space[1], manifest[optimizer.path])
      <3>1. optimizer.pc = "digest" /\ optimizer' = [optimizer EXCEPT !.pc = "out", !.data = <<o>>]
        BY <2>4 DEF TakeDigest
      <3>2. GateForm(optimizer.gate[1]) BY <3>1, <1>1 DEF Formed
      <3>3. o.gate = optimizer.gate[1] /\ (~o.gate.allowed => o.recommended = None) BY DEF Output
      <3>4. OutputForm(o) BY <3>2, <3>3 DEF OutputForm
      <3> HIDE DEF o
      <3>5. optimizer'.pc = "out" /\ optimizer'.data[1] = o BY <3>1, <1>1 DEF Shapes
      <3>6. Formed' BY <3>4, <3>5 DEF Formed, Kinds
      <3> QED BY <3>1, <1>1, <3>6 DEF Shapes
    <2> QED BY <2>1, <2>2, <2>3, <2>4
  <1>4. Shapes' BY <1>1, <1>2, <1>3 DEF Shapes
  <1>5. Classed' BY <1>1, <1>2 DEF Classed
  <1>6. \A p \in Targets : FilesAgree(p)' BY <1>2 DEF FormInv, FilesAgree, Written, OutputOf
  <1> QED BY <1>3, <1>4, <1>5, <1>6 DEF FormInv

\* One kind of file of one target is written, torn or left as it is.
LEMMA FileStep ==
  ASSUME Shapes, NEW p0 \in Targets, NEW k0 \in Kinds, NEW v,
         files' = [files EXCEPT ![p0][k0] = v]
  PROVE /\ files'[p0][k0] = v
        /\ \A p \in Targets, kind \in Kinds : (p # p0 \/ kind # k0) => files'[p][kind] = files[p][kind]
        /\ DOMAIN files' = Targets /\ \A p \in Targets : DOMAIN files'[p] = Kinds
  BY DEF Shapes

\* What is written next to an output is rendered from it, and never comes first.
LEMMA WriteForm ==
  ASSUME FormInv, NEW kind \in Kinds, Write(kind)
  PROVE FormInv'
  <1>1. Shapes /\ Classed /\ Formed BY DEF FormInv
  <1>2. UNCHANGED <<manifest, scans, evidence, report, classifier>> /\ optimizer.pc = kind BY DEF Write
  <1> DEFINE p0 == optimizer.path
             data == optimizer.data[1]
             now == Whole(Rendered(kind, data))
             old == files[p0][kind]
             same == Same(kind, old, Rendered(kind, data))
  <1>3. p0 \in Targets BY <1>1, <1>2 DEF Shapes, Kinds
  <1>4. files' = [files EXCEPT ![p0][kind] = IF old = Absent THEN now ELSE old]
    <2>1. files' = [files EXCEPT ![p0][kind] = IF @ = Absent THEN now ELSE @] BY DEF Write
    <2> QED BY <2>1
  <1>5. IF old = Absent \/ same THEN Proceed(kind) ELSE optimizer' = IdleOptimizer BY DEF Write
  <1>6. OutputForm(data) BY <1>1, <1>2 DEF Formed
  <1>7. now.state = "whole" /\ now.of[1] = Rendered(kind, data) /\ Absent.state = "absent"
    BY DEF Whole, Absent
  <1>8. FilesAgree(p0) BY <1>3 DEF FormInv
  <1>9. kind \in {"delta", "md"} => Same("out", files[p0].out, data) BY <1>1, <1>2 DEF Formed
  <1>10. kind = "out" => now = Whole(data) BY DEF Rendered
  <1>11. Whole(data).state = "whole" /\ Whole(data).of[1] = data BY DEF Whole
  <1>17. kind = "out" /\ same => Same("out", old, data) BY DEF Rendered
  <1>18. Same("out", Whole(data), data) BY <1>11 DEF Same
  <1> HIDE DEF data, now, p0, same
  <1>12. /\ files'[p0][kind] = IF old = Absent THEN now ELSE old
         /\ \A p \in Targets, k \in Kinds : (p # p0 \/ k # kind) => files'[p][k] = files[p][k]
         /\ DOMAIN files' = Targets /\ \A p \in Targets : DOMAIN files'[p] = Kinds
    <2> PICK v : v = IF old = Absent THEN now ELSE old OBVIOUS
    <2>1. files' = [files EXCEPT ![p0][kind] = v] BY <1>4
    <2> HIDE DEF old
    <2>2. /\ files'[p0][kind] = v
          /\ \A p \in Targets, k \in Kinds : (p # p0 \/ k # kind) => files'[p][k] = files[p][k]
          /\ DOMAIN files' = Targets /\ \A p \in Targets : DOMAIN files'[p] = Kinds
      BY <1>1, <1>3, <2>1 DEF Shapes
    <2> QED BY <2>2
  <1>13. ASSUME NEW p \in Targets PROVE FilesAgree(p)'
    <2>1. CASE p # p0 \/ old # Absent
      <3>1. \A k \in Kinds : files'[p][k] = files[p][k] BY <2>1, <1>12
      <3> QED BY <3>1 DEF FormInv, FilesAgree, Written, OutputOf, Kinds
    <2>2. CASE p = p0 /\ old = Absent /\ kind = "out"
      <3>1. files'[p].out = Whole(data) BY <2>2, <1>10, <1>12
      <3>2. \A k \in Kinds : k # "out" => files'[p][k] = files[p][k] BY <2>2, <1>12
      <3>3. ~Written(p0, "out") BY <2>2, <1>7 DEF Written
      <3>4. \A k \in Kinds : ~Written(p0, k) BY <1>8, <3>3 DEF FilesAgree
      <3>5. \A k \in Kinds : k # "out" => files'[p][k].state # "whole" BY <3>2, <3>4, <2>2 DEF Written
      <3>6. Rendered("out", data) = data BY DEF Rendered
      <3> QED BY <3>1, <3>5, <3>6, <1>6, <1>11 DEF FilesAgree, Written, OutputOf
    <2>3. CASE p = p0 /\ old = Absent /\ kind # "out"
      <3>1. Same("out", files[p0].out, data) BY <2>3, <1>9 DEF Kinds
      <3>2. files'[p0].out = files[p0].out BY <2>3, <1>3, <1>12 DEF Kinds
      <3>3. \A k \in Kinds : k # kind => files'[p0][k] = files[p0][k] BY <1>3, <1>12
      <3>4. files'[p0][kind] = now BY <2>3, <1>12
      <3>5. kind \in {"delta", "md"} BY <2>3 DEF Kinds
      <3>6. files[p0].out.state = "whole" /\ Told("out", files[p0].out.of[1]) = Told("out", data) BY <3>1 DEF Same
      <3>7. Rendered(kind, data) = Rendered(kind, files[p0].out.of[1]) BY <3>5, <3>6, ToldIsEnough
      <3>8. OutputForm(files[p0].out.of[1]) BY <1>8, <3>6 DEF FilesAgree, Written, OutputOf
      <3> QED BY <2>3, <3>2, <3>3, <3>4, <3>6, <3>7, <3>8, <1>7, <1>8 DEF FilesAgree, Written, OutputOf
    <2> QED BY <2>1, <2>2, <2>3 DEF Kinds
  <1>14. \/ optimizer' = IdleOptimizer
         \/ /\ old = Absent \/ same
            /\ \E next \in {"delta", "md"} :
                 optimizer' = [optimizer EXCEPT !.pc = next] /\ (kind = "out" \/ kind = "delta")
    <2>1. CASE old = Absent \/ same
      <3>1. PICK next \in After(kind) : optimizer' = IF next = "idle" THEN IdleOptimizer ELSE [optimizer EXCEPT !.pc = next]
        BY <2>1, <1>5 DEF Proceed
      <3>2. /\ next = "idle" \/ next \in {"delta", "md"}
            /\ next # "idle" => kind \in {"out", "delta"}
        BY <3>1 DEF After, Kinds
      <3> QED BY <2>1, <3>1, <3>2
    <2> QED BY <2>1, <1>5
  <1>15. CASE optimizer' = IdleOptimizer
    <2>1. Shapes' BY <1>1, <1>2, <1>12, <1>15 DEF Shapes, IdleOptimizer
    <2>2. Formed' BY <1>15 DEF Formed, IdleOptimizer, Kinds
    <2>3. Classed' BY <1>1, <1>2 DEF Classed
    <2> QED BY <2>1, <2>2, <2>3, <1>13 DEF FormInv
  <1>16. ASSUME NEW next \in {"delta", "md"}, optimizer' = [optimizer EXCEPT !.pc = next],
                old = Absent \/ same, kind = "out" \/ kind = "delta"
         PROVE FormInv'
    <2>1. optimizer'.pc = next /\ optimizer'.path = p0 /\ optimizer'.data[1] = data
      BY <1>16, <1>1 DEF Shapes, p0, data
    <2>2. Same("out", files'[p0].out, data)
      <3>1. CASE kind = "out"
        <4>1. CASE old = Absent BY <3>1, <4>1, <1>10, <1>12, <1>18
        <4>2. CASE same /\ old # Absent BY <3>1, <4>2, <1>12, <1>17
        <4> QED BY <1>16, <4>1, <4>2
      <3>2. CASE kind = "delta"
        <4>1. files'[p0]["out"] = files[p0]["out"] BY <3>2, <1>3, <1>12 DEF Kinds
        <4> QED BY <3>2, <4>1, <1>9
      <3> QED BY <1>16, <3>1, <3>2
    <2>3. Formed' BY <2>1, <2>2, <1>6 DEF Formed
    <2>4. optimizer' = [pc |-> optimizer'.pc, path |-> optimizer'.path, hw |-> optimizer'.hw, gate |-> optimizer'.gate,
                        space |-> optimizer'.space, data |-> optimizer'.data]
      BY <1>16, <1>1 DEF Shapes
    <2>5. Shapes' BY <1>1, <1>2, <1>3, <1>12, <2>1, <2>4 DEF Shapes
    <2>6. Classed' BY <1>1, <1>2 DEF Classed
    <2> QED BY <2>3, <2>5, <2>6, <1>13 DEF FormInv
  <1> HIDE DEF old
  <1> QED BY <1>14, <1>15, <1>16

\* A program that dies tears at most a file that was not there.
LEMMA DeathForm ==
  ASSUME FormInv, OptimizerDies
  PROVE FormInv'
  <1>1. Shapes /\ Classed BY DEF FormInv
  <1>2. UNCHANGED <<manifest, scans, evidence, report, classifier>> /\ optimizer' = IdleOptimizer
    BY DEF OptimizerDies
  <1>3. Formed' BY <1>2 DEF Formed, IdleOptimizer, Kinds
  <1>4. Classed' BY <1>1, <1>2 DEF Classed
  <1>5. CASE UNCHANGED files
    <2>1. Shapes' BY <1>1, <1>2, <1>5 DEF Shapes, IdleOptimizer
    <2>2. \A p \in Targets : FilesAgree(p)' BY <1>5 DEF FormInv, FilesAgree, Written, OutputOf
    <2> QED BY <2>1, <2>2, <1>3, <1>4 DEF FormInv
  <1>6. ASSUME optimizer.pc \in Kinds, files[optimizer.path][optimizer.pc] = Absent,
               files' = [files EXCEPT ![optimizer.path][optimizer.pc] = Torn]
        PROVE FormInv'
    <2> DEFINE p0 == optimizer.path
               k0 == optimizer.pc
    <2>1. p0 \in Targets BY <1>1, <1>6 DEF Shapes, Kinds
    <2>2. /\ files'[p0][k0] = Torn
          /\ \A p \in Targets, k \in Kinds : (p # p0 \/ k # k0) => files'[p][k] = files[p][k]
          /\ DOMAIN files' = Targets /\ \A p \in Targets : DOMAIN files'[p] = Kinds
      BY <1>1, <1>6, <2>1, FileStep
    <2>3. ~Written(p0, k0) /\ files'[p0][k0].state = "torn" BY <1>6, <2>2 DEF Written, Absent, Torn
    <2>4. k0 \in Kinds /\ "out" \in Kinds BY <1>6 DEF Kinds
    <2> HIDE DEF p0, k0
    <2>5. ASSUME NEW p \in Targets PROVE FilesAgree(p)'
      <3>1. FilesAgree(p) BY DEF FormInv
      <3>2. \A k \in Kinds : files'[p][k] = files[p][k] \/ (p = p0 /\ k = k0) BY <2>2
      <3>3. \A k \in Kinds : Written(p, k)' => Written(p, k) /\ files'[p][k] = files[p][k]
        BY <3>2, <2>3 DEF Written
      <3>4. Written(p, "out") => files'[p]["out"] = files[p]["out"]
        BY <3>2, <2>3, <2>4
      <3> QED BY <3>1, <3>3, <3>4, <2>4 DEF FilesAgree, Written, OutputOf
    <2>6. Shapes' BY <1>1, <1>2, <2>2 DEF Shapes, IdleOptimizer
    <2> QED BY <2>5, <2>6, <1>3, <1>4 DEF FormInv
  <1> QED BY <1>5, <1>6 DEF OptimizerDies

(* One step of any program, scan or death, or a stutter, for the form.     *)
LEMMA StepForm == FormInv /\ [Next]_vars => FormInv'
  <1> SUFFICES ASSUME FormInv, [Next]_vars PROVE FormInv' OBVIOUS
  <1>1. ASSUME NEW p \in Paths, NEW c \in Contents, Rescan(p, c) PROVE FormInv'
    <2>1. UNCHANGED <<evidence, report, classifier, optimizer, files>>
          /\ manifest' = [manifest EXCEPT ![p] = c] /\ scans' = scans + 1 /\ scans < MaxScans
      BY <1>1 DEF Rescan
    <2>2. Shapes' BY <2>1, GateAssumption DEF FormInv, Shapes
    <2>3. Classed' BY <2>1 DEF FormInv, Classed
    <2>4. Formed' BY <2>1 DEF FormInv, Formed
    <2>5. \A q \in Targets : FilesAgree(q)' BY <2>1 DEF FormInv, FilesAgree, Written, OutputOf
    <2> QED BY <2>2, <2>3, <2>4, <2>5 DEF FormInv
  <1>2. ASSUME NEW e \in Evidence, Probe(e) PROVE FormInv'
    <2>1. UNCHANGED <<manifest, scans, report, classifier, optimizer, files>> /\ evidence' = evidence \cup {e}
      BY <1>2 DEF Probe
    <2>2. Shapes' BY <2>1 DEF FormInv, Shapes
    <2>3. Classed' BY <2>1 DEF FormInv, Classed
    <2>4. Formed' BY <2>1 DEF FormInv, Formed
    <2>5. \A q \in Targets : FilesAgree(q)' BY <2>1 DEF FormInv, FilesAgree, Written, OutputOf
    <2> QED BY <2>2, <2>3, <2>4, <2>5 DEF FormInv
  <1>3. CASE UNCHANGED vars
    <2>1. Shapes' BY <1>3 DEF FormInv, Shapes, vars
    <2>2. Classed' BY <1>3 DEF FormInv, Classed, vars
    <2>3. Formed' BY <1>3 DEF FormInv, Formed, vars
    <2>4. \A q \in Targets : FilesAgree(q)' BY <1>3 DEF FormInv, FilesAgree, Written, OutputOf, vars
    <2> QED BY <2>1, <2>2, <2>3, <2>4 DEF FormInv
  <1> QED BY <1>1, <1>2, <1>3, ClassifierForm, ReadingForm, WriteForm, DeathForm DEF Next

\* The shapes and the agreement of the files hold whatever scans overlap the programs.
THEOREM FormInvariance == Spec => []FormInv
  BY InitForm, StepForm, PTL DEF Spec

\* TypeOK: an output that lies there is open in one of the two modes, or closed and without a
\* recommendation; with any scans and any deaths in between.
THEOREM TypeCorrect == Spec => []TypeOK
  <1>1. FormInv => TypeOK
    <2> SUFFICES ASSUME FormInv PROVE TypeOK OBVIOUS
    <2>1. ASSUME NEW p \in Targets, Written(p, "out")
          PROVE IF OutputOf(p).gate.allowed THEN OutputOf(p).gate.mode \in {"serial", "joint"}
                ELSE OutputOf(p).gate.mode = "fail_closed" /\ OutputOf(p).recommended = None
      BY <2>1 DEF FormInv, FilesAgree, OutputForm, GateForm
    <2> QED BY <2>1 DEF FormInv, Shapes, TypeOK
  <1> QED BY <1>1, FormInvariance, PTL

\* ArtifactsAgree: a delta or a summary stands beside the output it was rendered from, whatever
\* runs died or were refused in between and whatever scans overlapped them.
THEOREM FilesStayTogether == Spec => []ArtifactsAgree
  <1>1. FormInv => ArtifactsAgree BY DEF FormInv, FilesAgree, ArtifactsAgree
  <1> QED BY <1>1, FormInvariance, PTL

----------------------------------------------------------------------------
(* Where no scan overlaps the other programs *)

LEMMA InitSound == Init => SoundInv
  BY DEF Init, IdleClassifier, IdleOptimizer, SoundInv, PredictionsSound, OptimizerSound, FilesSound, Written, Absent, Kinds

\* A scan comes only while the others are idle, and then nothing rests on what it replaces.
LEMMA RescanSound ==
  ASSUME RescanDuring = {}, SoundInv, NEW p \in Paths, NEW c \in Contents, Rescan(p, c)
  PROVE SoundInv'
  <1>1. UNCHANGED <<report, classifier, optimizer, files>> /\ classifier.pc = "idle" /\ optimizer.pc = "idle"
    BY DEF Rescan, MayRescan
  <1>2. PredictionsSound' BY <1>1 DEF SoundInv, PredictionsSound
  <1>3. OptimizerSound' BY <1>1 DEF SoundInv, OptimizerSound, Kinds
  <1>4. FilesSound' BY <1>1 DEF SoundInv, FilesSound, Written, OutputOf
  <1> QED BY <1>2, <1>3, <1>4 DEF SoundInv

\* The classifier digests the manifests it predicted from.
LEMMA ClassifierSound ==
  ASSUME FormInv, SoundInv,
         \/ \E P \in SUBSET Paths : StartClassifier(P)
         \/ \E p \in Paths : PredictOne(p)
         \/ OpenReport \/ CloseReport \/ ClassifierDies
  PROVE SoundInv'
  <1>1. UNCHANGED <<manifest, optimizer, files>>
    BY DEF StartClassifier, PredictOne, OpenReport, CloseReport, ClassifierDies
  <1>2. OptimizerSound' BY <1>1 DEF SoundInv, OptimizerSound
  <1>3. FilesSound' BY <1>1 DEF SoundInv, FilesSound, Written, OutputOf
  <1>4. PredictionsSound'
    <2>1. CASE \E P \in SUBSET Paths : StartClassifier(P)
      BY <2>1 DEF StartClassifier, SoundInv, PredictionsSound
    <2>2. ASSUME NEW p \in Paths, PredictOne(p) PROVE PredictionsSound'
      <3> PICK m0 : m0 = [path |-> p, seen |-> manifest[p], base |-> Predict(manifest[p], evidence)] OBVIOUS
      <3>1. classifier.pc = "reading" BY <2>2 DEF PredictOne, FormInv, Shapes
      <3>2. classifier'.pc = "reading" /\ classifier'.made = classifier.made \cup {m0}
        BY <2>2, <3>1 DEF PredictOne, FormInv, Shapes
      <3>3. \A m \in classifier.made : MadeSound(m)' BY <3>1, <1>1 DEF SoundInv, PredictionsSound, MadeSound
      <3>4. m0.path = p /\ m0.seen = manifest[p] /\ m0.base = Predict(manifest[p], evidence) OBVIOUS
      <3>5. MadeSound(m0)' BY <3>4, <1>1 DEF MadeSound
      <3>6. report' = report BY <2>2 DEF PredictOne
      <3> QED BY <3>2, <3>3, <3>5, <3>6 DEF SoundInv, PredictionsSound
    <2>3. CASE OpenReport
      <3>1. classifier.pc = "reading" BY <2>3 DEF OpenReport
      <3>2. classifier'.made = {ModelRecord(m, manifest[m.path]) : m \in classifier.made}
            /\ classifier'.pc = "writing" /\ report'.records = {}
        BY <2>3 DEF OpenReport
      <3>3. \A r \in classifier'.made : RecordSound(r)
        BY <3>1, <3>2, RecordIsSound DEF SoundInv, PredictionsSound
      <3> QED BY <3>2, <3>3 DEF PredictionsSound
    <2>4. CASE CloseReport
      BY <2>4 DEF CloseReport, IdleClassifier, SoundInv, PredictionsSound
    <2>5. CASE ClassifierDies
      BY <2>5 DEF ClassifierDies, IdleClassifier, SoundInv, PredictionsSound
    <2> QED BY <2>1, <2>2, <2>3, <2>4, <2>5
  <1> QED BY <1>2, <1>3, <1>4 DEF SoundInv

\* The gate, the space and the digest are taken of one manifest.
LEMMA ReadingSound ==
  ASSUME FormInv, SoundInv, (\E p \in Targets : Start(p)) \/ PassGate \/ LoadSpace \/ TakeDigest
  PROVE SoundInv'
  <1>1. UNCHANGED <<manifest, report, classifier, files>>
    BY DEF Start, PassGate, LoadSpace, TakeDigest
  <1>2. PredictionsSound' BY <1>1 DEF SoundInv, PredictionsSound, MadeSound
  <1>3. FilesSound' BY <1>1 DEF SoundInv, FilesSound, Written, OutputOf
  <1>4. Shapes /\ Classed BY DEF FormInv
  <1>5. OptimizerSound BY DEF SoundInv
  <1>6. OptimizerSound'
    <2>1. ASSUME NEW p \in Targets, Start(p) PROVE OptimizerSound'
      BY <2>1 DEF Start, IdleOptimizer, OptimizerSound, Kinds
    <2>2. CASE optimizer' = IdleOptimizer BY <2>2 DEF IdleOptimizer, OptimizerSound, Kinds
    <2>3. CASE PassGate
      <3>1. ASSUME NEW d \in Decisions(optimizer.path, manifest[optimizer.path]),
                   optimizer' = [optimizer EXCEPT !.pc = "space", !.gate = <<d>>]
            PROVE OptimizerSound'
        <4>1. GateSoundFor(d, manifest[optimizer.path])
          <5>1. SUFFICES ASSUME d.allowed PROVE GateSoundFor(d, manifest[optimizer.path]) BY DEF GateSoundFor
          <5>2. PICK r \in report.records : r.digest = manifest[optimizer.path] /\ d = Decide(r)
            BY <5>1, DecisionCases
          <5>3. r.class \in Classes /\ RecordSound(r) BY <1>4 DEF Classed, SoundInv, PredictionsSound
          <5>4. d.source = <<r>> /\ ~Missing(r.ckpt) /\ r.class # "SCAN_FAILED" BY <5>1, <5>2, <5>3, DecideForm
          <5> QED BY <5>2, <5>3, <5>4 DEF RecordSound, GateSoundFor
        <4>2. optimizer'.pc = "space" /\ optimizer'.gate[1] = d /\ optimizer'.path = optimizer.path
          BY <3>1, <1>4 DEF Shapes
        <4> QED BY <4>1, <4>2, <1>1 DEF OptimizerSound, Kinds
      <3>2. \/ optimizer' = IdleOptimizer
            \/ \E d \in Decisions(optimizer.path, manifest[optimizer.path]) :
                 optimizer' = [optimizer EXCEPT !.pc = "space", !.gate = <<d>>]
        BY <2>3 DEF PassGate
      <3> QED BY <2>2, <3>1, <3>2
    <2>4. CASE LoadSpace
      <3>1. CASE optimizer' = [optimizer EXCEPT !.pc = "digest", !.space = <<manifest[optimizer.path]>>]
        <4>1. /\ optimizer'.pc = "digest" /\ optimizer'.gate = optimizer.gate /\ optimizer'.path = optimizer.path
              /\ optimizer'.space[1] = manifest[optimizer.path]
          BY <3>1, <1>4 DEF Shapes
        <4>2. optimizer.pc = "space" BY <2>4 DEF LoadSpace
        <4> QED BY <4>1, <4>2, <1>1, <1>5 DEF OptimizerSound, Kinds
      <3>2. \/ optimizer' = IdleOptimizer
            \/ optimizer' = [optimizer EXCEPT !.pc = "digest", !.space = <<manifest[optimizer.path]>>]
        BY <2>4 DEF LoadSpace
      <3> QED BY <2>2, <3>1, <3>2
    <2>5. CASE TakeDigest
      <3> DEFINE content == manifest[optimizer.path]
                 o == Output(optimizer.hw, optimizer.gate[1], optimizer.space[1], content)
      <3>1. optimizer.pc = "digest" /\ optimizer' = [optimizer EXCEPT !.pc = "out", !.data = <<o>>]
        BY <2>5 DEF TakeDigest
      <3>2. GateSoundFor(optimizer.gate[1], content) /\ optimizer.space[1] = content
        BY <3>1, <1>5 DEF OptimizerSound
      <3>3. content \in Contents
        <4>1. optimizer.path \in Targets BY <3>1, <1>4 DEF Shapes
        <4>2. optimizer.path \in Paths BY <4>1, GateAssumption
        <4> QED BY <4>2, <1>4 DEF Shapes
      <3>4. o.gate = optimizer.gate[1] /\ o.digest = content /\ o.claim = ClaimBlockers(optimizer.space[1])
        BY DEF Output
      <3> HIDE DEF o, content
      <3>5. OutputSound(o) BY <3>2, <3>3, <3>4 DEF OutputSound
      <3>6. optimizer'.pc = "out" /\ optimizer'.data[1] = o BY <3>1, <1>4 DEF Shapes
      <3> QED BY <3>5, <3>6 DEF OptimizerSound, Kinds
    <2> QED BY <2>1, <2>3, <2>4, <2>5
  <1> QED BY <1>2, <1>3, <1>6 DEF SoundInv

\* An output is written as it was built.
LEMMA WriteSound ==
  ASSUME FormInv, SoundInv, NEW kind \in Kinds, Write(kind)
  PROVE SoundInv'
  <1>1. Shapes BY DEF FormInv
  <1>2. UNCHANGED <<manifest, report, classifier>> /\ optimizer.pc = kind BY DEF Write
  <1>3. PredictionsSound' BY <1>2 DEF SoundInv, PredictionsSound, MadeSound
  <1> DEFINE p0 == optimizer.path
             data == optimizer.data[1]
  <1>4. OutputSound(data) BY <1>2 DEF SoundInv, OptimizerSound
  <1>5. OptimizerSound'
    <2>1. optimizer' = IdleOptimizer \/ \E next \in {"delta", "md"} : optimizer' = [optimizer EXCEPT !.pc = next]
      BY DEF Write, Proceed, After, Kinds
    <2>2. CASE optimizer' = IdleOptimizer BY <2>2 DEF IdleOptimizer, OptimizerSound, Kinds
    <2>3. ASSUME NEW next \in {"delta", "md"}, optimizer' = [optimizer EXCEPT !.pc = next]
          PROVE OptimizerSound'
      <3>1. optimizer'.pc = next /\ optimizer'.data[1] = data BY <2>3, <1>1 DEF Shapes
      <3> QED BY <3>1, <1>4 DEF OptimizerSound, Kinds
    <2> QED BY <2>1, <2>2, <2>3
  <1>6. p0 \in Targets BY <1>1, <1>2 DEF Shapes, Kinds
  <1>7. \A p \in Targets : files'[p].out = files[p].out \/ files'[p].out = Whole(data)
    <2>1. files' = [files EXCEPT ![p0][kind] = IF @ = Absent THEN Whole(Rendered(kind, data)) ELSE @]
      BY <1>2 DEF Write
    <2>2. \A p \in Targets : files'[p].out = files[p].out
            \/ (kind = "out" /\ files'[p].out = Whole(Rendered(kind, data)))
      BY <2>1, <1>1, <1>6 DEF Shapes, Kinds
    <2>3. Rendered("out", data) = data BY DEF Rendered
    <2> QED BY <2>2, <2>3
  <1>8. Whole(data).state = "whole" /\ Whole(data).of[1] = data BY DEF Whole
  <1> HIDE DEF data, p0
  <1>9. FilesSound' BY <1>4, <1>7, <1>8 DEF SoundInv, FilesSound, Written, OutputOf
  <1> QED BY <1>3, <1>5, <1>9 DEF SoundInv

\* A program that dies adds no output.
LEMMA DeathSound ==
  ASSUME FormInv, SoundInv, OptimizerDies
  PROVE SoundInv'
  <1>1. Shapes BY DEF FormInv
  <1>2. UNCHANGED <<manifest, report, classifier>> /\ optimizer' = IdleOptimizer BY DEF OptimizerDies
  <1>3. PredictionsSound' BY <1>2 DEF SoundInv, PredictionsSound, MadeSound
  <1>4. OptimizerSound' BY <1>2 DEF IdleOptimizer, OptimizerSound, Kinds
  <1>5. \A p \in Targets : files'[p].out = files[p].out \/ files'[p].out = Torn
    <2>1. CASE UNCHANGED files BY <2>1
    <2>2. CASE optimizer.pc \in Kinds /\ files' = [files EXCEPT ![optimizer.path][optimizer.pc] = Torn]
      <3>1. optimizer.path \in Targets BY <1>1, <2>2 DEF Shapes, Kinds
      <3> QED BY <1>1, <2>2, <3>1 DEF Shapes, Kinds
    <2> QED BY <2>1, <2>2 DEF OptimizerDies
  <1>6. Torn.state # "whole" BY DEF Torn
  <1>7. FilesSound' BY <1>5, <1>6 DEF SoundInv, FilesSound, Written, OutputOf
  <1> QED BY <1>3, <1>4, <1>7 DEF SoundInv

(* The same for what the outputs claim.                                    *)
LEMMA StepSound ==
  ASSUME RescanDuring = {}
  PROVE FormInv /\ SoundInv /\ [Next]_vars => SoundInv'
  <1> SUFFICES ASSUME FormInv, SoundInv, [Next]_vars PROVE SoundInv' OBVIOUS
  <1>1. ASSUME NEW e \in Evidence, Probe(e) PROVE SoundInv'
    <2>1. UNCHANGED <<manifest, report, classifier, optimizer, files>> BY <1>1 DEF Probe
    <2>2. PredictionsSound' BY <2>1 DEF SoundInv, PredictionsSound, MadeSound
    <2>3. OptimizerSound' BY <2>1 DEF SoundInv, OptimizerSound
    <2>4. FilesSound' BY <2>1 DEF SoundInv, FilesSound, Written, OutputOf
    <2> QED BY <2>2, <2>3, <2>4 DEF SoundInv
  <1>2. CASE UNCHANGED vars
    <2>2. PredictionsSound' BY <1>2 DEF SoundInv, PredictionsSound, MadeSound, vars
    <2>3. OptimizerSound' BY <1>2 DEF SoundInv, OptimizerSound, vars
    <2>4. FilesSound' BY <1>2 DEF SoundInv, FilesSound, Written, OutputOf, vars
    <2> QED BY <2>2, <2>3, <2>4 DEF SoundInv
  <1> QED BY <1>1, <1>2, RescanSound, ClassifierSound, ReadingSound, WriteSound, DeathSound DEF Next

\* Where no scan overlaps the classifier or the optimizer, SoundInv holds beside FormInv.
THEOREM SoundInvariance == ASSUME RescanDuring = {} PROVE Spec => []SoundInv
  <1>1. FormInv /\ SoundInv /\ [Next]_vars => SoundInv' BY StepSound
  <1> QED BY <1>1, InitSound, FormInvariance, PTL DEF Spec

\* GateIsSound: an open output rests on a prediction of exactly the manifest it is about, and that
\* manifest and its trace plan have a trained checkpoint.
THEOREM GateSound == ASSUME RescanDuring = {} PROVE Spec => []GateIsSound
  <1>1. SoundInv => GateIsSound
    BY DEF SoundInv, FilesSound, OutputSound, GateSoundFor, GateIsSound, OpenGateIsClassified, UntrainedIsNeverOptimized
  <1> QED BY <1>1, SoundInvariance, PTL

\* BlockersAreCarried: a skip that the scan left and that the predictor holds against the whole model
\* has its gate among the blockers of the claim.
THEOREM BlockersCarried == ASSUME RescanDuring = {} PROVE Spec => []BlockersAreCarried
  <1>1. SoundInv => BlockersAreCarried
    <2> SUFFICES ASSUME SoundInv, NEW p \in Targets, Written(p, "out"),
                        NEW s \in Skips(OutputOf(p).digest), s.blocks,
                        s.name \in {t.name : t \in OutputOf(p).digest.typed} \cup OutputOf(p).digest.legacy
                 PROVE BlockerGate(OutputOf(p).digest, s.name) \in OutputOf(p).claim
      BY DEF BlockersAreCarried
    <2>1. OutputOf(p).claim = ClaimBlockers(OutputOf(p).digest) /\ OutputOf(p).digest \in Contents
      BY DEF SoundInv, FilesSound, OutputSound
    <2> QED BY <2>1, BlockersAreClaimed
  <1> QED BY <1>1, SoundInvariance, PTL

=============================================================================
