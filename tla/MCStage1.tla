------------------------------- MODULE MCStage1 -------------------------------
(* Stage1 on small instances: a history looks at the anchors a runner measures *)
(* and the reports made of them (AnchorProbe), at a scan on its way to a plan  *)
(* (SearchSpace), or at the reports of the coupling predictor                  *)
(* (CouplingReports).                                                          *)
EXTENDS AnchorProbe, CouplingReports

VARIABLES
  subject,                                            \* "anchors", "space" or "coupling"
  network, hw, dryRun, scanned, space, plan, phase    \* those of SearchSpace

----------------------------------------------------------------------------
(* Anchors: two widths of one probe and one of another, measured as far as  *)
(* the reports can be told whole.  The default arm fails in the first cell  *)
(* of the first run only, is slow in its third only, and no tuning fails in *)
(* the last cell; runs that are started again and the second probe measure one latency only; a       *)
(* tuning that fails without a crash leaves something in the first cell     *)
(* only.  Nothing reads the report, so a history ends with it.              *)
At(p, b, l, q) == [probe |-> p, batch |-> b, label |-> l, precision |-> q]
FiveCells == <<At("conv", 1, 1, "fp16"), At("conv", 1, 1, "int8"), At("conv", 1, 2, "fp16"),
               At("deconv", 1, 1, "fp16"), At("deconv", 1, 1, "int8")>>

Small ==
  /\ \A s \in {cells, file.cells} : \A k \in DOMAIN s :
       /\ k \notin {1, 3} \/ restarts > 0 => s[k]["default"] = 1
       /\ k = 1 => s[k]["default"] <= 1
       /\ k = 3 => s[k]["default"] > 0
       /\ k = 5 => s[k]["own"] = 1
       /\ k > 3 \/ restarts > 0 => \A arm \in ArmsOf : s[k][arm] <= 1
  /\ \A k \in DOMAIN cells \ {1} : cells[k]["own"] = 0 => restarts \notin work[Plan[k]]
Last ==
  /\ report.phase = "idle" \/ UNCHANGED <<cells, pc, restarts, work, file>>
  /\ pc = "publishing" => UNCHANGED report

----------------------------------------------------------------------------
(* Networks.  Widths are counted in units of the packing factor.             *)
Group(bucket, stage, width, g) == [bucket |-> bucket, stage |-> stage, width |-> width, g |-> g]

\* three backbone stages; the first one of any one or two groups
Firsts == {{Group("backbone", "s0", w, g)} : w \in {4, 6, 8, 12, 16}, g \in {1, 2, 3, 4}}
Pairs == {{Group("backbone", "s0", w, g), Group("backbone", "s0", v, h)} :
            w \in {8, 12}, v \in {4, 6, 12}, g \in {1, 2, 4}, h \in {2, 3}}
Seconds == {{Group("backbone", "s1", 8, g)} : g \in {1, 2, 4}}
Thirds == {{Group("backbone", "s2", 6, 1)}, {Group("backbone", "s2", 12, 4)}}
Others == {{}, {Group("heads", "none", 4, 1)}}
ThreeStages == {f \cup s \cup t \cup r : f \in Firsts \cup Pairs, s \in Seconds, t \in Thirds, r \in Others}

\* wide knobs, so that the nine anchors are not all the roles ask for
WideStages == {{Group("backbone", "s0", w, g), Group("backbone", "s0", v, 1)} :
                 w \in 16..32, v \in {4, 8, 16}, g \in {2, 4}}

MCNetworks == ThreeStages \cup WideStages
MCHardware == {[int8Align |-> 2, pack |-> 1, legalBits |-> {"fp16", "int8"}],
               [int8Align |-> 2, pack |-> 2, legalBits |-> {"fp16", "int8"}],
               [int8Align |-> 1, pack |-> 1, legalBits |-> {"fp16"}]}

Space == INSTANCE SearchSpace WITH
  Networks <- MCNetworks, Hardware <- MCHardware, manifest <- scanned
ASSUME SpaceAssumption == Space!SpaceAssumption

----------------------------------------------------------------------------
(* Manifests: scanned ones, whose typed skips the adapter made, and old ones. *)
Models == {"codriving", "fcooper", "attfuse", "v2xvit", "pyramid", "where2comm", "other"}
Left == {{}, {"maxfusion"}, {"attention"}, {"sparse"}, {"routing", "sparse"}, {"other"}, {"fusion", "maxfusion"}}

DetectorPlan(ckpt, confidence, review, skips) ==
  <<[ckpt |-> ckpt, manual |-> FALSE, review |-> review, confidence |-> confidence, skips |-> skips]>>

Item(name, kind, says) == [name |-> name, kind |-> kind, says |-> says]

\* the plan graph_scan writes when building one failed
Unbuilt == <<[ckpt |-> "unsaid", manual |-> TRUE, review |-> TRUE, confidence |-> "low", skips |-> {}]>>

Plans == {<<>>, Unbuilt, DetectorPlan("ok", "high", FALSE, {}),
          DetectorPlan("ok", "low", TRUE, {Item("fusion", "fusion", "blocks")}),
          DetectorPlan("ok", "medium", TRUE, {Item("maxfusion", "maxfusion", "blocks")}),
          DetectorPlan("missing_architecture_scan_only", "medium", TRUE, {Item("sparse", "custom", "passes")})}

Manifest(m, c, p, l, typed) == [model |-> m, ckpt |-> c, plan |-> p, legacy |-> l, typed |-> typed]
Scanned == {Manifest(m, c, p, l, AdapterSkips(l)) :
              m \in Models, c \in {"ok", "missing_architecture_scan_only"}, p \in Plans, l \in Left}
Old == {Manifest(m, c, <<>>, l, {}) : m \in Models, c \in {"ok", "missing"}, l \in Left}
Declared == {Manifest(m, "ok", p, {}, {Item(k, k, s)}) :
               m \in Models, p \in Plans, k \in {"fusion", "maxfusion"}, s \in {"passes", "unsaid"}}
MCManifests == Scanned \cup Old \cup Declared
MCEvidence == {"dense_core", "pqs", "maxfusion_bound", "basebev_coupling", "s3_pyramid", "s3_v2xvit"}

----------------------------------------------------------------------------
spaceVars == <<network, hw, dryRun, scanned, space, plan, phase>>

NoSpace == network = {} /\ hw = {} /\ dryRun = "ok" /\ scanned = <<>> /\ space = <<>> /\ plan = <<>> /\ phase = "scan"
NoCoupling == manifest = Manifest("other", "ok", <<>>, {}, {}) /\ CouplingInit

MCInit ==
  \/ subject = "anchors" /\ Init /\ NoSpace /\ NoCoupling
  \/ subject = "space" /\ Space!Init /\ Init /\ NoCoupling
  \/ subject = "coupling" /\ CouplingInit /\ Init /\ NoSpace
MCNext ==
  \/ subject = "anchors" /\ Next /\ Small' /\ Last /\ UNCHANGED <<subject, spaceVars, couplingVars>>
  \/ subject = "space" /\ Space!Next /\ UNCHANGED <<subject, vars, couplingVars>>
  \/ subject = "coupling" /\ CouplingNext /\ UNCHANGED <<subject, vars, spaceVars>>
MCSpec == MCInit /\ [][MCNext]_<<subject, vars, spaceVars, couplingVars>>

----------------------------------------------------------------------------
(* The types of scans, spaces and reports. *)
TypesOK ==
  /\ TypeOK
  /\ subject = "space" => Space!TypeOK
  /\ CouplingTypeOK

(* Anchors stay in the range of every member of their knob and include its    *)
(* full width; int8 is offered where every member can be packed, and wherever *)
(* one width can; a serial search has no trap; no width is lost in the plan.  *)
SpaceIsBuildable == subject = "space" => Space!SpaceIsBuildable
=============================================================================
