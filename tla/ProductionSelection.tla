--------------------------- MODULE ProductionSelection ---------------------------
(* One selection of the two-model production search                          *)
(* (framework/stage5/production_search_v1.py, run by                          *)
(* scripts/reproduce/stage5_selection.py): the training contract, the         *)
(* calibration split, the candidate manifest, the frontier-and-diversity      *)
(* ranking, and the three artifacts of the request.  The tool is run again    *)
(* and again on a measurement file that grows with every answered request.    *)
(*                                                                           *)
(* A group stands for the four rows of one width: two dispatch keys, two q   *)
(* modes.  The fitted heads are a table of forecasts that depends on the      *)
(* groups trained on; widths and uncertainties are small integers.            *)
EXTENDS Integers, FiniteSets, FiniteSetsExt, Sequences, SequencesExt

CONSTANTS
    Groups,         \* group ids, numbers: their order is that of the ids
    ModelOf,        \* model of each group
    Target,         \* target model of the search task
    Initial,        \* groups of the initial cold start, which the closure counts
    Holdout,        \* groups of the closure's frozen holdout
    Registries,     \* candidate registries: group -> kind of source
    Budget,         \* groups per request (batch_size // 4)
    Width,          \* feature of each group
    Uncertainty,    \* relative width of its prediction intervals
    HashOrder,      \* place of each group in the order of the seeded hashes
    Forecast,       \* trained groups -> arm of a group -> objective vector
    Runs, Roots     \* runs of the tool, output roots they may be given

ASSUME GroupAssumption ==
    /\ Groups \subseteq Nat /\ IsFiniteSet(Groups) /\ Initial \subseteq Groups /\ Holdout \subseteq Groups
    /\ Budget \in Nat \ {0}
    /\ HashOrder \in [Groups -> Nat] /\ \A g, h \in Groups : HashOrder[g] = HashOrder[h] => g = h
    /\ Registries \subseteq [Groups -> {"absent", "ready", "blocked", "single", "graphless", "leaky", "foreign"}]

VARIABLES
    file,   \* measurements: group -> "none", "success", "failed", "invalid"
    run,    \* what each run is doing, and what it selected from which file
    artifacts     \* what lies in each output root: artifact -> selection

productionVars == <<file, run, artifacts>>

-------------------------------------------------------------------------------
Dispatches == {"tvm_auto", "trt_engine"}
QModes == {"fp16", "int8"}
ArtifactNames == <<"selected_ids", "measurement_request", "manifest">>
Present(f) == {g \in Groups : f[g] # "none"}
(* Groups whose four rows are all finite successes: the value training view. *)
Trained(f) == {g \in Groups : f[g] = "success"}

(* Mutated form: the closure's cold start rows may be missing. *)
ContractForgets(f) ==
    /\ \A g \in Groups : f[g] # "invalid"
    /\ Trained(f) # {}
(* validate_stage5_contract: whole groups with supported statuses and graphs *)
(* (an "invalid" one is incomplete, unsupported, of another source, or has   *)
(* none), and the closure's number of cold start rows.                       *)
Contract(f) ==
    /\ \A g \in Groups : f[g] # "invalid"
    /\ Trained(f) # {}
    /\ Cardinality(Present(f) \cap Initial) = Cardinality(Initial)

OfModel(S, m) == {g \in S : ModelOf[g] = m}
(* _stable_calibration_groups: the first fifth, rounded up, by hash. *)
Calibration(S) ==
    UNION {LET own == OfModel(S, m)
               count == (Cardinality(own) + 4) \div 5
           IN  {g \in own : Cardinality({h \in own : HashOrder[h] < HashOrder[g]}) < count} :
           m \in {ModelOf[g] : g \in S}}
(* ... which needs two groups of every model that was trained on. *)
Fittable(f) ==
    \A m \in {ModelOf[g] : g \in Trained(f)} : Cardinality(OfModel(Trained(f), m)) >= 2

(* A source whose identity, contract or q modes do not fit ends the run ... *)
RegistryAdmitted(r) == \A g \in Groups : r[g] # "foreign"
(* ... and so does one that shows a label before its measurement. *)
LabelsHidden(r) == \A g \in Groups : r[g] # "leaky"
Ready == {"ready", "single", "graphless"}
(* build_candidate_manifest. *)
Candidates(f, r) ==
    {g \in Groups : r[g] \in Ready} \ (Present(f) \cup Holdout)

(* Graph features are looked at where they are used, in candidates only. *)
GraphsComplete(f, r) == \A g \in Candidates(f, r) : r[g] # "graphless"

(* predict_candidate_rows with the heads fitted on the training view. *)
PredictedRow(f, g, d, q) == Forecast[Cardinality(Trained(f))][g][d][q]
Dominates(a, b) == /\ \A i \in 1..3 : a[i] <= b[i]
                   /\ \E i \in 1..3 : a[i] < b[i]
(* Rows of a group on the predicted frontier of their model and profile. *)
FrontierHits(f, C, g) ==
    Cardinality({a \in Dispatches \X QModes :
        ~\E h \in OfModel(C, ModelOf[g]), q \in QModes :
            Dominates(PredictedRow(f, h, a[1], q), PredictedRow(f, g, a[1], a[2]))})
Distance(a, b) == IF a < b THEN b - a ELSE a - b
(* Distance to the nearest measured group of the model, successful or not. *)
Diversity(f, g) ==
    LET known == OfModel(Present(f), ModelOf[g])
    IN  IF known = {} THEN 0 ELSE Min({Distance(Width[g], Width[h]) : h \in known})

(* g is ranked before h. *)
Before(f, C, g, h) ==
    LET key(x) == <<-FrontierHits(f, C, x), -Diversity(f, x), -Uncertainty[x], x>>
    IN  \E i \in 1..4 : /\ key(g)[i] < key(h)[i]
                        /\ \A j \in 1..(i - 1) : key(g)[j] = key(h)[j]
(* Every candidate must have all four arms, those of the other model too. *)
Selectable(f, r) ==
    /\ \A g \in Candidates(f, r) : r[g] # "single"
    /\ Cardinality(OfModel(Candidates(f, r), Target)) >= Budget
(* select_predicted_frontier_diversity with the budget of the task's model. *)
SelectedGroups(f, r) ==
    LET C == Candidates(f, r)
        own == OfModel(C, Target)
    IN  {g \in own : Cardinality({h \in own : Before(f, C, h, g)}) < Budget}

-------------------------------------------------------------------------------
NoArtifact == [kind |-> "absent"]
TornArtifact == [kind |-> "torn"]
NotStarted == [pc |-> "idle"]
WholeAt(o, i) == artifacts[o][i] \notin {NoArtifact, TornArtifact}
(* What a run selected, and from which inputs. *)
SelectionFrom(f, r) == [file |-> f, registry |-> r, groups |-> SelectedGroups(f, r),
                        calibration |-> Calibration(Trained(f))]
(* The bytes of each artifact.  Ids and request hold the task and the        *)
(* selected rows, which are those of the candidate registry; the manifest    *)
(* alone has the digests of the inputs, of the fitted bundle with its        *)
(* calibration groups, and of the two other artifacts.                       *)
Rendered(i, s) ==
    IF ArtifactNames[i] = "manifest"
    THEN [kind |-> "manifest", groups |-> s.groups, file |-> s.file, registry |-> s.registry,
          calibration |-> s.calibration]
    ELSE [kind |-> ArtifactNames[i], groups |-> s.groups]

ProductionInit ==
    /\ file \in {[g \in Groups |-> IF g \in Initial THEN s[g] ELSE IF g \in m THEN "success" ELSE "none"] :
                     s \in [Initial -> {"success", "failed"}], m \in SUBSET (Groups \ Initial)}
    /\ run = [p \in Runs |-> NotStarted]
    /\ artifacts = [o \in Roots |-> [i \in 1..3 |-> NoArtifact]]

(* main up to the rendered artifacts; a run that is not admitted writes      *)
(* nothing and leaves with code 2.                                           *)
Prepare(p) ==
    /\ run[p] = NotStarted /\ \A q \in Runs : run[q].pc \in {"idle", "done", "failed", "dead"}
    /\ \E o \in Roots, r \in Registries :
          IF /\ LabelsHidden(r) /\ Contract(file) /\ Fittable(file) /\ RegistryAdmitted(r)
             /\ GraphsComplete(file, r) /\ Selectable(file, r)
          THEN run' = [run EXCEPT ![p] = [pc |-> "preflight", root |-> o, next |-> 1,
                                          selection |-> SelectionFrom(file, r)]]
          ELSE run' = [run EXCEPT ![p] = [pc |-> "failed"]]
    /\ UNCHANGED <<file, artifacts>>

(* _preflight_artifacts: what is there must be what would be written, be it   *)
(* left by a run on another measurement file.                                *)
Preflight(p) ==
    /\ run[p].pc = "preflight"
    /\ run' = [run EXCEPT ![p].pc =
          IF \A i \in 1..3 : artifacts[run[p].root][i] \in {NoArtifact, Rendered(i, run[p].selection)}
          THEN "write" ELSE "failed"]
    /\ UNCHANGED <<file, artifacts>>

(* _write_artifacts: missing ones only, in order; a death tears a file. *)
WriteArtifact(p) ==
    /\ run[p].pc = "write"
    /\ LET i == run[p].next
           there == artifacts[run[p].root][i] # NoArtifact
       IN  \/ /\ artifacts' = IF there THEN artifacts
                        ELSE [artifacts EXCEPT ![run[p].root][i] = Rendered(i, run[p].selection)]
              /\ run' = [run EXCEPT ![p] = IF i = Len(ArtifactNames)
                                           THEN [@ EXCEPT !.pc = "done"]
                                           ELSE [@ EXCEPT !.next = i + 1]]
           \/ /\ ~there
              /\ artifacts' = [artifacts EXCEPT ![run[p].root][i] = TornArtifact]
              /\ run' = [run EXCEPT ![p] = [pc |-> "dead"]]
    /\ UNCHANGED file
RunCrash(p) ==
    /\ run[p].pc \in {"preflight", "write"}
    /\ run' = [run EXCEPT ![p] = [pc |-> "dead"]]
    /\ UNCHANGED <<file, artifacts>>

(* A published request is measured, and its rows are added to the file.  *)
MeasureRequest(o) ==
    /\ WholeAt(o, 2)
    /\ \E s \in {"success", "failed", "invalid"} :
          file' = [g \in Groups |-> IF g \in artifacts[o][2].groups /\ file[g] = "none"
                                    THEN s ELSE file[g]]
    /\ UNCHANGED <<run, artifacts>>
(* The caller brings a file without some group, or repairs an invalid one. *)
Lose(g) == /\ file[g] # "none"
           /\ file' = [file EXCEPT ![g] = "none"] /\ UNCHANGED <<run, artifacts>>
(* Somebody empties an output root with a torn artifact. *)
Empty(o) == /\ \E i \in 1..3 : artifacts[o][i] = TornArtifact
            /\ artifacts' = [artifacts EXCEPT ![o] = [i \in 1..3 |-> NoArtifact]] /\ UNCHANGED <<file, run>>

ProductionNext ==
    \/ \E p \in Runs : Prepare(p) \/ Preflight(p) \/ WriteArtifact(p) \/ RunCrash(p)
    \/ \E o \in Roots : MeasureRequest(o) \/ Empty(o)
    \/ \E g \in Groups : Lose(g)
ProductionSpec == ProductionInit /\ [][ProductionNext]_productionVars

-------------------------------------------------------------------------------
WholeArtifacts == {artifacts[o][i] : o \in Roots, i \in 1..3} \ {NoArtifact, TornArtifact}
Manifests == {x \in WholeArtifacts : x.kind = "manifest"}

(* Files and roots hold what the formats allow, and a run that writes holds *)
(* a request of exactly the budget.                                          *)
ProductionTypeOK ==
    /\ file \in [Groups -> {"none", "success", "failed", "invalid"}]
    /\ \A p \in Runs : run[p].pc \in {"idle", "preflight", "write", "done", "failed", "dead"}
    /\ \A o \in Roots, i \in 1..3 : WholeAt(o, i) => artifacts[o][i].kind = ArtifactNames[i]
    /\ \A x \in WholeArtifacts : x.groups \subseteq OfModel(Groups, Target)
                            /\ Cardinality(x.groups) = Budget

(* No request asks for a holdout group or for any group of the cold start,    *)
(* whatever the caller lost, and none that a manifest seals asks for a group  *)
(* the measurement file of that manifest holds.                               *)
NothingKnownIsRequested ==
    /\ \A x \in WholeArtifacts : x.groups \cap (Holdout \cup Initial) = {}
    /\ \A x \in Manifests : x.groups \cap Present(x.file) = {}

(* Every model that was trained on has groups the interval heads were fitted *)
(* on and groups they were calibrated on, and no group is both.               *)
CalibrationIsHeldOut ==
    \A x \in Manifests : \A m \in {ModelOf[g] : g \in Trained(x.file)} :
        /\ OfModel(x.calibration, m) # {}
        /\ OfModel(Trained(x.file) \ x.calibration, m) # {}

(* What lies in one root asks for the same groups, and a manifest lies only   *)
(* beside the ids and the request it seals, through crashes, files that grow  *)
(* or shrink, and runs on another file that complete what a dead run left     *)
(* (stage5_selection.py 406-420).                                             *)
OneSelectionPerRoot ==
    \A o \in Roots, i, j \in 1..3 :
        /\ WholeAt(o, i) /\ WholeAt(o, j) => artifacts[o][i].groups = artifacts[o][j].groups
        /\ WholeAt(o, 3) => WholeAt(o, i)

(* A selection is new and whole: it asks for nothing known, from intervals    *)
(* calibrated on groups held out, and its artifacts ask for the same groups.  *)
SelectionIsNew == NothingKnownIsRequested /\ CalibrationIsHeldOut /\ OneSelectionPerRoot
================================================================================
