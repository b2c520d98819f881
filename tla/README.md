# A TLA+ verification project for AAAI-HW-SW-codesign

This directory holds TLA+ models of the hardware/software co-design search of
this repository, the TLC configurations that check them on small instances, and
proofs that TLAPS checks. Everything here is read off the Python code under
`src/`; where a document or a test says something else, a run or section 5 shows
the difference.

## 1. The system

The repository searches for neural network configurations (pruned widths and a
quantization mode, together a *genome*) that do well on a hardware target. It
is a set of Python programs that hand each other files.

| Part | Code | State it keeps | What it does |
|---|---|---|---|
| Stage1 scan and bridge | `framework/stage1/graph_scan.py`, `framework/stage1_bridge.py` | a manifest per model | describes dependency groups, binds them into knobs, derives width anchors and software points |
| Stage1 predictors | `framework/stage1/coupling_predictor.py`, `calibrated_predictor.py`, `model_classifier.py` | reports | say whether pruning, quantization and scheduling can be searched apart |
| Probe scripts | `scripts/phase2/stage1_s2_*`, `stage1_s4_*` | a scan file, its reports | measure schedule anchors and judge them |
| Stage2 gate | `framework/stage2/contracts.py`, `scripts/stage2_optimize_model.py` | output, delta and summary | opens a search for classified manifests only |
| Stage4 | `framework/stage4/*.py` | reports | nested cost-model selection, ranking, replay, feedback evaluation, closure audit |
| Stage5 production search v1 | `framework/stage5/production_search_v1.py`, `scripts/reproduce/stage5_selection.py` | three artifacts in an output root | selects the groups to measure next |
| Single-target search core | `framework/stage5/single_target_search_v2.py` | none | candidate manifests, model fits, batch selection, request identities, history checks |
| P6 full-chain bootstrap | `framework/stage6/p6_full_chain_bootstrap_v1.py`, `tools/release/provision_*.py` | none of its own | finds or renders the private interface and binds it |
| P6 private binding | `framework/stage6/p6_history_binding_v1.py` | binding and controller configuration on disk | validates the interface, looks at the devices twice, writes the pair |
| P6 history registry | `framework/stage6/p6_history_registry_v1.py` | `source_registry.json` | materializes a plan's candidates, keeping identities |
| P6 search controller | `framework/stage6/coptv2x_h800_search_v2.py`, `tools/release/run_p6_h800_search.py` | memory of one run; an output root with manifest, plan, registry, state, and per round request, feedback and failure files | scans, builds a candidate registry, then four rounds of select, request, measure, validate and release |
| P6 measurement adapter | `framework/stage6/p6_history_measurement_v1.py` | private round directories, GPUs, the feedback file | one request through GPU admission, the five-stage historical chain, and publication |
| Stage6 tables and adapter | `framework/stage6/paper_table_v1.py`, `scripts/reproduce/stage6_table.py`, `pyramid_search_space_adapter_v1.py` | four artifacts in an output root | representative points and frozen tables; the Pyramid candidate plan |
| Stage7 policy | `framework/stage7/search_policy_v1.py` and its tool | one file per call, at a path the caller names | one selection request per round, four variants; the caller carries the trajectory |
| Three-arm ablation | `framework/search_three_arm.py`, `framework/run_b4_ablation.py` | memory of one run | one genetic explorer under one budget, three arms, their scores |
| Reproduction driver | `scripts/reproduce/reproduce_all.py` | an output root and its run manifest | claims a root, runs six stages, records or reuses a run |
| Evidence archive, environment contract, release tools, model graphs | see `PROJECT.json` | | not modelled, see section 7 |

How they interact. Everything passes through files. A scan writes the manifest;
bridge, predictors, classifier and gate read it, each at its own time. The
bootstrap writes a binding and a configuration; the P6 controller reads the
configuration, and runs the scan, the registry command and the measurement
command as child processes, one at a time, without a timeout. Between controller
and adapter pass `measurement_request.json` and `feedback.json`; the adapter runs
the historical chain as child processes of its own and exchanges files with it in
a private directory per round index. The reproduction driver runs the Stage2,
Stage4, Stage5, Stage6 and Stage7 tools in one output root. There are no threads
and no callbacks; the concurrency is that of processes: an adapter that outlives
a killed controller, two provisioning runs, two runs in one root, GPUs and trees
other people use. What is hard is what survives in those files when a process
dies, when a write is interrupted, when a command lies about having done its
work, when the next attempt starts on the leftovers, and when two programs read
the same file at different times; and, in the pure parts, ties, rounding, indices
into indices, and equal points.

What makes each part correct is what section 3 lists under the runs; the hazards
behind each property, at their lines, are in `PROJECT.json`.

## 2. The modules

`PROJECT.json` maps every definition to the lines it stands for. Definitions
whose comment begins with *Mutated form* are deliberately wrong variants of the
definition that follows; nothing uses them, and substituting one for its
original makes the property it is listed with fail.

| Module | What it is | Extended or instantiated by |
|---|---|---|
| `BudgetedSearch` | abstract: what a budgeted search promises, no files, no processes | `P6Search` |
| `P6Search` | the P6 controller, its commands as inputs, its files, crashes and restarts | `MCP6Search`, `P6SearchProofs` |
| `HistoryMeasurement` | the measurement adapter, its private rounds, the GPUs, the feedback file | `MCHistoryMeasurement`, `HistoryMeasurementProofs` |
| `BindingPair` | `write_private_binding_pair`, several writers | `MCProvisioning`, `ProvisioningProofs` |
| `HistoryBinding` | how a binding is found, checked against the devices and bound | `MCProvisioning`, `ProvisioningProofs` |
| `RegistryMaterialization` | a plan's candidates rendered into a registry, overlapping builders | `MCSelection`, `SelectionProofs` |
| `ProductionSelection` | one-shot selection of Stage5 v1 and its artifacts | `MCSelection`, `SelectionProofs` |
| `Stage7Trajectory` | the rounds of the online ablation, whatever files the caller brings | `MCSelection`, `SelectionProofs` |
| `NestedSelection` | nested grouped cross-validation, loop by loop | `MCStage4` |
| `Stage4Closure` | feedback evaluation and closure audit on a table that is rebuilt | `MCStage4`, `SelectionProofs` |
| `AcquisitionReplay` | ranking, replay and completion reports | `MCStage4` |
| `AnchorProbe` | the anchor runner, its completion report, the mini search | `MCStage1`, `Stage1Proofs` |
| `SearchSpace` | scan, bridge and Pyramid adapter, from dependency groups to candidates | `MCStage1` |
| `CouplingRules` | the rules of the predictors and the classifier, as operators | `CouplingReports`, `Stage2Gate` |
| `CouplingReports` | predictor and calibration on evidence that grows | `MCStage1`, `Stage1Proofs` |
| `Stage2Gate` | scans, classifier and optimizer around one report | `MCStage2Gate`, `Stage2GateProofs` |
| `ThreeArmSearch` | the explorer and the three arms under a budget | `MCComparison`, `ComparisonProofs` |
| `AblationScoring` | hypervolume, fronts, crowding, curves and ranks | `MCComparison` |
| `PaperTable` | both selection layers of the table and its command line | `MCComparison`, `ComparisonProofs` |
| `ReproductionRun` | the reproduction driver on an output root | `MCReproductionRun`, `ReproductionRunProofs` |

The eight modules whose names end in `Proofs` hold the TLAPS proofs (section 6); they extend the
components they are about, and nothing extends them.

### Several components in one run

Components of one stage that exchange only finished files are checked side by
side: `MCProvisioning`, `MCSelection`, `MCStage4`, `MCStage1` and `MCComparison`
extend (or instantiate) all of them and add a variable `subject` (`half`), chosen
at the start, that says which one a history looks at; the others keep a fixed
initial state. Components that share a run or a proof module have names of their own
for what would clash (`ClosureInit`, `TableInit`, `CouplingInit`). The component's own `Next` is used unchanged. Nothing is shown
about combinations across subjects; it is the way to give each module its own
instance without a configuration for each. Where the components do interact
while they run, one module holds them all: controller and commands (`P6Search`),
adapters, GPUs and controller starts (`HistoryMeasurement`), scans, classifier
and optimizer (`Stage2Gate`), scan, bridge and adapter (`SearchSpace`), table,
models, evaluation and audit (`Stage4Closure`), runner and report (`AnchorProbe`),
runs and editors (`ReproductionRun`). A constraint called `Small` in an MC module
leaves out histories and says which: it is conjoined to the next-state relation,
never to a property.

The larger invariants are conjunctions of named parts (`SpaceIsBuildable`,
`TableIsHonest`, ...), defined in the component's module with a comment on every
part. Where an MC module has an instance (`Acquisition`, `Space`, `Scoring`), its
definition of the same name only says for which subject the property is asked.

### P6Search

`pc` is the statement `run_p6_coptv2x_search` is about to execute; memory
variables have the names of the code (`feedback` is `online_feedback_rows`,
`measured` is `measured_row_ids`). A file is a record with a `kind`: absent,
torn (a prefix left by an interrupted `write_text`), unsafe (a symlink or
directory), or its content. `Start` begins a new attempt in the same output root:
memory is fresh, files stay. In order, the actions are `Setup`, `ClearManifest`,
`ScanReturns`, `LoadInputs`, `WritePlan`, `RegistryReturns`, then per round
`SelectBatch`, `WriteRequest`, `ClearFeedback`, `CommandReturns`, `Release`,
`ValidateHistory`, and at the end `WriteFailure` and `WriteState`. `InterruptWrite`
and `Crash` may strike at any of them. `exit` tells the ways out apart that the
command line tells apart (`contract_error`, `execution_error`, `failed`,
`completed`), and `uncaught` for exceptions no handler names.

Abstractions: a genome is `<<group, q_mode>>` (row_id is built from these and the
single profile of the task); a hash is the content it digests; metrics are valid
or not; the selection policy may pick any batch of distinct candidates, so what
is shown holds for every policy; the contract, the configuration and the frozen
inputs are admitted or refused as a whole; only the feedback file can be unsafe.
`origin` in manifests and feedback and `by` in the state are ghosts that name the
attempt. A crash of the controller also ends its command here.

### HistoryMeasurement

Each adapter has its own `pc`; they share `private` (five files per round index),
`feedback` and `gpu`. `Start` is the controller: it removes the old feedback and
starts an adapter with a request. Every file access is a step of its own, since
another adapter may act in between; looking up the five files of a fresh round is
one step, because files are only ever added while adapters overlap. `Put` is a
replacement from a synced temporary that can fail before the rename and, when the
directory cannot be synced, after it. The stages of the chain are external: any
may fail, or return 0 having done nothing; finalization works on the request that
is on disk and leaves what it found, coherent evidence, or evidence with one
defect. `seen` (a ghost) collects the GPU states the chain of an adapter ran under, and `origin`
(another) names the adapter whose chain the published evidence came from.
The evidence of a batch is judged as a whole: the four rows of a request and
their hashes are one identity.

### BindingPair and HistoryBinding

Each writer goes through `Prevalidate`, `Capture`, `Stage`, `Replace` (twice),
`Sync`, `Clean`, with `Compare` and `Restore` when the second rename fails. `faults`
says which of crashes, failing restorations and failing clean-ups a history allows.
Power loss is not modelled: a rename, once done, stays done. The temporary that
a restoration itself uses is part of `Restore`.

`HistoryBinding` follows both provisioning tools statement by statement:
destinations, inputs, the four components found by their markers, the interface
(rendered from a template, or found and validated), `build_history_binding` with
the contract looked up in the registries, two device snapshots and their
admission, and, for the bootstrap, the configuration and the pair. The older tool
ends before the write, as in the code: it passes no Stage1 scan command and the
pair validation refuses the configuration. `Edit` lets somebody
change the tree or the devices between any two steps.

### RegistryMaterialization, ProductionSelection, Stage7Trajectory

The registry builder validates plan and recipe, materializes one width per step,
compares the expansion with the plan and replaces the file; a template is a literal
and the set of fields it names, so that templates with too few fields collide.
`ProductionSelection` is one run of the Stage5 tool: contract, calibration groups,
candidates, frontier hits, diversity, ranking, preflight and three writes; the
measurement file grows, loses groups and holds failed ones between runs. Each artifact
holds what its bytes tell: ids and request the selected rows, the manifest alone the
digests of the inputs, so a run may complete what a dead run left from another
measurement file when both chose the same groups. A fitted head is a table of
forecasts indexed by how many groups it was trained on. In `Stage7Trajectory` the policy
keeps no state: `SelectNext` quantifies over *any* request and feedback on disk, any
pool and any frozen bundle, and what it accepts is what the code's checks accept. A
request goes to a free path (`OutputPaths`), so a round may be asked for twice and a
trajectory may fork.

### Stage4: NestedSelection, Stage4Closure, AcquisitionReplay

`NestedSelection` keeps the loop indices of `run_nested_selection` as variables and
keeps positions in row lists apart from rows (`RowsAt`), as the index arrays do;
`fits` records the rows, the judged rows and the seed of every fit. In
`Stage4Closure` the table is rebuilt (`Drift`) between the two predictions, the
evaluation and the audit, each of which reads it as it is then. `AcquisitionReplay`
makes the three reports in one step each, from forecasts that arrive in any order.

### Stage1 and Stage2

`AnchorProbe` measures cell by cell; `Publish` is the atomic partial scan,
`OpenFinal` and `WriteFinal` the final one written in place; the report may read a
scan at any time. `work` says which runs have tuned in the work directory of each cell: a
directory that exists is taken as it is, so records of several runs may lie in one, and
`lent` (a ghost) notes whose records a swap was made with. `SearchSpace` has three steps (scan, bridge, adapter), each
reading what the one before wrote; rates are integers in ten-thousandths, rounded
half to even. `CouplingRules` holds the rules as operators; `CouplingReports` runs
predictor and calibration at any time while evidence is added, `Stage2Gate` adds
the classifier's report with its digests and the optimizer's three files. The blockers of
an output are gates, and several skips may share one (`BlockerGate`); an optimizer that
finds a file compares what the file tells (`Told`), which of the classification it was made from
is five fields. In `Stage2Gate` the constant `RescanDuring` says while which of the programs a new
scan may happen; the run has it empty (`MCNever`), see section 5.

### ThreeArmSearch, AblationScoring, PaperTable, ReproductionRun

The explorer's random choices are open: a generation evaluates any batch of points
of the arm's space, in any order, until the budget is spent, and environmental
selection then evaluates the rest of the union. A stage ends when its budget, its space, or
`MaxGens` generations are used up, or when it stalls. `AblationScoring` grows two
archives of evaluations in any order and computes everything the report computes.
`PaperTable` has both layers as operators on sequences (order matters for ties)
and the command line as preflight and four writes. `ReproductionRun` has one step
per look at the root and per write; a version stands for checkout and packages.

## 3. What TLC checks

Bounds are constants of the models, named there. All configurations but
`Stage2Gate.cfg` set `CHECK_DEADLOCK FALSE` because the systems really stop:
attempts, adapters, writers and runs are started a bounded number of times. The
programs around the gate can always be run again, so there deadlock is checked.

| Run | Instance | What it shows |
|---|---|---|
| `p6_search` | 3 groups (one in the holdout) x 2 modes, batches of 2, 2 rounds; 2 attempts in framework mode, 1 in static mode; fair | nothing measured earlier is taken for an answer (`FreshEvidence`); the budget is spent in whole batches, on no genome twice and no holdout (`BudgetExact`, `WholeBatches`); exits are true (`ExitIsTrue`: completion is paired with a complete history, a failed batch is free); the space comes from this attempt's scan (`SpaceIsFromThisScan`); `P6Search` implements `BudgetedSearch` (`PromiseKept`); an attempt ends or hangs in one external command (`HangsOnlyInCommand`) |
| `measurement` | 2 adapters, one after the other with 2 requests for round 0 and 1 for round 1, or overlapping on round 0; GPUs ok, occupied or drifted | a private round is executed once (`ChainAtMostOnce`); what is published has coherent evidence, for a request the adapter was given, and, of adapters that take turns, not from a chain that ran while a card was replaced (`PublishedIsSound`) |
| `provisioning` | 3 writers one after the other, four sets of faults; 2 places, faulty templates one at a time, 2 registries, 5 devices, 2 edits | `WritersTellTheTruth`: without faults the two files never disagree, outcomes are true, no temporaries stay; success is whole under every fault; `WhatIsBoundWasSound` |
| `selection` | 10 recipes, plans of 1 to 4 candidates, 2 builders; 7 groups of 2 models, 6 registries, 2 runs in one root; 4 genomes, 2 pools, 4 output paths, pairs of trajectories or one with forks, 3 rounds of 1 | `RegistryIsSound`, `SelectionIsNew`, `TrajectoryIsSound` |
| `stage4` | 8 groups in their roles and one more, 2 drifts; 4 groups with 2 x 2 folds, 2 targets, 3 candidates, 6 input faults; 2 groups x 2 arms, all manifests of up to two folds | `ClosedIsSound`, `NestedIsHonest`, `AcquisitionIsSound` |
| `stage1` | 5 cells of 2 probes, one restart; some 770 networks on 3 hardware profiles; manifests of 7 models with 7 kinds of leftovers and 6 pieces of evidence | `ProbeIsHonest`, `SpaceIsBuildable`, `ReportsAreGrounded`; only the last write can tear a scan (`OnlyTheLastWriteTears`) |
| `stage2_gate` | 2 paths of the same identity, 7 contents, one rescan | the gate opens for trained models classified from this very manifest (`GateIsSound`); outputs, deltas and summaries agree (`ArtifactsAgree`); every skip that the predictor holds against the whole model has its gate in the claim (`BlockersAreCarried`) |
| `comparison` | 3 widths, budgets 4 and 6, 4 generations; archives of 3 evaluations an arm; tables of 2 to 4 points, 4 runs, 2 crashes | `ArmsStayInBounds`, `ScoresMeanWhatTheySay`, `TableIsHonest`, `ManifestSealsRoot` |
| `reproduction` | 3 runs one after the other, 2 versions, one edit between them | completion means six outputs of one version and a manifest that lists them (`CompletionIsWhole`); what others left is kept (`ForeignIsKept`) |
| `p6_holdout`, `nested_counts`, `reproduction_race` | | the three findings, section 4 |

Why these bounds are enough for the cases to happen. *P6*: two rounds are the least
with a round that follows another, one whose index is not the last, and a history to
validate; two attempts are the least with leftovers; three groups of which one is
held out give spaces that cover the budget with and without the holdout, and
selections that run short in the last round. *Measurement*: two requests for one
round let attempts of a search disagree. *Provisioning*: a third writer sees what
two others have left; two edits can change something and change it back.
*Selection*: three rounds have a replayed, a skipped and a forked predecessor; on four
paths one trajectory asks for a round twice and goes on from both requests, or is brought the
files of another; two frozen trajectories can be given each other's bundle. `Small` asks for
one torn or incomplete file at a time, and keeps the fourth path for the variant that learns, alone
and without such a file; nothing is measured when no path is left; `FirstFree` fills the paths in order, since no path differs
from another. A root with two runs sees a death and a rerun on a file in which one more
group was measured (`SmallFile`), which may choose the same groups or others. *Stage4*: eight groups are what the code
requires; a group of two rows that are not adjacent tells positions from rows.
*Stage1*: an int8 cell with its fp16 twin, a failed twin, a second width, and a
second probe that has both precisions; the constraint beside `FiveCells` says which arms are
slow or fail where, so that whole tables are measured within the bound; knobs of one and two members with different numbers of convolution
groups, and wide ones with more than nine anchors. *Comparison*: three points give
layers, ties and points outside the reference box; four generations (200 in the code) are enough
to stop at the bound and to stop at the third stalled one (the joint arm with int8, whose space is by
far the largest, is followed for three). *Gate*: the manifests have typed
and untyped leftovers of several gates and two of one gate. *Reproduction*: the third run
finds what a dead and a failed one left.

Symmetry is used over adapters (`measurement`), builders (`selection`), runs and
versions (`reproduction`), all interchangeable model values, and in no run that
checks liveness under fairness. (`CompletionIsWhole` and `ForeignIsKept` are action
properties.)

Fairness. `p6_search` assumes weak fairness of the controller's own steps: its
process is scheduled and its file operations return. Its commands are not assumed
to return, since `subprocess.run` is called without a timeout, and nobody has to
start another attempt; `HangsOnlyInCommand` is what remains true under exactly
that. No other run asks for liveness: the other programs are straight-line code or bounded
loops, and would end in their models for that reason alone.

## 4. Where the code and its documents differ

Three disagreements are runs of their own; TLC finds the property violated.

| Run | Property violated | The document | What the code does |
|---|---|---|---|
| `p6_holdout` | `AdmittedSpaceCoversBudget` | `2026-08-17-p6-2-...-design.md:23`: at least 16 unmeasured candidates before round 0 | the admission (`coptv2x_h800_search_v2.py:577`) counts holdout groups that no round may use, so the candidates can run out after measurements have begun |
| `nested_counts` | `CountsArePositive` | `closure_audit_v1.py:90`: candidate selection counts must be positive integers | `cost_model_selection_v1.py:562` reports every candidate that no outer fold selected with 0, so the audit raises on such a report |
| `reproduction_race` | `CompletedIsKept` | `reproduce_all.py:725`: a matching completed manifest is reused; different existing content is refused | an empty root is claimed by looking at it (161); of two runs the one that fails replaces the completed manifest of the other (754-779) |

## 5. Divergences noted while modelling

What follows was met while the modules were written. No run stands for it, either
because the code cannot do otherwise where it looks (so the properties are stated
for what it can see), or because it takes one step and a look at the source is the
better evidence. The models do what the code does in all of them.

P6 controller, adapter and provisioning:

- *A failure is not always recorded.* Only errors whose code is in
  `_RECOVERABLE_ROUND_FAILURE_CODES` write `failure.json` and a failed state
  (`coptv2x_h800_search_v2.py:297`); an unsafe feedback leaf is raised again, and
  the `ValueError` of a selection with too few candidates passes every handler.
  `2026-08-20-p6-4-...-design.md:87` says that any failure writes a failed state.
- *Contamination between the looks.* The GPUs are sampled before the private round
  and after the last stage (`p6_history_measurement_v1.py:122`, `129`); occupancy that
  comes and goes in between is published, where line 91 of the same design
  wants the run to fail. `PublishedIsSound` asks only for what the second look can see.
- *Admission does not wait.* A snapshot that is not admissible ends the adapter at once
  (277-309); the same line 91 says "wait and check again".
- *A writer that dies between the two renames* (`p6_history_binding_v1.py:301-315`)
  leaves its binding beside the old configuration, which
  `plans/2026-08-18-p6-history-execution-adapter.md:183` excludes. `PairNeverDisagrees`
  is asked when no writer has died.
- *Compensation compares and then replaces* (1031, 1034, 1038): a competing update in
  between is overwritten. `test_p6_history_binding.py:1014` covers an update before the
  comparison only. The run has `Exclusive = TRUE`, one writer at a time.
- *The devices are not looked at again* after the second snapshot inside
  `build_history_binding`; one replaced before the pair is written is written into it
  (`p6_full_chain_bootstrap_v1.py:182`; line 164 of the same plan).
- *An overlapping adapter publishes what another measured.* The second look at the GPUs is the
  adapter's own. One that overlaps another in a private round may finalize and publish the
  evidence of the other's chain, and its own looks say nothing of a card replaced under that chain
  (`p6_history_measurement_v1.py:420`, `129`). `DriftIsNeverPublished` is therefore asked of
  adapters that take turns, about the adapter the evidence came from.
- *An old registry file may stay.* The controller removes the manifest before it scans, and never
  the registry (`coptv2x_h800_search_v2.py:441-471`): one that an earlier attempt left is accepted
  when it has the identities of the new plan. `SpaceIsFromThisScan` says that much.
- *A Stage7 trajectory may fork.* The tool writes to a free `--output-json`
  (`stage7_selection.py:190`), and the policy matches variant, seed, task and round
  (`search_policy_v1.py:327-332`). A round can be asked for twice, both requests can be measured and
  continued, and `EveryChainIsMeasured` therefore speaks of the chain behind each request; that a
  trajectory has one chain is up to the caller.
- *A frozen bundle may be a fork's.* Nothing in a request names the bundle it was made with (185-209),
  so a feedback-free chain can be continued with the bundle of another round zero of its seed;
  `FrozenNeverLearns` asks for *a* round zero of that variant and seed.
- *Artifacts of two Stage5 runs.* Ids and request hold the selected rows only
  (`stage5_selection.py:346-364`, `493-500`); a run completes what a dead run left from another
  measurement file if the same groups were chosen. `OneSelectionPerRoot` speaks of the groups.
- *Output beneath the history root.* The checks keep the outputs apart from each other and
  inside the private output root, but nothing keeps that root apart from the history root.

Stage1 and Stage2:

- *The completion report* writes its JSON first and then formats numbers that are `None`
  in exactly the incomplete scans it describes (`stage1_s2_probe_completion_report.py:383`).
- *The mini search* accepts any scan, a running one too
  (`stage1_s4_three_arm_validation.py:254`), and its global conclusion (293) is a
  constant string, whatever the verdicts beside it.
- *Diagnostic points.* The bridge writes `diagnostic_only` (`stage1_bridge.py:656`), the
  Pyramid adapter passes over `diagnostic`: a space with one such point is refused as a
  whole, which `AdapterAccepts` has.
- *The recorded width floor need not be legal*: the scan rounds `max_rate` to four digits,
  the bridge derives its floor from it and rounds up (`graph_scan.py:243`,
  `stage1_bridge.py:202`).
- *A finished scan need not load*: a group narrower than its alignment keeps its width, and
  a knob takes the largest alignment of its members (`stage1_bridge.py:177`).
- *Anchors are not filled up* to five where the space permits (`stage1_bridge.py:574`, `472`).
- *The calibration* marks CoDriving and F-Cooper as measured whatever the prediction rests on
  (`calibrated_predictor.py:138`); the classifier calls CoDriving separable by its name
  (`model_classifier.py:319`), and never looks at `scan_status` (317).
- *Work directories are kept* (`stage1_s2_anchor_runner.py:327`, `mkdir` with `exist_ok`): the tuning
  records of an earlier run may lie in the database of a cell beside this run's, and a swap measured
  with it may use either. `SwapHasItsTwin` asks that this run has tuned there too, with success.
- *The LSS description*: an untyped old manifest may describe a skip as "voxel scatter + QuickCumsum";
  the predictor takes it for a custom operator that blocks (`coupling_predictor.py:186`), the bridge
  for a sparse frontend that does not (`stage1_bridge.py:740`). The kinds of `CouplingRules` have one
  description each and this is none of them; it is why `BlockersAreCarried` is about those kinds.
- *The digest is taken late*: the classifier hashes the manifest after all predictions
  (414), and `build_stage2_output` reads it four times (`contracts.py:510`). A scan in
  between gives an old prediction the digest of the new manifest, or an output of two
  manifests. The constant `RescanDuring` admits such scans; the run has none, since nothing
  in the repository starts a scan while these tools run. `GateIsSound` would not hold with them.

Ablation, tables and reproduction:

- *The budget* may be overrun by up to a population less one
  (`search_three_arm.py:497`; the docstring at 406 says otherwise). `ArmsStayInBounds`
  has the bound that does hold.
- *Serial quantization*: `run_serial_pqs` tunes the quantization by default (1382), the smoke
  report prints that it never does (1672).
- *The sentinel point* that cannot be built has the reference latency and a real accuracy, so
  it is delivered when nothing of its accuracy was evaluated (1188, 1185).
- *Rank flips*: a tie under one schedule is a flip in one order of the grid and not in the
  other (744, 724).
- *A torn artifact locks a root*: the table and selection tools compare what is there with what they
  would write, so after a death in a write no later run gets past its preflight until
  somebody empties the root.
- *An unavailable manifest alone in a root is reused* (`reproduce_all.py:181`) and its error
  repeated, even when its cause is gone.

## 6. What TLAPS proves

Each proof module extends the component it is about and proves its theorems for every value
of the component's constants that meet its `ASSUME`s. Every one is built the same way: an
inductive invariant, a lemma per action or group of actions, one for all steps together, and
the properties from it.

### The controller (`P6SearchProofs`)

For every set of groups and modes, every holdout, every set of registries and plans, every
batch size and round count, and every number of attempts. The assumptions are those of
`P6Search`: `BatchAssumption` (batch size and round count are positive), `SpaceAssumption`
(groups and modes are finite, the holdout is among the groups, registries and plans are made
of genomes) and `BoundAssumption`.

- `TypeCorrect`: `Spec => []TypeOK`.
- `EvidenceIsFresh`: `Spec => []FreshEvidence`.
- `BudgetIsExact`: `Spec => []BudgetExact`.
- `SpaceIsScanned`: `Spec => []SpaceIsFromThisScan`.
- `ExitsAreTrue`: `Spec => []ExitIsTrue`.
- `BatchesAreWhole`: `Spec => WholeBatches`.
- `PromiseIsKept`: `Spec => Promise!Spec`, the refinement of `BudgetedSearch`.

They rest on one inductive invariant, `IInv`, shown to hold initially and to be kept
by each action in a lemma of its own (`Invariance` combines them). `BudgetExact` is
not inductive: it says how many genomes are measured after `round` rounds, but not
that the batch in `request` belongs to this round, is new, and is free of holdout
genomes at the moment it is released. `ControlInv` records what memory holds at each
control point, `SearchInv` the account of the budget together with the requested
batch, and `EvidenceInv` that the feedback file is absent when the command starts
and of this attempt when it is read; that last part is what the removal of the old
feedback is for. Two lemmas carry the data argument: a feedback without
`ReleaseFaults` answers the request with exactly its rows, and a command can only
leave feedback of its own attempt or what it found. `WholeBatches` needs `PairInv` in
addition: the request on disk is the one in memory from `WriteRequest` to `Release`;
`SpaceIsScanned` needs `ManifestInv` (from the scan on, the manifest on disk is this
attempt's), and `ExitsAreTrue` needs `DiskInv` and `EndInv` (request, feedback and history of
the finished rounds stay as they were written until the exit is reported).
The refinement maps `Release` to `ReleaseBatch` or a stutter, `Start` to `Begin`, the
ends of an attempt to `Complete` or `Stop`, and everything else to a stutter.

### The measurement adapter (`HistoryMeasurementProofs`)

For any requests, adapters and device states. `RequestAssumption` asks for one request at
least, since an adapter is always started with one.

- `TypeCorrect`: `Spec => []TypeOK`, with adapters that overlap.
- `ChainRunsOnce`: `Spec => []ChainAtMostOnce`.
- `PublishedSoundly`: `Spec => []PublishedIsSound`.

Two of the properties are about adapters that take turns, one is not, and the invariant is
cut along that line. `SharedInv` holds whatever overlaps: what an adapter has read so far is
of its own request, which is why even an adapter whose private round is overwritten by
another publishes no stranger's measurement; and an adapter that ran any command has left
its request in its private round. That leftover is what makes a second chain of the round
impossible after a crash, and it had to be part of the invariant. `SequentialInv` holds of
turns: everyone else is new or done, no other adapter has executed in the private round of
the one at work, and what it has read is what lies there; what it publishes it has measured itself (`EvidenceInv`),
which is why its own look at the GPUs tells of that measurement.

### The binding and the pair (`ProvisioningProofs`)

- `PairTypeCorrect`, `NothingIsLeft`: `Spec => []NoLeftovers`, for writers that overlap.
- `TurnsTellTheTruth`: `Exclusive` implies `Spec => []WritersTellTheTruth`. Overlapping writers
  do break it (section 5), so the hypothesis is needed; `Exclusive` is the tool called by
  one operator at a time.

The properties speak of writers that are over or about to clean up. `WriterInv` says how
the files differ from what a writer captured at each of its steps, and `CalmInv` and
`WholeInv` say the same of the captured contents as of the files, because a compensation
may put them back.

- `BindingTypeCorrect` and `BoundWasSound`: `BindingSpec => []WhatIsBoundWasSound`, for every set of
  paths, interfaces and registries, and any number of edits while the binding is built. Assumed are
  `InterfaceAssumption` (the types of a parsed interface) and `BoundAssumption` (a finite
  tree, one device per index).

The invariant `BindingInv` has a part for every tree (`JobInv`: one component of each of the first
roles, in their order, and what each look at devices holds) and a part for a tree nobody
has touched (`QuietInv`), which carries the conditions of `Sound` in the order the code
checks them, and the reverse: that a refusal means the tree is not sound.

### Registry, selections and closure (`SelectionProofs`)

- `RegistrySound`: `RegistrySpec => []RegistryIsSound`, for any plans, recipes and any number of builders
  that overlap and die. `PlanAssumption` holds of every parsed plan: a width is three integers, a
  mode one of two.

`NothingIsShared` is about the finished registry, so the invariant (`Apart`) keeps it for the
groups of each builder while they grow. That no candidate is lost rests on
`AdmittedPlans`: entries in canonical order have distinct identities, so the dictionary
built from them keeps them all, and there are as many as the plan lists.

- `TrajectoryTypeCorrect`, and `TrajectorySound`: `Spec => []TrajectoryIsSound`, for any trajectories,
  pools, models and policies.

Policies and draws are constants of which `PolicyAssumption` only says that they choose a whole
batch among the candidates; `TrajectoryAssumption` says that a trajectory is its variant
and seed, which is all the policy tells trajectories apart by, and that pools are finite. Paths and
forks are unbounded. All that is
said of a chain is kept request by request (`Founded`): what a request may stand on among the
requests there are and those that were measured. No request and no complete answer is ever taken away, so what a request
stands on stays (`FoundedStays`), and no fork can take it away. The feedback beside a request is of
that request (`FeedbackInv`), so a file a caller brings from elsewhere cannot pass for it.

- `SelectionsAreNew`: `ProductionSpec => []SelectionIsNew`, for any groups, models, registries, roots
  and any number of runs of which one is at work at a time. `GroupAssumption` says that groups
  are finitely many and that `HashOrder` numbers them by the seeded hashes without ties.

`SoundSelection` is what a run promises, and `SoundArtifact` what is left of it in an artifact: of
a manifest all, of ids and request only that no group of the cold start or the holdout is asked for,
since they do not say from which file they were made. `WorkOK` is what the run at work knows of its
root after the preflight: nothing, or the very bytes it would write, whoever wrote them. `RootOK` follows: whole
artifacts of a root ask for the same groups, through deaths and reruns on another file. That no model is calibrated on the groups it was
fitted to, and that neither side is empty, is `FifthIsProper`: of two groups or more the first
fifth in hash order, rounded up, is neither none (the group that hashes lowest is in it) nor all
(the one that hashes highest is not). Both exist by `MinimalCounterexample`, which is induction
over the subsets of a finite set, stated as the existence of a least bad one.

- `ClosureTypeCorrect`, and `ClosedAuditsAreSound`: `ClosureSpec => []ClosedIsSound`, for any table,
  predictions, elections and holdouts, and any number of rebuilds. `ClosureAssumption` says that
  group ids are finite, that a table maps them to entries, and that an election counts a finite,
  nonempty set of candidates.

The evaluation keeps the rows it was built from (`Built`); an audit holds the gates it judged
and the table has not been rebuilt since (`Audited`). From there each part is an argument about
operators: `FoldsOf` counts four folds and sixteen rows, `FoldSound` shows that the audit's
conditions on a fold follow from how the evaluator builds it, and `AboutThisTable` is the
converse, what the table must be for the gates to pass. `EveryRowIsCounted` holds because the
gate on roles leaves no row outside the two sources.

- `NestedTypeCorrect`, `TestRowsStayUnseen`: `NestedSpec => []NoTestRowIsFit`, and `SelectionsAreHonest`:
  `NestedSpec => []NestedIsHonest` within the ranges of the seed schedule, for any table, groups,
  candidates, targets, scores and numbers of folds, and any split of the groups that `GroupKFold`
  may draw. `NestedAssumption` gives the constants their types.

`SplitFacts` is the core: a split is a function of groups, so the rows at the positions a fold
tests are those of its groups, and the rows it trains on are those of the others. For the inner
split the same lemma speaks of positions in the training rows of the outer fold, and that `RowsAt`
turns them back into rows (`RowsAtFacts`) is why no inner fit reaches an outer test group. Positions
come in ascending order; that every rank is taken (`AscendingFacts`) is a count: ranks are distinct
and as many as the numbers. `OofInv` says after every outer fold that the predictions are those of
the folds so far, each row once; all folds together are the table because every group has one.
The counts are of elections because the elections are there: the picks of the folds.
Seeds are one hundred numbers per outer fold and ten per candidate, and the outer fits begin at a
thousand. `SeedRangesHold` (at most ten outer folds, inner folds, and candidates of a target) is
what the schedule has room for. The code does not check it, its defaults (5, 3 and 8) satisfy it, and
without it seeds do repeat, so it is a hypothesis of this theorem and not an assumption of the module.

### The anchors and the reports (`Stage1Proofs`)

- `ProbeTypeCorrect`, `ProbesAreHonest`: `Spec => []ProbeIsHonest`, and `LastWriteTears`:
  `Spec => OnlyTheLastWriteTears`, for every plan, every outcome of a measurement, and any number
  of restarts within the bound.

The runner's list, the file and the scan a report has read are each a scan of the plan
(`ScanOK`), and in the first two every swap has its fp16 twin before it, tuned with success by the
run that wrote the scan (`TwinsIn`; `WorkInv` says which directories the run at work has tuned). A
verdict is final because what a run has written begins what it has measured (`Begins`): a
verdict needs every cell of its probe, and a whole table does not change by cells of other probes
(`SameRank`). That an arm that may choose more is never slower is about the sets of candidates:
the best of a set that is not empty exists, and the sets are nested.

- `ReportsGrounded`: `CouplingSpec => []ReportsAreGrounded`, for every manifest and every order in which
  evidence arrives.

The first attempt at this proof failed for a good reason. `BlockingSkipStaysBlocked` used to
except only entries that the adapter *declares* harmless; an entry that says nothing is typed
by its kind, and of a kind that blocks nothing it takes a declared blocker back as well. The instance
TLC checked had no such entry. Both were corrected: the property says what the code
does (`~Typed(t).blocks`), and the instance has the entry.

### The ablation and the table (`ComparisonProofs`)

- `SearchTypeCorrect`, `ArmsAreBounded`: `Spec => []ArmsStayInBounds`, for every grid, cost model,
  setup and set of arms, and whatever the explorer draws. `SearchAssumption` says that the grid is finite
  and that population and budget are positive.

The bound on generations plays no part: the theorem holds for every `MaxGens`. The budget is the heart of it. A generation is due only while the budget is not spent, and the
first population, or the selection of the generation before, has then evaluated the whole population
(`Bounded`), so ranking is free and a selection goes past the budget by its batch at most. The
serial arm tunes what it locked because stage 1 sees its grid only (`SerialIsStepwise`), and it
locks no dominated width because a population that holds the grid evaluates it at once
(`LockIsUndominated`, `GridIsWhole`). Of environmental selection the proof needs that it keeps
members of the union (`SurvivorsAreOfS`). The operator is a recursive function inside a `CHOOSE`, so
the function itself has to be shown to exist (`FrontsExist`, `FrontsOf`), by the least
length at which it would not; which layer a point is in is left to TLC.

- `TableTypeCorrect`, `RootIsSealed`: `TableSpec => []ManifestSealsRoot`, for every input, any number of
  runs, and deaths between and within the four writes.

`RootInv` says that what lies in the root while a run writes is of its input, which is what the
preflight establishes, and that all files before the next one are there.

### The gate (`Stage2GateProofs`)

- `TypeCorrect` and `FilesStayTogether` (`[]ArtifactsAgree`): whatever scans overlap the programs.
- `GateSound`, `BlockersCarried`: `RescanDuring = {}` implies `Spec => []GateIsSound` and
  `Spec => []BlockersAreCarried`.

`RescanDuring` is the set of programs a scan may overlap. A scan between two reads of
the manifest mixes two manifests under one digest (a hazard without a property), so the second
pair is about scans that wait for the other programs; nothing in the code enforces that
order, and the late digest (section 5) is a way it could fail that neither the run nor these
theorems look at. `BlockersAreClaimed` is the argument of the second: the predictor and the bridge read the
leftovers of a scan each in its own way, and whatever the one leaves among what blocks, the other
gives a gate. `FormInv` relates what a program carries in memory to the files it has already written (an output that is kept tells the same as the one it was compared with, and
delta and summary are made of what it tells: `ToldIsEnough`), `SoundInv` the prediction in a report to the manifest it was made from.
`ScanAssumption` is about contents: a scan that writes a trace plan writes the typed skips
beside the untyped ones (`graph_scan.py:628`), so only an old manifest without a plan
lacks them.

### The reproduction driver (`ReproductionRunProofs`)

- `TypeCorrect`: `Spec => []TypeOK`, with runs that overlap.
- `CompletionsAreWhole`, `ForeignKept`: `Exclusive` implies `Spec => CompletionIsWhole` and
  `Spec => ForeignIsKept`.

Both are action properties. Without `Exclusive` the first is false; run `reproduction_race`
(section 4) shows it. The invariant says of the disk that what is missing or
foreign was left by the caller and that a completed manifest is whole, of the run at work that
the root it has claimed held nothing when it looked and that the stages before its own are
done and those after it untouched, and of its end that the draft it publishes is what is on
disk.

### What stays with TLC

- Liveness (`HangsOnlyInCommand`): fairness and `ENABLED` are out of this prover's reach.
- Induction over data, what folds and recursive functions compute for every input:
  `ScoresMeanWhatTheySay` (hypervolume, fronts and curves are folds), `TableIsHonest` (sorting and
  best-of over sequences), `AcquisitionIsSound` (frontiers and rankings by counting) and
  `SpaceIsBuildable` (rounding, alignment and filled-up anchors). The same holds of the types of
  `AcquisitionReplay`, and of the one part of those of `ProductionSelection` that counts ranked
  groups; of `MCStage4!TypesOK` and `MCSelection!TypesOK` the parts of the other components are proved.
- The three refuted properties of section 4.

No module declares a `RECURSIVE` operator.

## 7. What is not modelled

- *Formats*: the schema and field checks of every JSON file are one outcome; rendering of
  templates, reports and tables is what a property can tell apart. The formal plan of Stage6
  (`formal_plan_v1.py`, `contracts_v1.py`) and the protocol smoke are such checks alone.
- *Numbers*: fitting and prediction are tables of forecasts or free choices; floating-point
  noise does not occur, since the models compare small integers; ties are modelled, near-ties
  are not. Coupling scores, the census of convolutions and the statistics of the ablation
  beyond ranks, curves and hypervolume are left out.
- *PyTorch and devices*: tracing, routing tags and segments of the trace plan, TVM tuning,
  and the graph analyses need networks and devices; what leaves them is an input.
- *Two controllers in one P6 output root* at once are outside the controller's use (it takes no
  lock). Power loss, as opposed to a process that dies, is outside all modules.
- *Evidence delta archive, environment contract, release archive and ledgers, configurable
  model graphs, canonical search, latency outlier policy*: not modelled yet or not worth it;
  `PROJECT.json` has the reason for each.

## 8. Plan

Done: the P6 chain from scan to feedback, provisioning, registry, the selections of
Stage5 and Stage7, Stage4, Stage1 and Stage2 around their files, the ablation, tables and
the reproduction driver.

Left, in order of importance:

1. `P6FullChain`: `P6Search` with the adapter of `HistoryMeasurement` behind its
   measurement command, attempts that overlap through orphaned adapters, and the
   abstract promise of `BudgetedSearch` checked for the composition.
2. `TaskBatchSelection`: anchors and maximin of the single-target policy as functions, checked
   against a reference definition and for independence of the input order.
3. The repeat groups of the latency outlier policy, and the check-then-write of the evidence
   delta archive and of the release archive.
