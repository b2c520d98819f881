------------------------------- MODULE P6Search -------------------------------
(***************************************************************************)
(* The controller of the P6 search, run_p6_coptv2x_search: one process     *)
(* that scans, builds a candidate registry, then runs RoundCount rounds of *)
(* select, request, measure, validate and release, and keeps its evidence  *)
(* in the files of one output root.  The process may crash anywhere, any   *)
(* write may fail half way, and a later attempt starts over in the same    *)
(* output root, on the files the earlier ones left.                        *)
(*                                                                         *)
(* The scan, registry and measurement steps are local commands: what they  *)
(* leave in their output file and the code they return are inputs here.    *)
(* A crash of the controller ends its command too; P6FullChain drops that  *)
(* assumption and puts the real measurement adapter behind the command.    *)
(*                                                                         *)
(* Data abstraction: a genome is <<group, q_mode>> (its row_id); hashes    *)
(* are the content they digest; metrics are valid or not.                  *)
(***************************************************************************)
EXTENDS Integers, FiniteSets

CONSTANTS
    Groups,           \* source width groups (group_id)
    QModes,           \* global quantization modes of a group
    HoldoutGroups,    \* groups of the frozen Gold176 rows
    Registries,       \* registries the source registry command can write
    Plans,            \* identity sets a Stage1 manifest can expand to
    BatchSize,        \* FIXED_BATCH_SIZE
    RoundCount,       \* FIXED_ROUND_COUNT
    StaticGroups,     \* FIXED_SOURCE_GROUP_COUNT
    StaticGenomes,    \* FIXED_ELIGIBLE_GENOME_COUNT
    GoldSuccesses,    \* measured successes among the Gold176 rows
    MinOnlineRows,    \* finite rows fit_online_bundle asks for
    MaxAttempts       \* bound: attempts started in one output root

Genomes == Groups \X QModes
Rounds == 0 .. RoundCount - 1
SampleBudget == BatchSize * RoundCount

ASSUME BatchAssumption == BatchSize \in Nat \ {0} /\ RoundCount \in Nat \ {0}
ASSUME SpaceAssumption ==
    /\ IsFiniteSet(Groups) /\ IsFiniteSet(QModes)
    /\ HoldoutGroups \subseteq Groups
    /\ Registries \subseteq [kind : {"registry"}, rows : SUBSET Genomes,
                             ready : SUBSET Groups]
    /\ Plans \subseteq SUBSET Genomes
ASSUME BoundAssumption ==
    /\ MaxAttempts \in Nat /\ GoldSuccesses \in Nat /\ MinOnlineRows \in Nat
    /\ StaticGroups \in Nat /\ StaticGenomes \in Nat

VARIABLES
    frameworkMode,    \* candidate_source_mode is framework_stage2_search_space
    \* the process of the current attempt
    pc,            \* the step it is about to take, or "idle"
    attempt,       \* attempts started so far
    exit,          \* how the attempt ended, "none" while it runs
    plan,          \* dynamic candidate plan read from the manifest
    registry,      \* source registry read after its command
    round,         \* index of the round in progress
    request,       \* measurement request of that round
    feedback,      \* online_feedback_rows
    measured,      \* measured_row_ids
    code,          \* failure code of the round in progress
    \* the files of the output root, shared by all attempts
    manifestFile, planFile, registryFile, stateFile,
    requestFile, feedbackFile, failureFile   \* one of each per round

memory == <<plan, registry, round, request, feedback, measured, code>>
rootFiles == <<manifestFile, planFile, registryFile, stateFile>>
roundFiles == <<requestFile, feedbackFile, failureFile>>
vars == <<frameworkMode, pc, attempt, exit, memory, rootFiles, roundFiles>>

-----------------------------------------------------------------------------
(* What a file holds.  Torn is a prefix left by an interrupted write_text; *)
(* Unsafe is a symlink or directory where a regular file is expected.      *)

Absent == [kind |-> "absent"]
Torn   == [kind |-> "torn"]
Unsafe == [kind |-> "unsafe"]

Manifest(p) == [kind |-> "manifest", plan |-> p, origin |-> attempt]
Request(r, rows) == [kind |-> "request", round |-> r, rows |-> rows]

(* status gives each returned row_id its outcome; origin is a ghost: the   *)
(* attempt whose command measured these rows.                              *)
Feedback(req, status) ==
    [kind |-> "feedback", request |-> req, status |-> status, origin |-> attempt]
Failure(c) == [kind |-> "failure", code |-> c, completed |-> round]

(* Mutated form: the failed round is counted as completed. *)
StateOffByOne(status) ==
    [kind |-> "state", status |-> status,
     completed |-> IF status = "failed" THEN round + 1 ELSE round,
     measured |-> Cardinality(measured), by |-> attempt]

(* by is a ghost: the attempt that wrote this state. *)
State(status) ==
    [kind |-> "state", status |-> status, completed |-> round,
     measured |-> Cardinality(measured), by |-> attempt]

Terminal == {"success", "failure"}
RowFault(status) == IF status = "bad_metrics" THEN "feedback_metrics_invalid"
                                              ELSE "feedback_terminal_status_invalid"
RowCodes == {"feedback_metrics_invalid", "feedback_terminal_status_invalid"}
Recoverable == RowCodes \cup
    {"command_failed", "feedback_missing", "feedback_invalid_json",
     "feedback_request_mismatch", "feedback_candidate_mismatch"}

-----------------------------------------------------------------------------
(* Mutated form: genomes measured in earlier rounds stay candidates. *)
CandidatesAgain(reg, seen, holdout) ==
    {g \in reg.rows : g[1] \in reg.ready \ holdout}

(* The candidates one task may still measure. *)
Candidates(reg, seen, holdout) ==
    {g \in reg.rows : g[1] \in reg.ready \ holdout /\ g \notin seen}

(* The admission of a registry before round 0.  The round manifests leave  *)
(* the holdout groups out; this one does not.                              *)
SpaceAdmitted(reg, p) ==
    LET eligible == Candidates(reg, {}, {})
    IN  IF frameworkMode
        THEN eligible = p /\ Cardinality(eligible) >= SampleBudget
        ELSE /\ Cardinality({g[1] : g \in reg.rows}) = StaticGroups
             /\ Cardinality(eligible) = StaticGenomes

(* The online fit asks for a minimum of measured successes. *)
OnlineFitPossible(rows) ==
    GoldSuccesses + Cardinality({f \in rows : f.status = "success"}) >= MinOnlineRows

(* The policy (two objective anchors, then maximin diversity) is left      *)
(* open: any batch of distinct candidates, none if there are too few.      *)
SelectableBatches(candidates) ==
    {rows \in SUBSET candidates : Cardinality(rows) = BatchSize}

(* The three things a feedback is held to: it answers this request's hash, *)
(* returns exactly its rows, and every row is terminal with its evidence.  *)
Answers(file, req) == file.request = req
(* Mutated form: some of the rows may be missing. *)
ReturnsSome(file, req) == DOMAIN file.status \subseteq req.rows
ReturnsAll(file, req) == DOMAIN file.status = req.rows
(* Mutated form: rows are not looked at. *)
NoRowFaults(file) == {}
RowFaults(file) ==
    {RowFault(file.status[g]) :
        g \in {h \in DOMAIN file.status : file.status[h] \notin Terminal}}

(* Why a feedback file is refused as the answer to req; {} if it is not. *)
ReleaseFaults(file, req) ==
    CASE file.kind = "absent" -> {"feedback_missing"}
      [] file.kind = "torn" -> {"feedback_invalid_json"}
      [] file.kind = "feedback" /\ ~Answers(file, req) -> {"feedback_request_mismatch"}
      [] file.kind = "feedback" /\ Answers(file, req) /\ ~ReturnsAll(file, req) ->
            {"feedback_candidate_mismatch"}
      [] OTHER -> RowFaults(file)

ReleasedRows(file) ==
    {[genome |-> g, status |-> file.status[g], round |-> round,
      origin |-> file.origin] : g \in DOMAIN file.status}

HistoryValid(rows, completedRounds) ==
    /\ completedRounds < RoundCount
    /\ Cardinality(rows) = completedRounds * BatchSize
    /\ Cardinality({f.genome : f \in rows}) = Cardinality(rows)
    /\ \A f \in rows : f.status \in Terminal

-----------------------------------------------------------------------------
Init ==
    /\ frameworkMode \in BOOLEAN
    /\ pc = "idle" /\ attempt = 0 /\ exit = "none"
    /\ plan = {} /\ registry = Absent /\ round = 0 /\ request = Absent
    /\ feedback = {} /\ measured = {} /\ code = "none"
    /\ manifestFile = Absent /\ planFile = Absent /\ registryFile = Absent
    /\ stateFile = Absent
    /\ requestFile = [r \in Rounds |-> Absent]
    /\ feedbackFile = [r \in Rounds |-> Absent]
    /\ failureFile = [r \in Rounds |-> Absent]

Goto(step) == pc' = step /\ UNCHANGED exit
End(how)   == pc' = "idle" /\ exit' = how

(* A new process: nothing in memory, everything on disk as it was left. *)
Start ==
    /\ pc = "idle" /\ attempt < MaxAttempts
    /\ attempt' = attempt + 1
    /\ plan' = {} /\ registry' = Absent /\ round' = 0 /\ request' = Absent
    /\ feedback' = {} /\ measured' = {} /\ code' = "none"
    /\ pc' = "setup" /\ exit' = "none"
    /\ UNCHANGED <<rootFiles, roundFiles>>

(* Contract, local configuration and output root are usable, or it ends. *)
Setup ==
    /\ pc = "setup"
    /\ \/ Goto(IF frameworkMode THEN "scan_clear" ELSE "inputs")
       \/ \E how \in {"contract_error", "execution_error"} : End(how)
    /\ UNCHANGED <<attempt, memory, rootFiles, roundFiles>>

(* Mutated form: the old manifest stays. *)
KeepManifest ==
    /\ pc = "scan_clear" /\ Goto("scan")
    /\ UNCHANGED <<attempt, memory, rootFiles, roundFiles>>

(* The old manifest is removed before the scan is run. *)
ClearManifest ==
    /\ pc = "scan_clear"
    /\ manifestFile' = Absent /\ Goto("scan")
    /\ UNCHANGED <<attempt, memory, planFile, registryFile, stateFile, roundFiles>>

(* The scan command leaves a manifest, rubbish or nothing new. *)
ScanReturns ==
    /\ pc = "scan"
    /\ \E file \in {manifestFile, Torn} \cup {Manifest(p) : p \in Plans},
          succeeded \in BOOLEAN :
          /\ manifestFile' = file
          /\ IF succeeded /\ file.kind = "manifest"
             THEN Goto("inputs") ELSE End("execution_error")
    /\ UNCHANGED <<attempt, memory, planFile, registryFile, stateFile, roundFiles>>

(* Gold rows, graph features, capability profiles and closure are read and *)
(* validated: they admit the search or end it, and never change.           *)
LoadInputs ==
    /\ pc = "inputs"
    /\ \/ Goto(IF frameworkMode THEN "write_plan" ELSE "registry")
       \/ \E how \in {"contract_error", "execution_error", "uncaught"} : End(how)
    /\ UNCHANGED <<attempt, memory, rootFiles, roundFiles>>

WritePlan ==
    /\ pc = "write_plan"
    /\ plan' = manifestFile.plan
    /\ planFile' = [kind |-> "plan", rows |-> manifestFile.plan]
    /\ Goto("registry")
    /\ UNCHANGED <<attempt, registry, round, request, feedback, measured, code,
                   manifestFile, registryFile, stateFile, roundFiles>>

(* The registry command writes a registry, rubbish, or leaves the old file *)
(* in place; what is there when it succeeds is read and admitted.          *)
RegistryReturns ==
    /\ pc = "registry"
    /\ \E file \in {registryFile, Torn} \cup Registries, succeeded \in BOOLEAN :
          /\ registryFile' = file
          /\ IF /\ succeeded /\ file.kind = "registry"
                /\ frameworkMode => file.rows = plan
                /\ SpaceAdmitted(file, plan)
             THEN registry' = file /\ Goto("select")
             ELSE /\ \E how \in {"contract_error", "execution_error"} : End(how)
                  /\ UNCHANGED registry
    /\ UNCHANGED <<attempt, plan, round, request, feedback, measured, code,
                   manifestFile, planFile, stateFile, roundFiles>>

(* Refit, expand the manifest, predict and select: any batch of distinct   *)
(* candidates, or a ValueError nobody catches when the online fit or the   *)
(* selection has too few rows.                                             *)
SelectBatch ==
    /\ pc = "select"
    /\ LET batches == SelectableBatches(Candidates(registry, measured, HoldoutGroups))
       IN  IF (round > 0 => OnlineFitPossible(feedback)) /\ batches # {}
           THEN /\ \E rows \in batches : request' = Request(round, rows)
                /\ Goto("write_request")
           ELSE End("uncaught") /\ UNCHANGED request
    /\ UNCHANGED <<attempt, plan, registry, round, feedback, measured, code,
                   rootFiles, roundFiles>>

(* Prepare the round directory and write the request. *)
WriteRequest ==
    /\ pc = "write_request"
    /\ \/ /\ feedbackFile[round].kind # "unsafe"
          /\ requestFile' = [requestFile EXCEPT ![round] = request]
          /\ Goto("clear_feedback")
       \/ /\ feedbackFile[round].kind = "unsafe"
          /\ End("contract_error") /\ UNCHANGED requestFile
       \/ End("execution_error") /\ UNCHANGED requestFile
    /\ UNCHANGED <<attempt, memory, rootFiles, feedbackFile, failureFile>>

(* Mutated form: the feedback an earlier attempt left stays. *)
KeepFeedback ==
    /\ pc = "clear_feedback" /\ Goto("measure")
    /\ UNCHANGED <<attempt, memory, rootFiles, roundFiles>>

(* Remove the feedback an earlier attempt left, then run the command. *)
ClearFeedback ==
    /\ pc = "clear_feedback"
    /\ \/ /\ feedbackFile' = [feedbackFile EXCEPT ![round] = Absent]
          /\ Goto("measure")
       \/ End("execution_error") /\ UNCHANGED feedbackFile
    /\ UNCHANGED <<attempt, memory, rootFiles, requestFile, failureFile>>

(* What a measurement command can leave for a request: its answer with     *)
(* every mix of terminal statuses, an answer with one faulty row, one row  *)
(* missing or another request's hash, a torn file, something unsafe, or    *)
(* the file as it found it.                                                *)
CommandFeedback(req) ==
    LET rows == req.rows
        One == CHOOSE g \in rows : TRUE
        AllBut(status) == [g \in rows |-> IF g = One THEN status ELSE "success"]
        Foreign == [req EXCEPT !.round = req.round + 1]
    IN  {Feedback(req, status) : status \in [rows -> Terminal]}
        \cup {Feedback(req, AllBut(bad)) : bad \in {"bad_metrics", "bad_status"}}
        \cup {Feedback(req, [g \in rows \ {One} |-> "success"]),
              Feedback(Foreign, AllBut("success")), Torn, Unsafe, feedbackFile[round]}

CommandReturns ==
    /\ pc = "measure"
    /\ \E file \in CommandFeedback(request), succeeded \in BOOLEAN :
          /\ feedbackFile' = [feedbackFile EXCEPT ![round] = file]
          /\ CASE ~succeeded -> code' = "command_failed" /\ Goto("write_failure")
               [] succeeded /\ file.kind = "unsafe" ->
                     End("contract_error") /\ UNCHANGED code
               [] OTHER -> Goto("release") /\ UNCHANGED code
    /\ UNCHANGED <<attempt, plan, registry, round, request, feedback, measured,
                   rootFiles, requestFile, failureFile>>

(* All rows of a valid feedback are released at once; an invalid one       *)
(* releases nothing and fails the search.                                  *)
Release ==
    LET file == feedbackFile[round]
        faults == ReleaseFaults(file, request)
    IN  /\ pc = "release"
        /\ \/ /\ faults = {}
              /\ feedback' = feedback \cup ReleasedRows(file)
              /\ measured' = measured \cup DOMAIN file.status
              /\ round' = round + 1
              /\ Goto(IF round + 1 < RoundCount THEN "history" ELSE "write_completed")
              /\ UNCHANGED code
           \/ /\ code' \in faults
              /\ Goto("write_failure")
              /\ UNCHANGED <<feedback, measured, round>>
        /\ UNCHANGED <<attempt, plan, registry, request, rootFiles, roundFiles>>

ValidateHistory ==
    /\ pc = "history"
    /\ IF HistoryValid(feedback, round) THEN Goto("select") ELSE End("uncaught")
    /\ UNCHANGED <<attempt, memory, rootFiles, roundFiles>>

(* Mutated form: a failed round is selected anew instead of failing. *)
RetryRound ==
    /\ pc = "write_failure" /\ Goto("select")
    /\ UNCHANGED <<attempt, memory, rootFiles, roundFiles>>

WriteFailure ==
    /\ pc = "write_failure"
    /\ failureFile' = [failureFile EXCEPT ![round] = Failure(code)]
    /\ Goto("write_failed")
    /\ UNCHANGED <<attempt, memory, rootFiles, requestFile, feedbackFile>>

WriteState ==
    /\ \/ pc = "write_failed" /\ stateFile' = State("failed") /\ End("failed")
       \/ pc = "write_completed" /\ stateFile' = State("completed") /\ End("completed")
    /\ UNCHANGED <<attempt, memory, manifestFile, planFile, registryFile, roundFiles>>

(* The disk fills up, or the process dies, in the middle of a write_text. *)
InterruptWrite ==
    /\ \/ /\ pc = "write_plan" /\ planFile' = Torn
          /\ UNCHANGED <<stateFile, requestFile, failureFile>>
       \/ /\ pc = "write_request" /\ feedbackFile[round].kind # "unsafe"
          /\ requestFile' = [requestFile EXCEPT ![round] = Torn]
          /\ UNCHANGED <<planFile, stateFile, failureFile>>
       \/ /\ pc = "write_failure"
          /\ failureFile' = [failureFile EXCEPT ![round] = Torn]
          /\ UNCHANGED <<planFile, stateFile, requestFile>>
       \/ /\ pc \in {"write_failed", "write_completed"} /\ stateFile' = Torn
          /\ UNCHANGED <<planFile, requestFile, failureFile>>
    /\ \E how \in {"io_error", "crashed"} : End(how)
    /\ UNCHANGED <<attempt, memory, manifestFile, registryFile, feedbackFile>>

Crash ==
    /\ pc # "idle" /\ End("crashed")
    /\ UNCHANGED <<attempt, memory, rootFiles, roundFiles>>

(* The controller's own steps, and what its environment does to it. *)
ControllerStep ==
    \/ Setup \/ ClearManifest \/ LoadInputs \/ WritePlan \/ SelectBatch \/ WriteRequest
    \/ ClearFeedback \/ Release \/ ValidateHistory \/ WriteFailure \/ WriteState
CommandStep == ScanReturns \/ RegistryReturns \/ CommandReturns
Next ==
    /\ frameworkMode' = frameworkMode
    /\ Start \/ ControllerStep \/ CommandStep \/ InterruptWrite \/ Crash

Spec == Init /\ [][Next]_vars

(* The controller's process keeps running; its commands may hang (they are *)
(* run without a timeout) and nobody has to start another attempt.         *)
Fairness == WF_vars(ControllerStep /\ frameworkMode' = frameworkMode)

-----------------------------------------------------------------------------
Idle == pc = "idle"
InRound == {"write_request", "clear_feedback", "measure", "release"}
Steps == InRound \cup {"idle", "setup", "scan_clear", "scan", "inputs", "write_plan",
                       "registry", "select", "history", "write_failure",
                       "write_failed", "write_completed"}
Exits == {"none", "completed", "failed", "contract_error", "execution_error",
          "io_error", "uncaught", "crashed"}
Statuses == Terminal \cup {"bad_metrics", "bad_status"}
RequestType == [kind : {"request"}, round : 0 .. RoundCount, rows : SUBSET Genomes]
StatusType == UNION {[rows -> Statuses] : rows \in SUBSET Genomes}
FeedbackType == [kind : {"feedback"}, request : RequestType, status : StatusType,
                 origin : 1 .. MaxAttempts]
ReleasedType == [genome : Genomes, status : Terminal, round : Rounds,
                 origin : 1 .. MaxAttempts]
ManifestType == [kind : {"manifest"}, plan : SUBSET Genomes, origin : 1 .. MaxAttempts]

TypeOK ==
    /\ pc \in Steps /\ exit \in Exits
    /\ attempt \in 0 .. MaxAttempts /\ round \in 0 .. RoundCount
    /\ plan \subseteq Genomes /\ measured \subseteq Genomes
    /\ registry \in Registries \cup {Absent}
    /\ registryFile \in Registries \cup {Absent, Torn}
    /\ request \in RequestType \cup {Absent}
    /\ feedback \subseteq ReleasedType
    /\ code \in Recoverable \cup {"none"}
    /\ manifestFile \in ManifestType \cup {Absent, Torn}
    /\ requestFile \in [Rounds -> RequestType \cup {Absent, Torn}]
    /\ feedbackFile \in [Rounds -> FeedbackType \cup {Absent, Torn, Unsafe}]

(* A released row was measured by a command of this very attempt: feedback *)
(* left behind by an earlier attempt is never taken for an answer, even    *)
(* when both attempts asked for the same batch and so for the same hash.   *)
FreshEvidence == \A f \in feedback : f.origin = attempt

(* The budget is spent in whole batches of genomes not measured before and *)
(* outside the frozen holdout: after k rounds exactly k batches are        *)
(* measured, and the batch in progress shares no genome with them.         *)
BudgetExact ==
    /\ Cardinality(measured) = round * BatchSize
    /\ measured = {f.genome : f \in feedback}
    /\ \A g \in measured : g[1] \notin HoldoutGroups
    /\ pc \in InRound => /\ Cardinality(request.rows) = BatchSize
                         /\ request.rows \cap measured = {}

(* A search that reports completion leaves paired evidence on disk: every  *)
(* round's request and feedback file agree, were produced by this attempt, *)
(* and together cover the whole budget the state file claims.              *)
CompletedIsPaired ==
    exit = "completed" =>
        /\ stateFile.status = "completed" /\ stateFile.by = attempt
        /\ stateFile.measured = SampleBudget /\ stateFile.completed = RoundCount
        /\ \A r \in Rounds : /\ feedbackFile[r].request = requestFile[r]
                             /\ feedbackFile[r].origin = attempt
        /\ measured = UNION {requestFile[r].rows : r \in Rounds}

(* A refused batch consumes nothing: the failed state counts the earlier   *)
(* rounds only, the refused request shares no genome with what they        *)
(* measured, and the failure file of that very round names the cause.      *)
FailedBatchIsFree ==
    exit = "failed" =>
        /\ stateFile.status = "failed" /\ stateFile.by = attempt
        /\ stateFile.measured = round * BatchSize /\ stateFile.completed = round
        /\ round < RoundCount /\ request.rows \cap measured = {}
        /\ failureFile[round] = Failure(code)

(* What an attempt reports at its end is what it leaves on disk: completion   *)
(* the paired evidence of the whole budget, failure a batch that cost nothing.*)
ExitIsTrue == CompletedIsPaired /\ FailedBatchIsFree

(* In framework mode the manifest is one scanned in this very attempt, and *)
(* the registry a search works on has exactly the identities of the plan   *)
(* expanded from it.  The registry file itself is never unlinked and may   *)
(* be an earlier attempt's, if it has these identities.                    *)
SpaceIsFromThisScan ==
    frameworkMode /\ (pc \in InRound \cup {"select", "history"} \/ exit = "completed") =>
        /\ manifestFile.origin = attempt /\ manifestFile.plan = plan
        /\ Candidates(registry, {}, {}) = plan

(* Genomes become measured only by the release of the whole requested      *)
(* batch, with the request still on disk beside a feedback that answers it.*)
WholeBatches ==
    [][attempt' = attempt /\ measured' # measured =>
           /\ measured' = measured \cup request.rows
           /\ requestFile[round] = request /\ feedbackFile[round].request = request
           /\ round' = round + 1]_vars

(* As long as its process runs, an attempt can hang in one external        *)
(* command and nowhere else: otherwise it ends.                            *)
HangsOnlyInCommand ==
    []<>Idle \/ \E step \in {"scan", "registry", "measure"} : <>[](pc = step)

(* What a search promises, whatever happens inside its rounds. *)
Phase == CASE ~Idle -> "searching"
           [] Idle /\ exit = "none" -> "off"
           [] Idle /\ exit = "completed" -> "completed"
           [] OTHER -> "stopped"
Promise == INSTANCE BudgetedSearch WITH
    Genome <- Genomes, Batch <- BatchSize, RoundLimit <- RoundCount,
    completed <- round, phase <- Phase
PromiseKept == Promise!Spec

-----------------------------------------------------------------------------
(* docs/superpowers/specs/2026-08-17-p6-2-dynamic-framework-candidate-     *)
(* space-design.md:23: a framework candidate list holds at least the       *)
(* budget of unmeasured candidates before round 0, or the measurement      *)
(* adapter is not started.                                                 *)
AdmittedSpaceCoversBudget ==
    frameworkMode /\ pc = "measure" =>
        Cardinality(Candidates(registry, {}, HoldoutGroups)) >= SampleBudget
================================================================================
