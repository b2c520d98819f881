-------------------------- MODULE HistoryMeasurement ---------------------------
(***************************************************************************)
(* The measurement adapter, measure_p6_history_batch.py over               *)
(* run_history_measurement_batch: what the P6 controller runs as its       *)
(* measurement command.  One adapter process takes one request through GPU *)
(* admission, a private round directory, the activation and the five       *)
(* stages of the historical chain, a second GPU check, the translation of  *)
(* the private evidence, and the publication of a feedback file.           *)
(*                                                                         *)
(* Adapters share the private root, whose directories are named by round   *)
(* index alone, and the feedback destination of the round.  In a           *)
(* sequential history the controller runs them one by one; in another, an  *)
(* adapter that outlived its controller runs beside the next one.          *)
(*                                                                         *)
(* External: the stages of the chain, and the GPUs.  A stage may fail, may *)
(* return 0 and leave anything behind, and takes the request that is on    *)
(* disk.  A request stands for its hash, row hashes and source evidence;   *)
(* the terminal statuses of its rows stand as one status of the batch.     *)
(***************************************************************************)
EXTENDS Integers, FiniteSets, Sequences

CONSTANTS
    Adapters,    \* adapter processes that may ever be started (bound)
    Requests,    \* requests the controller can write, with their round_index
    Foreign,     \* stands for any identity that is not that of a request
    GpuStates    \* what the GPUs can look like

ASSUME RequestAssumption ==
    /\ IsFiniteSet(Adapters)
    /\ Requests # {} /\ \A q \in Requests : q.round \in Nat
    /\ Foreign \notin Requests
    /\ "ok" \in GpuStates /\ GpuStates \subseteq {"ok", "occupied", "drifted"}

VARIABLES
    sequential,  \* in this history adapters never overlap
    pc,        \* step of each adapter, "new" before it and "done" after it
    exit,      \* its stable category, "none" while it runs
    request,   \* the request it was started for
    step,      \* commands it has finished, or evidence files it has read
    evidence,  \* what it has read of them
    gpu,       \* "ok", "occupied", or "drifted" for good
    private,   \* files of each private round directory
    feedback,  \* feedback file of each round
    seen       \* ghost: GPU states each adapter's chain ran under

vars == <<sequential, pc, exit, request, step, evidence, gpu, private, feedback, seen>>

-----------------------------------------------------------------------------
Rounds == {q.round : q \in Requests}
Files == {"request", "state", "result", "receipt", "barrier"}

(* The activation command, then EXECUTION_STAGES. *)
Chain == <<"activation", "source_materialization", "quantization", "performance",
           "ap", "finalization">>
Evidence == <<"state", "result", "receipt", "barrier">>

Absent == [kind |-> "absent"]
Unreadable == [kind |-> "unreadable"]
RequestFile(q) == [kind |-> "request", of |-> q]
StateFile(stage, q, status) ==
    [kind |-> "state", stage |-> stage, of |-> q, status |-> status]
(* origin is a ghost: the adapter whose chain measured. *)
ResultFile(q, status, metrics, a) ==
    [kind |-> "result", of |-> q, status |-> status, metrics |-> metrics, origin |-> a]
Completion(q) == [kind |-> "completion", of |-> q]

Success == "measured_success_gold"
Terminal == {Success, "feasibility_failure"}

(* Mutated form: only what the chain itself writes counts. *)
FreshEvidence(files) == \A f \in {"result", "receipt", "barrier"} : files[f] = Absent
(* A private round may be used if none of its five files exists. *)
Fresh(files) == \A f \in Files : files[f] = Absent

Settled(e, q) == e.receipt = Completion(q) /\ e.barrier = Completion(q)

(* The evidence read shows that the whole chain ran on q, row by row. *)
Translatable(e, q) ==
    /\ e.state.kind = "state" /\ e.state.stage = Chain[Len(Chain)]
    /\ e.state.of = q /\ e.state.status \in Terminal
    /\ e.result.kind = "result" /\ e.result.of = q
    /\ e.result.status = e.state.status
    /\ e.result.status = Success => e.result.metrics = "valid"
    /\ Settled(e, q)

-----------------------------------------------------------------------------
Nothing == [f \in Files |-> Absent]
Idle(a) == pc[a] \in {"new", "done"}

Init ==
    /\ sequential \in BOOLEAN
    /\ pc = [a \in Adapters |-> "new"] /\ exit = [a \in Adapters |-> "none"]
    /\ request \in [Adapters -> {CHOOSE q \in Requests : TRUE}]
    /\ step = [a \in Adapters |-> 0]
    /\ evidence = [a \in Adapters |-> Nothing]
    /\ gpu \in GpuStates
    /\ private = [r \in Rounds |-> Nothing]
    /\ feedback = [r \in Rounds |-> Absent]
    /\ seen = [a \in Adapters |-> {}]

(* An adapter goes on to the next step, done so far in a loop, or it ends  *)
(* with its category and its memory is gone.                               *)
GotoAt(a, label, done) ==
    /\ pc' = [pc EXCEPT ![a] = label] /\ step' = [step EXCEPT ![a] = done]
    /\ UNCHANGED exit
Goto(a, label) == GotoAt(a, label, 0) /\ UNCHANGED evidence
End(a, category) ==
    /\ pc' = [pc EXCEPT ![a] = "done"] /\ exit' = [exit EXCEPT ![a] = category]
    /\ step' = [step EXCEPT ![a] = 0] /\ evidence' = [evidence EXCEPT ![a] = Nothing]

(* External: the controller of a round removes its old feedback and starts *)
(* an adapter for the request it has written.                              *)
Start(a) ==
    /\ pc[a] = "new"
    /\ sequential => \A b \in Adapters : Idle(b)
    /\ \E q \in Requests :
          /\ request' = [request EXCEPT ![a] = q]
          /\ feedback' = [feedback EXCEPT ![q.round] = Absent]
    /\ Goto(a, "prepare")
    /\ UNCHANGED <<gpu, private, seen>>

(* The destination must not exist; binding, interface, request, policies   *)
(* and paths are validated before anything is touched.                     *)
Prepare(a) ==
    /\ pc[a] = "prepare"
    /\ \/ feedback[request[a].round] = Absent /\ Goto(a, "admit")
       \/ feedback[request[a].round] # Absent /\ End(a, "unsafe_destination")
       \/ \E category \in {"history_execution_invalid", "history_request_invalid"} :
             End(a, category)
    /\ UNCHANGED <<request, gpu, private, feedback, seen>>

(* One snapshot of the bound GPUs. *)
Admit(a) ==
    /\ pc[a] = "admit"
    /\ IF gpu = "ok" THEN Goto(a, "check_fresh")
                     ELSE End(a, "history_gpu_admission_failed")
    /\ UNCHANGED <<request, gpu, private, feedback, seen>>

(* The five files are looked up one by one; another adapter only adds      *)
(* files, so the outcome is that of looking at them together.              *)
CheckFresh(a) ==
    /\ pc[a] = "check_fresh"
    /\ \/ Fresh(private[request[a].round]) /\ Goto(a, "write_request")
       \/ End(a, "history_execution_invalid")
    /\ UNCHANGED <<request, gpu, private, feedback, seen>>

(* A file replaced from a synced temporary.  It can fail before the        *)
(* replacement, and after it when the directory cannot be synced.          *)
Put(a, file, content, next) ==
    LET r == request[a].round
    IN  \/ private' = [private EXCEPT ![r][file] = content] /\ Goto(a, next)
        \/ /\ private' \in {private, [private EXCEPT ![r][file] = content]}
           /\ End(a, "history_execution_invalid")

WriteRequest(a) ==
    /\ pc[a] = "write_request"
    /\ Put(a, "request", RequestFile(request[a]), "write_state")
    /\ UNCHANGED <<request, gpu, feedback, seen>>

WriteTaskState(a) ==
    /\ pc[a] = "write_state"
    /\ Put(a, "state", StateFile("initialized", request[a], "pending"), "chain")
    /\ UNCHANGED <<request, gpu, feedback, seen>>

(* External: what finalization makes of the request q on disk: nothing, a  *)
(* coherent set of files, or one with a defect in one of them.             *)
Coherent(q, status, a) ==
    [request |-> RequestFile(q), state |-> StateFile("finalization", q, status),
     result |-> ResultFile(q, status, "valid", a),
     receipt |-> Completion(q), barrier |-> Completion(q)]
Defects(q, found, a) ==
    [state |-> {found.state, StateFile("ap", q, Success),
                StateFile("finalization", Foreign, Success),
                StateFile("finalization", q, "feasibility_failure")},
     result |-> {found.result, ResultFile(q, Success, "invalid", a),
                 ResultFile(Foreign, Success, "valid", a)},
     receipt |-> {found.receipt, Completion(Foreign)},
     barrier |-> {found.barrier, Unreadable, Completion(Foreign)}]
Finalized(q, found, a) ==
    {found} \cup {Coherent(q, status, a) : status \in Terminal}
    \cup UNION {{[Coherent(q, Success, a) EXCEPT ![f] = bad] : bad \in Defects(q, found, a)[f]} :
               f \in Files \ {"request"}}

(* One command of the chain.  A non-zero exit code ends the adapter,       *)
(* whatever the command has left; 0 says nothing about its files.          *)
RunCommand(a) ==
    LET r == request[a].round
        command == Chain[step[a] + 1]
    IN  /\ pc[a] = "chain" /\ step[a] < Len(Chain)
        /\ \E files \in CASE command = "activation" -> {private[r]}
                          [] command = "finalization" ->
                                Finalized(private[r].request.of, private[r], a)
                          [] OTHER -> {private[r], [private[r] EXCEPT !.state.stage = command]} :
              private' = [private EXCEPT ![r] = files]
        /\ seen' = [seen EXCEPT ![a] = @ \cup {gpu}]
        /\ \/ /\ IF step[a] + 1 = Len(Chain) THEN GotoAt(a, "recheck", 0)
                                              ELSE GotoAt(a, "chain", step[a] + 1)
              /\ UNCHANGED evidence
           \/ End(a, "history_execution_failed")
        /\ UNCHANGED <<request, gpu, feedback>>

(* Mutated form: the GPUs are only looked at before the chain. *)
SkipRecheck(a) ==
    /\ pc[a] = "recheck" /\ Goto(a, "read")
    /\ UNCHANGED <<request, gpu, private, feedback, seen>>

(* The second snapshot, after the last stage. *)
Recheck(a) ==
    /\ pc[a] = "recheck"
    /\ IF gpu = "ok" THEN Goto(a, "read") ELSE End(a, "history_gpu_admission_failed")
    /\ UNCHANGED <<request, gpu, private, feedback, seen>>

(* Mutated form: a file that cannot be read is read as anything else.      *)
ReadAnything(a) ==
    LET file == Evidence[step[a] + 1]
    IN  /\ pc[a] = "read"
        /\ evidence' = [evidence EXCEPT ![a][file] = private[request[a].round][file]]
        /\ IF step[a] + 1 = Len(Evidence) THEN GotoAt(a, "translate", 0)
                                          ELSE GotoAt(a, "read", step[a] + 1)
        /\ UNCHANGED <<request, gpu, private, feedback, seen>>

(* The four evidence files are read one after the other, then validated.   *)
ReadEvidence(a) ==
    LET file == Evidence[step[a] + 1]
        content == private[request[a].round][file]
    IN  /\ pc[a] = "read"
        /\ IF content \in {Absent, Unreadable}
           THEN End(a, "history_execution_invalid")
           ELSE /\ evidence' = [evidence EXCEPT ![a][file] = content]
                /\ IF step[a] + 1 = Len(Evidence) THEN GotoAt(a, "translate", 0)
                                                  ELSE GotoAt(a, "read", step[a] + 1)
        /\ UNCHANGED <<request, gpu, private, feedback, seen>>

Translate(a) ==
    /\ pc[a] = "translate"
    /\ IF Translatable(evidence[a], request[a]) THEN Goto(a, "publish_check")
                                                ELSE End(a, "history_execution_invalid")
    /\ UNCHANGED <<request, gpu, private, feedback, seen>>

(* The destination is looked up again, and then replaced. *)
PublishCheck(a) ==
    /\ pc[a] = "publish_check"
    /\ \/ feedback[request[a].round] = Absent /\ Goto(a, "publish")
       \/ feedback[request[a].round] # Absent /\ End(a, "unsafe_destination")
       \/ End(a, "history_execution_invalid")
    /\ UNCHANGED <<request, gpu, private, feedback, seen>>

(* writer, origin and measured are ghosts: who published, whose chain      *)
(* measured, and what.                                                     *)
Feedback(a) ==
    [kind |-> "feedback", of |-> request[a], status |-> evidence[a].result.status,
     writer |-> a, origin |-> evidence[a].result.origin, measured |-> evidence[a].result.of]

Publish(a) ==
    /\ pc[a] = "publish"
    /\ \/ feedback' = [feedback EXCEPT ![request[a].round] = Feedback(a)] /\ End(a, "written")
       \/ /\ feedback' \in {feedback, [feedback EXCEPT ![request[a].round] = Feedback(a)]}
          /\ End(a, "history_execution_invalid")
    /\ UNCHANGED <<request, gpu, private, seen>>

Crash(a) ==
    /\ ~Idle(a) /\ End(a, "crashed")
    /\ UNCHANGED <<request, gpu, private, feedback, seen>>

(* External: other users come and go; a replaced or lost card stays so.    *)
GpuChanges ==
    /\ gpu # "drifted" /\ gpu' \in GpuStates \ {gpu}
    /\ seen' = [a \in Adapters |-> IF pc[a] = "chain" THEN seen[a] \cup {gpu'} ELSE seen[a]]
    /\ UNCHANGED <<pc, exit, request, step, evidence, private, feedback>>

Step(a) ==
    \/ Prepare(a) \/ Admit(a) \/ CheckFresh(a) \/ WriteRequest(a) \/ WriteTaskState(a)
    \/ RunCommand(a) \/ Recheck(a) \/ ReadEvidence(a) \/ Translate(a)
    \/ PublishCheck(a) \/ Publish(a)

Next ==
    /\ sequential' = sequential
    /\ GpuChanges \/ \E a \in Adapters : Start(a) \/ Step(a) \/ Crash(a)

Spec == Init /\ [][Next]_vars

-----------------------------------------------------------------------------
Labels == {"new", "prepare", "admit", "check_fresh", "write_request", "write_state", "chain",
           "recheck", "read", "translate", "publish_check", "publish", "done"}
Categories == {"none", "written", "unsafe_destination", "history_execution_invalid",
               "history_request_invalid", "history_gpu_admission_failed",
               "history_execution_failed", "crashed"}
Identities == Requests \cup {Foreign}
ContentType ==
    [request |-> {Absent} \cup [kind : {"request"}, of : Requests],
     state |-> {Absent} \cup [kind : {"state"}, of : Identities,
                              stage : {"initialized"} \cup {Chain[k] : k \in 2 .. Len(Chain)},
                              status : Terminal \cup {"pending"}],
     result |-> {Absent} \cup [kind : {"result"}, of : Identities, status : Terminal,
                               metrics : {"valid", "invalid"}, origin : Adapters],
     receipt |-> {Absent} \cup [kind : {"completion"}, of : Identities],
     barrier |-> {Absent, Unreadable} \cup [kind : {"completion"}, of : Identities]]

TypeOK ==
    /\ sequential \in BOOLEAN
    /\ pc \in [Adapters -> Labels] /\ exit \in [Adapters -> Categories]
    /\ request \in [Adapters -> Requests] /\ step \in [Adapters -> 0 .. Len(Chain)]
    /\ gpu \in GpuStates
    /\ DOMAIN private = Rounds /\ DOMAIN feedback = Rounds
    /\ \A r \in Rounds, f \in Files : private[r][f] \in ContentType[f]
    /\ \A a \in Adapters, f \in Files : evidence[a][f] \in ContentType[f] \ {Unreadable}
    /\ seen \in [Adapters -> SUBSET GpuStates]

(* As long as adapters do not overlap, a private round is executed at most *)
(* once: whatever crashed, failed or was started again, the chain of a     *)
(* round is run by a single adapter.                                       *)
Executed(a) == seen[a] # {}
ChainAtMostOnce ==
    sequential => \A a, b \in Adapters :
        Executed(a) /\ Executed(b) /\ request[a].round = request[b].round => a = b

(* The same: the feedback of a round was measured by the adapter that      *)
(* published it, for the request it was started with, in a finished chain  *)
(* whose state, result, receipt and barrier are on disk and agree.         *)
FeedbackHasEvidence ==
    sequential => \A r \in Rounds : feedback[r].kind = "feedback" =>
        /\ feedback[r].origin = feedback[r].writer
        /\ private[r].request = RequestFile(feedback[r].of)
        /\ private[r].state = StateFile("finalization", feedback[r].of, feedback[r].status)
        /\ private[r].result.status = feedback[r].status
        /\ private[r].receipt = Completion(feedback[r].of)
        /\ private[r].barrier = Completion(feedback[r].of)

(* As long as adapters do not overlap, a batch measured while a card was   *)
(* replaced is never published: the change is still there when the GPUs    *)
(* are looked at after the chain.  It is the chain the evidence came from  *)
(* that counts; an adapter that overlaps another may publish what the      *)
(* other measured, and its own second look says nothing of that.           *)
DriftIsNeverPublished ==
    sequential => \A r \in Rounds : feedback[r].kind = "feedback" =>
        "drifted" \notin seen[feedback[r].origin]

(* What is published as the measurement of a request was measured for that *)
(* very request, even when another adapter works in the same private round *)
(* and overwrites its files between two reads.                             *)
AnswersOwnRequest ==
    \A r \in Rounds : feedback[r].kind = "feedback" =>
        feedback[r].measured = feedback[r].of /\ feedback[r].of.round = r

(* What is published answers the request it names, whatever overlaps; and,    *)
(* where adapters take turns, it has its evidence and no card was replaced    *)
(* while it was measured.                                                     *)
PublishedIsSound == FeedbackHasEvidence /\ AnswersOwnRequest /\ DriftIsNeverPublished
================================================================================
