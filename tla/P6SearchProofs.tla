----------------------------- MODULE P6SearchProofs ------------------------------
(***************************************************************************)
(* Proofs about the P6 search controller for every candidate space, batch  *)
(* size, number of rounds and number of attempts: typing, the exact budget *)
(* accounting, the freshness of released evidence, the refinement of       *)
(* BudgetedSearch, the origin of the candidate space, and the truth of     *)
(* what an attempt reports at its end.                                     *)
(*                                                                         *)
(* The budget invariant is not inductive by itself: it does not say where  *)
(* the counters stand when the batch of the round is chosen.  SearchInv    *)
(* adds what each control point knows about round, request and registry,   *)
(* and EvidenceInv what the feedback file of the round can hold there.     *)
(* Four auxiliary invariants rest on it: PairInv (the request of the round *)
(* on disk), DiskInv (the rounds behind it on disk), EndInv (what the end  *)
(* leaves) and ManifestInv (manifest, plan and registry).                  *)
(***************************************************************************)
EXTENDS P6Search, FiniteSetTheorems, TLAPS

Requested == InRound \cup {"write_failure", "write_failed"}
Searching == Requested \cup {"select", "history", "write_completed"}

(* What is in memory at each control point. *)
ControlInv ==
    /\ pc \in Searching => registry \in Registries
    /\ pc \in {"select", "history"} => round < RoundCount
    /\ pc = "write_completed" => round = RoundCount
    /\ pc = "write_plan" => manifestFile \in ManifestType
    /\ frameworkMode /\ pc = "inputs" => manifestFile \in ManifestType
    /\ pc \in Requested => /\ request \in RequestType /\ request.round = round
                           /\ round < RoundCount
    /\ pc # "idle" => exit = "none" /\ attempt \in 1 .. MaxAttempts
    /\ exit = "completed" => round = RoundCount

(* The account of the budget, with what makes it inductive. *)
SearchInv ==
    /\ Cardinality(measured) = round * BatchSize
    /\ measured = {f.genome : f \in feedback}
    /\ \A g \in measured : g[1] \notin HoldoutGroups
    /\ pc \notin Searching \cup {"idle"} => round = 0
    /\ pc \in Requested => /\ Cardinality(request.rows) = BatchSize
                           /\ request.rows \cap measured = {}
                           /\ \A g \in request.rows : g[1] \notin HoldoutGroups

(* Whose feedback the file of the current round can hold. *)
EvidenceInv ==
    /\ FreshEvidence
    /\ pc = "measure" => feedbackFile[round].kind = "absent"
    /\ pc = "release" => /\ feedbackFile[round].kind # "unsafe"
                         /\ feedbackFile[round].kind = "feedback" =>
                                feedbackFile[round].origin = attempt

IInv == TypeOK /\ ControlInv /\ SearchInv /\ EvidenceInv

-----------------------------------------------------------------------------
(* Candidate spaces are finite, and so is everything measured in them. *)
LEMMA GenomesFinite == IsFiniteSet(Genomes)
  BY SpaceAssumption, FS_Product DEF Genomes

(* A batch that can be selected has BatchSize genomes of the registry, all *)
(* new and none from the holdout.                                          *)
LEMMA SelectableIsFresh ==
  ASSUME NEW reg \in Registries, NEW seen, NEW holdout,
         NEW rows \in SelectableBatches(Candidates(reg, seen, holdout))
  PROVE  /\ rows \subseteq Genomes /\ Cardinality(rows) = BatchSize
         /\ rows \cap seen = {} /\ \A g \in rows : g[1] \notin holdout
  <1>1. reg.rows \subseteq Genomes
    BY SpaceAssumption
  <1>2. QED
    BY <1>1 DEF SelectableBatches, Candidates

(* A feedback without faults answers the request with exactly its rows,    *)
(* all of them terminal.                                                   *)
LEMMA FaultlessFeedback ==
  ASSUME NEW file \in FeedbackType \cup {Absent, Torn}, NEW req,
         ReleaseFaults(file, req) = {}
  PROVE  /\ file \in FeedbackType /\ file.kind = "feedback"
         /\ file.request = req /\ DOMAIN file.status = req.rows
         /\ \A g \in DOMAIN file.status : file.status[g] \in Terminal
  <1>1. file # Absent /\ file # Torn
    BY DEF ReleaseFaults, Absent, Torn
  <1>2. file \in FeedbackType /\ file.kind = "feedback"
    BY <1>1 DEF FeedbackType
  <1>3. Answers(file, req) /\ ReturnsAll(file, req)
    BY <1>2 DEF ReleaseFaults
  <1>4. RowFaults(file) = {}
    BY <1>2, <1>3 DEF ReleaseFaults
  <1>5. \A g \in DOMAIN file.status : file.status[g] \in Terminal
    BY <1>4 DEF RowFaults
  <1>6. QED
    BY <1>2, <1>3, <1>5 DEF Answers, ReturnsAll

(* A command can only leave feedback of the current attempt, or what it    *)
(* found.                                                                  *)
LEMMA CommandFeedbackType ==
  ASSUME NEW req \in RequestType, req.round < RoundCount, attempt \in 1 .. MaxAttempts,
         NEW file \in CommandFeedback(req)
  PROVE  \/ file \in FeedbackType /\ file.kind = "feedback" /\ file.origin = attempt
         \/ file \in {Torn, Unsafe, feedbackFile[round]}
  <1> DEFINE One == CHOOSE g \in req.rows : TRUE
             AllBut(status) == [g \in req.rows |-> IF g = One THEN status ELSE "success"]
             Foreign == [req EXCEPT !.round = req.round + 1]
  <1>1. req.rows \subseteq Genomes /\ req.round \in 0 .. RoundCount
    BY DEF RequestType
  <1>2. Foreign \in RequestType
    BY <1>1, BatchAssumption DEF RequestType
  <1>3. \A status \in Statuses : AllBut(status) \in StatusType
    BY <1>1 DEF StatusType, Statuses, Terminal
  <1>4. [req.rows -> Terminal] \subseteq StatusType
    BY <1>1 DEF StatusType, Statuses
  <1>5. [g \in req.rows \ {One} |-> "success"] \in StatusType
    <2>1. req.rows \ {One} \in SUBSET Genomes
      BY <1>1
    <2>2. \A rows \in SUBSET Genomes : [g \in rows |-> "success"] \in StatusType
      BY DEF StatusType, Statuses, Terminal
    <2>3. QED
      BY <2>1, <2>2
  <1>6. \A q \in RequestType, status \in StatusType :
           Feedback(q, status) \in FeedbackType /\ Feedback(q, status).kind = "feedback"
              /\ Feedback(q, status).origin = attempt
    BY DEF Feedback, FeedbackType
  <1>7. {"bad_metrics", "bad_status", "success"} \subseteq Statuses
    BY DEF Statuses, Terminal
  <1> HIDE DEF One, AllBut, Foreign
  <1>8. CommandFeedback(req) =
           {Feedback(req, status) : status \in [req.rows -> Terminal]}
           \cup {Feedback(req, AllBut(bad)) : bad \in {"bad_metrics", "bad_status"}}
           \cup {Feedback(req, [g \in req.rows \ {One} |-> "success"]),
                 Feedback(Foreign, AllBut("success")), Torn, Unsafe, feedbackFile[round]}
    BY DEF CommandFeedback, One, AllBut, Foreign
  <1>9. CASE file \in {Feedback(req, status) : status \in [req.rows -> Terminal]}
    BY <1>4, <1>6, <1>9
  <1>10. CASE file \in {Feedback(req, AllBut(bad)) : bad \in {"bad_metrics", "bad_status"}}
    BY <1>3, <1>6, <1>7, <1>10
  <1>11. CASE file = Feedback(req, [g \in req.rows \ {One} |-> "success"])
    BY <1>5, <1>6, <1>11
  <1>12. CASE file = Feedback(Foreign, AllBut("success"))
    BY <1>2, <1>3, <1>6, <1>7, <1>12
  <1>13. QED
    BY <1>8, <1>9, <1>10, <1>11, <1>12

-----------------------------------------------------------------------------
(* At the start nothing is in memory, on disk or measured.                 *)
LEMMA InitIInv == Init => IInv
  <1> SUFFICES ASSUME Init PROVE IInv
    OBVIOUS
  <1>2. TypeOK
    <2>1. attempt \in 0 .. MaxAttempts /\ round \in 0 .. RoundCount
      BY BatchAssumption, BoundAssumption DEF Init
    <2>2. requestFile \in [Rounds -> RequestType \cup {Absent, Torn}]
      BY DEF Init
    <2>3. feedbackFile \in [Rounds -> FeedbackType \cup {Absent, Torn, Unsafe}]
      BY DEF Init
    <2>4. pc \in Steps /\ exit \in Exits /\ code \in Recoverable \cup {"none"}
      BY DEF Init, Steps, Exits
    <2>5. QED
      BY <2>1, <2>2, <2>3, <2>4 DEF Init, TypeOK
  <1>3. ControlInv
    BY DEF Init, ControlInv, Searching, Requested, InRound
  <1>4. SearchInv
    BY FS_EmptySet, BatchAssumption DEF Init, SearchInv, Searching, Requested, InRound
  <1>5. EvidenceInv
    BY DEF Init, EvidenceInv, FreshEvidence
  <1>6. QED
    BY <1>2, <1>3, <1>4, <1>5 DEF IInv

(* Leaving the setup touches nothing the invariant speaks of. *)
LEMMA SetupIInv == IInv /\ Setup /\ frameworkMode' = frameworkMode => IInv'
  <1> SUFFICES ASSUME IInv, Setup, frameworkMode' = frameworkMode PROVE IInv'
    OBVIOUS
  <1>1. TypeOK'
    BY DEF IInv, Setup, memory, rootFiles, roundFiles, Goto, End, TypeOK, Steps,
           InRound, Exits
  <1>2. ControlInv'
    BY DEF IInv, Setup, memory, rootFiles, roundFiles, Goto, End, ControlInv,
           Searching, Requested, InRound
  <1>3. SearchInv'
    BY DEF IInv, Setup, memory, rootFiles, roundFiles, Goto, End, SearchInv, Searching,
           Requested, InRound
  <1>4. EvidenceInv'
    BY DEF IInv, Setup, memory, rootFiles, roundFiles, Goto, End, EvidenceInv,
           FreshEvidence
  <1>5. QED
    BY <1>1, <1>2, <1>3, <1>4 DEF IInv

(* Nor does the removal of the manifest. *)
LEMMA ClearManifestIInv == IInv /\ ClearManifest => IInv'
  <1> SUFFICES ASSUME IInv, ClearManifest PROVE IInv'
    OBVIOUS
  <1>1. TypeOK'
    BY DEF IInv, ClearManifest, memory, roundFiles, Goto, TypeOK, Steps, InRound, Exits
  <1>2. ControlInv'
    BY DEF IInv, ClearManifest, memory, roundFiles, Goto, ControlInv, Searching,
           Requested, InRound
  <1>3. SearchInv'
    BY DEF IInv, ClearManifest, memory, roundFiles, Goto, SearchInv, Searching,
           Requested, InRound
  <1>4. EvidenceInv'
    BY DEF IInv, ClearManifest, memory, roundFiles, Goto, EvidenceInv, FreshEvidence
  <1>5. QED
    BY <1>1, <1>2, <1>3, <1>4 DEF IInv

(* The scan only replaces the manifest. *)
LEMMA ScanReturnsIInv == IInv /\ ScanReturns => IInv'
  <1> SUFFICES ASSUME IInv, ScanReturns PROVE IInv'
    OBVIOUS
  <1>1. TypeOK'
    <2>1. \A p \in Plans : Manifest(p) \in ManifestType
      BY SpaceAssumption DEF IInv, ScanReturns, ControlInv, Manifest, ManifestType
    <2>2. manifestFile' \in ManifestType \cup {Absent, Torn}
      BY <2>1 DEF IInv, ScanReturns, TypeOK
    <2>3. QED
      BY <2>2 DEF IInv, ScanReturns, memory, roundFiles, Goto, End, TypeOK, Steps,
                  InRound, Exits
  <1>2. ControlInv'
    <2>1. (manifestFile').kind = "manifest" => manifestFile' \in ManifestType
      BY <1>1 DEF TypeOK, Absent, Torn
    <2>2. QED
      BY <2>1 DEF IInv, ScanReturns, memory, roundFiles, Goto, End, ControlInv,
                  Searching, Requested, InRound
  <1>3. SearchInv'
    BY DEF IInv, ScanReturns, memory, roundFiles, Goto, End, SearchInv, Searching,
           Requested, InRound
  <1>4. EvidenceInv'
    BY DEF IInv, ScanReturns, memory, roundFiles, Goto, End, EvidenceInv, FreshEvidence
  <1>5. QED
    BY <1>1, <1>2, <1>3, <1>4 DEF IInv

(* Loading the inputs only moves on. *)
LEMMA LoadInputsIInv == IInv /\ LoadInputs => IInv'
  <1> SUFFICES ASSUME IInv, LoadInputs PROVE IInv'
    OBVIOUS
  <1>1. TypeOK'
    BY DEF IInv, LoadInputs, memory, rootFiles, roundFiles, Goto, End, TypeOK, Steps,
           InRound, Exits
  <1>2. ControlInv'
    BY DEF IInv, LoadInputs, memory, rootFiles, roundFiles, Goto, End, ControlInv,
           Searching, Requested, InRound
  <1>3. SearchInv'
    BY DEF IInv, LoadInputs, memory, rootFiles, roundFiles, Goto, End, SearchInv,
           Searching, Requested, InRound
  <1>4. EvidenceInv'
    BY DEF IInv, LoadInputs, memory, rootFiles, roundFiles, Goto, End, EvidenceInv,
           FreshEvidence
  <1>5. QED
    BY <1>1, <1>2, <1>3, <1>4 DEF IInv

(* The plan comes from a manifest that was validated. *)
LEMMA WritePlanIInv == IInv /\ WritePlan => IInv'
  <1> SUFFICES ASSUME IInv, WritePlan PROVE IInv'
    OBVIOUS
  <1>1. TypeOK'
    <2>1. manifestFile.plan \subseteq Genomes
      BY DEF IInv, WritePlan, ControlInv, ManifestType
    <2>2. QED
      BY <2>1 DEF IInv, WritePlan, roundFiles, Goto, TypeOK, Steps, InRound, Exits
  <1>2. ControlInv'
    BY DEF IInv, WritePlan, roundFiles, Goto, ControlInv, Searching, Requested, InRound
  <1>3. SearchInv'
    BY DEF IInv, WritePlan, roundFiles, Goto, SearchInv, Searching, Requested, InRound
  <1>4. EvidenceInv'
    BY DEF IInv, WritePlan, roundFiles, Goto, EvidenceInv, FreshEvidence
  <1>5. QED
    BY <1>1, <1>2, <1>3, <1>4 DEF IInv

(* A registry that is kept is one of those the command writes. *)
LEMMA RegistryReturnsIInv == IInv /\ RegistryReturns => IInv'
  <1> SUFFICES ASSUME IInv, RegistryReturns PROVE IInv'
    OBVIOUS
  <1>1. TypeOK'
    <2>1. registryFile' \in Registries \cup {Absent, Torn}
      BY DEF IInv, RegistryReturns, TypeOK
    <2>2. (registryFile').kind = "registry" => registryFile' \in Registries
      BY <2>1 DEF Absent, Torn
    <2>3. registry' \in Registries \cup {Absent}
      BY <2>2 DEF IInv, RegistryReturns, TypeOK
    <2>4. QED
      BY <2>1, <2>3 DEF IInv, RegistryReturns, roundFiles, Goto, End, TypeOK, Steps,
                        InRound, Exits
  <1>2. ControlInv'
    <2>1. (registryFile').kind = "registry" => registryFile' \in Registries
      BY <1>1 DEF TypeOK, Absent, Torn
    <2>2. pc' = "select" => registry' \in Registries
      BY <2>1 DEF RegistryReturns, Goto, End
    <2>3. round = 0
      BY DEF IInv, SearchInv, RegistryReturns, Searching, Requested, InRound
    <2>4. QED
      BY <2>2, <2>3, BatchAssumption
      DEF IInv, RegistryReturns, roundFiles, Goto, End, ControlInv, Searching,
          Requested, InRound
  <1>3. SearchInv'
    BY DEF IInv, RegistryReturns, roundFiles, Goto, End, SearchInv, Searching,
           Requested, InRound
  <1>4. EvidenceInv'
    BY DEF IInv, RegistryReturns, roundFiles, Goto, End, EvidenceInv, FreshEvidence
  <1>5. QED
    BY <1>1, <1>2, <1>3, <1>4 DEF IInv

(* Validation of the history only moves on or ends. *)
LEMMA ValidateHistoryIInv == IInv /\ ValidateHistory => IInv'
  <1> SUFFICES ASSUME IInv, ValidateHistory PROVE IInv'
    OBVIOUS
  <1>1. TypeOK'
    BY DEF IInv, ValidateHistory, memory, rootFiles, roundFiles, Goto, End, TypeOK,
           Steps, InRound, Exits
  <1>2. ControlInv'
    BY DEF IInv, ValidateHistory, memory, rootFiles, roundFiles, Goto, End, ControlInv,
           Searching, Requested, InRound
  <1>3. SearchInv'
    BY DEF IInv, ValidateHistory, memory, rootFiles, roundFiles, Goto, End, SearchInv,
           Searching, Requested, InRound
  <1>4. EvidenceInv'
    BY DEF IInv, ValidateHistory, memory, rootFiles, roundFiles, Goto, End,
           EvidenceInv, FreshEvidence
  <1>5. QED
    BY <1>1, <1>2, <1>3, <1>4 DEF IInv

(* A failure file does not enter the account. *)
LEMMA WriteFailureIInv == IInv /\ WriteFailure => IInv'
  <1> SUFFICES ASSUME IInv, WriteFailure PROVE IInv'
    OBVIOUS
  <1>1. TypeOK'
    BY DEF IInv, WriteFailure, memory, rootFiles, Goto, TypeOK, Steps, InRound, Exits
  <1>2. ControlInv'
    BY DEF IInv, WriteFailure, memory, rootFiles, Goto, ControlInv, Searching,
           Requested, InRound
  <1>3. SearchInv'
    BY DEF IInv, WriteFailure, memory, rootFiles, Goto, SearchInv, Searching,
           Requested, InRound
  <1>4. EvidenceInv'
    BY DEF IInv, WriteFailure, memory, rootFiles, Goto, EvidenceInv, FreshEvidence
  <1>5. QED
    BY <1>1, <1>2, <1>3, <1>4 DEF IInv

(* Nor does the state file. *)
LEMMA WriteStateIInv == IInv /\ WriteState => IInv'
  <1> SUFFICES ASSUME IInv, WriteState PROVE IInv'
    OBVIOUS
  <1>1. TypeOK'
    BY DEF IInv, WriteState, memory, roundFiles, End, TypeOK, Steps, InRound, Exits
  <1>2. ControlInv'
    BY DEF IInv, WriteState, memory, roundFiles, End, ControlInv, Searching, Requested,
           InRound
  <1>3. SearchInv'
    BY DEF IInv, WriteState, memory, roundFiles, End, SearchInv, Searching, Requested,
           InRound
  <1>4. EvidenceInv'
    BY DEF IInv, WriteState, memory, roundFiles, End, EvidenceInv, FreshEvidence
  <1>5. QED
    BY <1>1, <1>2, <1>3, <1>4 DEF IInv

(* An interrupted write tears a file and ends the attempt. *)
LEMMA InterruptWriteIInv == IInv /\ InterruptWrite => IInv'
  <1> SUFFICES ASSUME IInv, InterruptWrite PROVE IInv'
    OBVIOUS
  <1>1. TypeOK'
    BY DEF IInv, InterruptWrite, memory, End, TypeOK, Steps, InRound, Exits
  <1>2. ControlInv'
    BY DEF IInv, InterruptWrite, memory, End, ControlInv, Searching, Requested, InRound
  <1>3. SearchInv'
    BY DEF IInv, InterruptWrite, memory, End, SearchInv, Searching, Requested, InRound
  <1>4. EvidenceInv'
    BY DEF IInv, InterruptWrite, memory, End, EvidenceInv, FreshEvidence
  <1>5. QED
    BY <1>1, <1>2, <1>3, <1>4 DEF IInv

(* A crash leaves memory and files alone. *)
LEMMA CrashIInv == IInv /\ Crash => IInv'
  <1> SUFFICES ASSUME IInv, Crash PROVE IInv'
    OBVIOUS
  <1>1. TypeOK'
    BY DEF IInv, Crash, memory, rootFiles, roundFiles, End, TypeOK, Steps, InRound,
           Exits
  <1>2. ControlInv'
    BY DEF IInv, Crash, memory, rootFiles, roundFiles, End, ControlInv, Searching,
           Requested, InRound
  <1>3. SearchInv'
    BY DEF IInv, Crash, memory, rootFiles, roundFiles, End, SearchInv, Searching,
           Requested, InRound
  <1>4. EvidenceInv'
    BY DEF IInv, Crash, memory, rootFiles, roundFiles, End, EvidenceInv, FreshEvidence
  <1>5. QED
    BY <1>1, <1>2, <1>3, <1>4 DEF IInv

(* A new attempt has measured nothing and released nothing. *)
LEMMA StartIInv == IInv /\ Start => IInv'
  <1> SUFFICES ASSUME IInv, Start PROVE IInv'
    OBVIOUS
  <1>1. TypeOK'
    BY BatchAssumption, BoundAssumption
    DEF IInv, Start, rootFiles, roundFiles, TypeOK, Steps, InRound, Exits
  <1>2. ControlInv'
    BY BatchAssumption, BoundAssumption
    DEF IInv, Start, TypeOK, ControlInv, Searching, Requested, InRound
  <1>3. SearchInv'
    BY FS_EmptySet, BatchAssumption
    DEF Start, SearchInv, Searching, Requested, InRound
  <1>4. EvidenceInv'
    BY DEF IInv, Start, rootFiles, roundFiles, EvidenceInv, FreshEvidence
  <1>5. QED
    BY <1>1, <1>2, <1>3, <1>4 DEF IInv

(* The batch selected is new. *)
LEMMA SelectBatchIInv == IInv /\ SelectBatch => IInv'
  <1> SUFFICES ASSUME IInv, SelectBatch PROVE IInv'
    OBVIOUS
  <1>1. TypeOK'
    <2>1. request' \in RequestType \cup {Absent}
      <3>1. \A rows \in SelectableBatches(Candidates(registry, measured, HoldoutGroups)) :
               Request(round, rows) \in RequestType
        BY SelectableIsFresh
        DEF IInv, SelectBatch, TypeOK, ControlInv, Searching, Request, RequestType
      <3>2. QED
        BY <3>1 DEF IInv, SelectBatch, TypeOK
    <2>2. QED
      BY <2>1 DEF IInv, SelectBatch, rootFiles, roundFiles, Goto, End, TypeOK, Steps,
                  InRound, Exits
  <1>2. ControlInv'
    <2>1. pc' = "write_request" => request' \in RequestType /\ (request').round = round
      <3>1. \A rows \in SelectableBatches(Candidates(registry, measured, HoldoutGroups)) :
               Request(round, rows) \in RequestType /\ Request(round, rows).round = round
        BY SelectableIsFresh
        DEF IInv, SelectBatch, TypeOK, ControlInv, Searching, Request, RequestType
      <3>2. QED
        BY <3>1 DEF SelectBatch, End, Goto
    <2>2. QED
      BY <2>1 DEF IInv, SelectBatch, rootFiles, roundFiles, Goto, End, ControlInv,
                  Searching, Requested, InRound
  <1>3. SearchInv'
    <2>1. registry \in Registries
      BY DEF IInv, SelectBatch, ControlInv, Searching
    <2>2. pc' = "write_request" =>
             /\ Cardinality((request').rows) = BatchSize
             /\ (request').rows \cap measured = {}
             /\ \A g \in (request').rows : g[1] \notin HoldoutGroups
      BY <2>1, SelectableIsFresh DEF SelectBatch, Request, Goto, End
    <2>3. QED
      BY <2>2 DEF IInv, SelectBatch, Goto, End, SearchInv, Searching, Requested,
                  InRound
  <1>4. EvidenceInv'
    BY DEF IInv, SelectBatch, rootFiles, roundFiles, Goto, End, EvidenceInv,
           FreshEvidence
  <1>5. QED
    BY <1>1, <1>2, <1>3, <1>4 DEF IInv

(* Writing the request only moves on or ends. *)
LEMMA WriteRequestIInv == IInv /\ WriteRequest => IInv'
  <1> SUFFICES ASSUME IInv, WriteRequest PROVE IInv'
    OBVIOUS
  <1>1. TypeOK'
    <2>1. requestFile' \in [Rounds -> RequestType \cup {Absent, Torn}]
      BY DEF IInv, WriteRequest, TypeOK, ControlInv, Requested, InRound
    <2>2. QED
      BY <2>1 DEF IInv, WriteRequest, memory, rootFiles, Goto, End, TypeOK, Steps,
                  InRound, Exits
  <1>2. ControlInv'
    BY DEF IInv, WriteRequest, memory, rootFiles, Goto, End, ControlInv, Searching,
           Requested, InRound
  <1>3. SearchInv'
    BY DEF IInv, WriteRequest, memory, rootFiles, Goto, End, SearchInv, Searching,
           Requested, InRound
  <1>4. EvidenceInv'
    BY DEF IInv, WriteRequest, memory, rootFiles, Goto, End, EvidenceInv, FreshEvidence
  <1>5. QED
    BY <1>1, <1>2, <1>3, <1>4 DEF IInv

(* After the removal there is no feedback for the round. *)
LEMMA ClearFeedbackIInv == IInv /\ ClearFeedback => IInv'
  <1> SUFFICES ASSUME IInv, ClearFeedback PROVE IInv'
    OBVIOUS
  <1>1. TypeOK'
    <2>1. feedbackFile' \in [Rounds -> FeedbackType \cup {Absent, Torn, Unsafe}]
      BY DEF IInv, ClearFeedback, TypeOK
    <2>2. QED
      BY <2>1 DEF IInv, ClearFeedback, memory, rootFiles, Goto, End, TypeOK, Steps,
                  InRound, Exits
  <1>2. ControlInv'
    BY DEF IInv, ClearFeedback, memory, rootFiles, Goto, End, ControlInv, Searching,
           Requested, InRound
  <1>3. SearchInv'
    BY DEF IInv, ClearFeedback, memory, rootFiles, Goto, End, SearchInv, Searching,
           Requested, InRound
  <1>4. EvidenceInv'
    <2>1. round \in Rounds
      BY BatchAssumption
      DEF IInv, ClearFeedback, TypeOK, ControlInv, Requested, InRound, Rounds
    <2>2. pc' = "measure" => feedbackFile'[round] = Absent
      BY <2>1 DEF IInv, ClearFeedback, TypeOK, Goto, End
    <2>3. QED
      BY <2>2 DEF IInv, ClearFeedback, memory, Goto, End, EvidenceInv, FreshEvidence,
                  Absent
  <1>5. QED
    BY <1>1, <1>2, <1>3, <1>4 DEF IInv

(* A command leaves feedback of this attempt or none. *)
LEMMA CommandReturnsIInv == IInv /\ CommandReturns => IInv'
  <1> SUFFICES ASSUME IInv, CommandReturns PROVE IInv'
    OBVIOUS
  <1>1. TypeOK'
    <2>1. \A file \in CommandFeedback(request) :
             file \in FeedbackType \cup {Absent, Torn, Unsafe}
      <3>1. round \in Rounds
        BY BatchAssumption
        DEF IInv, CommandReturns, TypeOK, ControlInv, Requested, InRound, Rounds
      <3>2. request \in RequestType /\ request.round < RoundCount
        BY DEF IInv, CommandReturns, ControlInv, Requested, InRound
      <3>3. attempt \in 1 .. MaxAttempts
        BY DEF IInv, CommandReturns, ControlInv
      <3>4. QED
        BY <3>1, <3>2, <3>3, CommandFeedbackType DEF IInv, TypeOK
    <2>2. feedbackFile' \in [Rounds -> FeedbackType \cup {Absent, Torn, Unsafe}]
      BY <2>1 DEF IInv, CommandReturns, TypeOK
    <2>3. code' \in Recoverable \cup {"none"} /\ pc' \in Steps /\ exit' \in Exits
      BY DEF IInv, CommandReturns, TypeOK, Goto, End, Recoverable, Steps, InRound,
             Exits
    <2>4. QED
      BY <2>2, <2>3 DEF IInv, CommandReturns, rootFiles, TypeOK
  <1>2. ControlInv'
    BY DEF IInv, CommandReturns, rootFiles, Goto, End, ControlInv, Searching,
           Requested, InRound
  <1>3. SearchInv'
    BY DEF IInv, CommandReturns, rootFiles, Goto, End, SearchInv, Searching, Requested,
           InRound
  <1>4. EvidenceInv'
    <2>1. round \in Rounds
      BY BatchAssumption
      DEF IInv, CommandReturns, TypeOK, ControlInv, Requested, InRound, Rounds
    <2>2. request \in RequestType /\ request.round < RoundCount
      BY DEF IInv, CommandReturns, ControlInv, Requested, InRound
    <2>3. attempt \in 1 .. MaxAttempts /\ feedbackFile[round].kind = "absent"
      BY DEF IInv, CommandReturns, ControlInv, EvidenceInv
    <2>4. PICK file \in CommandFeedback(request) :
             /\ feedbackFile' = [feedbackFile EXCEPT ![round] = file]
             /\ file.kind = "unsafe" => pc' # "release"
      BY DEF CommandReturns, Goto, End
    <2>5. feedbackFile'[round] = file
      BY <2>1, <2>4 DEF IInv, TypeOK
    <2>6. pc' = "release" => /\ file.kind # "unsafe"
                             /\ file.kind = "feedback" => file.origin = attempt
      BY <2>2, <2>3, <2>4, CommandFeedbackType DEF Torn, Unsafe
    <2>7. pc' # "measure" /\ UNCHANGED <<feedback, attempt, round>>
      BY DEF CommandReturns, Goto, End
    <2>8. (feedbackFile[round])' = file
      BY <2>5, <2>7
    <2>9. FreshEvidence'
      BY <2>7 DEF IInv, EvidenceInv, FreshEvidence
    <2>10. (pc = "measure" => feedbackFile[round].kind = "absent")'
      BY <2>7
    <2>11. (pc = "release" => /\ feedbackFile[round].kind # "unsafe"
                              /\ feedbackFile[round].kind = "feedback" =>
                                    feedbackFile[round].origin = attempt)'
      BY <2>6, <2>7, <2>8
    <2>12. QED
      BY <2>9, <2>10, <2>11 DEF EvidenceInv
  <1>5. QED
    BY <1>1, <1>2, <1>3, <1>4 DEF IInv

(* A release adds one whole new batch of this attempt, a refusal nothing. *)
LEMMA ReleaseIInv == IInv /\ Release => IInv'
  <1> SUFFICES ASSUME IInv, Release PROVE IInv'
    OBVIOUS
  <1>1. TypeOK'
    <2>1. CASE ReleaseFaults(feedbackFile[round], request) = {} /\ round' = round + 1
      <3>1. round < RoundCount /\ round \in Rounds
        BY BatchAssumption
        DEF IInv, Release, TypeOK, ControlInv, Requested, InRound, Rounds
      <3>2. feedbackFile[round] \in FeedbackType \cup {Absent, Torn}
        BY <3>1 DEF IInv, Release, TypeOK, EvidenceInv, Unsafe
      <3> DEFINE file == feedbackFile[round]
      <3>3. /\ file \in FeedbackType /\ DOMAIN file.status = request.rows
            /\ \A g \in DOMAIN file.status : file.status[g] \in Terminal
        BY <2>1, <3>2, FaultlessFeedback
      <3>4. request.rows \subseteq Genomes
        BY DEF IInv, Release, ControlInv, Requested, InRound, RequestType
      <3>5. file.origin \in 1 .. MaxAttempts
        BY <3>3 DEF FeedbackType
      <3>6. ReleasedRows(file) \subseteq ReleasedType
        BY <3>1, <3>3, <3>4, <3>5 DEF ReleasedRows, ReleasedType
      <3>7. feedback' \subseteq ReleasedType /\ measured' \subseteq Genomes
        <4>1. \/ feedback' = feedback \cup ReleasedRows(file)
                 /\ measured' = measured \cup DOMAIN file.status
              \/ UNCHANGED <<feedback, measured>>
          BY DEF Release
        <4>2. QED
          BY <3>3, <3>4, <3>6, <4>1 DEF IInv, TypeOK
      <3>8. round' \in 0 .. RoundCount
        BY <2>1, <3>1, BatchAssumption DEF Rounds
      <3>9. code' \in Recoverable \cup {"none"} /\ pc' \in Steps /\ exit' \in Exits
        BY <2>1, <3>1 DEF IInv, Release, TypeOK, Goto, Steps, Rounds
      <3>10. QED
        BY <3>7, <3>8, <3>9 DEF IInv, Release, rootFiles, roundFiles, TypeOK
    <2>2. CASE code' \in ReleaseFaults(feedbackFile[round], request)
               /\ UNCHANGED <<feedback, measured, round>>
      <3>1. ReleaseFaults(feedbackFile[round], request) \subseteq Recoverable
        BY DEF ReleaseFaults, RowFaults, RowFault, Recoverable, RowCodes
      <3>2. pc' \in Steps /\ exit' \in Exits
        BY <2>2 DEF IInv, Release, TypeOK, Goto, Steps
      <3>3. QED
        BY <2>2, <3>1, <3>2 DEF IInv, Release, rootFiles, roundFiles, TypeOK
    <2>3. QED
      BY <2>1, <2>2 DEF Release
  <1>2. ControlInv'
    BY BatchAssumption
    DEF IInv, Release, rootFiles, Goto, TypeOK, ControlInv, Searching, Requested,
        InRound
  <1>3. SearchInv'
    <2>1. CASE ReleaseFaults(feedbackFile[round], request) = {} /\ round' = round + 1
      <3> DEFINE file == feedbackFile[round]
      <3>1. round \in Rounds
        BY BatchAssumption
        DEF IInv, Release, TypeOK, ControlInv, Requested, InRound, Rounds
      <3>2. file \in FeedbackType \cup {Absent, Torn}
        BY <3>1 DEF IInv, Release, TypeOK, EvidenceInv, Unsafe
      <3>3. DOMAIN file.status = request.rows
        BY <2>1, <3>2, FaultlessFeedback
      <3>4. /\ feedback' = feedback \cup ReleasedRows(file)
            /\ measured' = measured \cup request.rows
            /\ pc' \in {"history", "write_completed"}
        BY <2>1, <3>1, <3>3 DEF Release, Goto, Rounds
      <3>5. {f.genome : f \in ReleasedRows(file)} = request.rows
        <4>1. \A f \in ReleasedRows(file) : f.genome \in request.rows
          BY <3>3 DEF ReleasedRows
        <4>2. ASSUME NEW g \in request.rows
              PROVE  \E f \in ReleasedRows(file) : f.genome = g
          <5> DEFINE row == [genome |-> g, status |-> file.status[g], round |-> round,
                             origin |-> file.origin]
          <5>1. row \in ReleasedRows(file)
            BY <3>3 DEF ReleasedRows
          <5>2. row.genome = g
            OBVIOUS
          <5>3. QED
            BY <5>1, <5>2
        <4>3. QED
          BY <4>1, <4>2
      <3>6. measured' = {f.genome : f \in feedback'}
        BY <3>4, <3>5 DEF IInv, SearchInv
      <3>7. /\ IsFiniteSet(measured) /\ IsFiniteSet(request.rows)
            /\ measured \cap request.rows = {}
        BY GenomesFinite, FS_Subset
        DEF IInv, TypeOK, Release, ControlInv, SearchInv, Requested, InRound,
            RequestType
      <3>8. Cardinality(measured') = Cardinality(measured) + Cardinality(request.rows)
        <4>1. Cardinality(measured \cup request.rows) =
                 Cardinality(measured) + Cardinality(request.rows)
                    - Cardinality(measured \cap request.rows)
          BY <3>7, FS_Union
        <4>2. Cardinality(measured \cap request.rows) = 0
          BY <3>7, FS_EmptySet
        <4>3. Cardinality(measured) \in Nat /\ Cardinality(request.rows) \in Nat
          BY <3>7, FS_CardinalityType
        <4>4. QED
          BY <3>4, <4>1, <4>2, <4>3
      <3>9. Cardinality(measured') = (round + 1) * BatchSize
        <4>1. /\ Cardinality(measured) = round * BatchSize
              /\ Cardinality(request.rows) = BatchSize
          BY DEF IInv, Release, SearchInv, Requested, InRound
        <4>2. round \in Nat /\ BatchSize \in Nat
          BY <3>1, BatchAssumption DEF Rounds
        <4>3. (round + 1) * BatchSize = round * BatchSize + BatchSize
          BY <4>2
        <4>4. QED
          BY <3>8, <4>1, <4>3
      <3>10. \A g \in measured' : g[1] \notin HoldoutGroups
        BY <3>4 DEF IInv, Release, SearchInv, Requested, InRound
      <3>11. QED
        BY <2>1, <3>4, <3>6, <3>9, <3>10 DEF SearchInv, Searching, Requested, InRound
    <2>2. CASE pc' = "write_failure" /\ UNCHANGED <<feedback, measured, round, request>>
      BY <2>2 DEF IInv, Release, SearchInv, Searching, Requested, InRound
    <2>3. QED
      BY <2>1, <2>2 DEF Release, Goto
  <1>4. EvidenceInv'
    <2>1. CASE ReleaseFaults(feedbackFile[round], request) = {} /\ round' = round + 1
      <3> DEFINE file == feedbackFile[round]
      <3>1. round \in Rounds
        BY BatchAssumption
        DEF IInv, Release, TypeOK, ControlInv, Requested, InRound, Rounds
      <3>2. file \in FeedbackType \cup {Absent, Torn}
        BY <3>1 DEF IInv, Release, TypeOK, EvidenceInv, Unsafe
      <3>3. file.origin = attempt
        BY <2>1, <3>2, FaultlessFeedback DEF IInv, Release, EvidenceInv
      <3>4. feedback' = feedback \cup ReleasedRows(file) /\ attempt' = attempt
        BY <2>1, <3>1 DEF Release, Rounds
      <3>5. \A f \in feedback' : f.origin = attempt'
        BY <3>3, <3>4 DEF IInv, EvidenceInv, FreshEvidence, ReleasedRows
      <3>6. pc' \notin {"measure", "release"}
        BY DEF Release, Goto
      <3>7. QED
        BY <3>5, <3>6 DEF EvidenceInv, FreshEvidence
    <2>2. CASE pc' = "write_failure" /\ UNCHANGED <<feedback, attempt>>
      BY <2>2 DEF IInv, EvidenceInv, FreshEvidence
    <2>3. QED
      BY <2>1, <2>2 DEF Release, Goto
  <1>5. QED
    BY <1>1, <1>2, <1>3, <1>4 DEF IInv

-----------------------------------------------------------------------------
(* Every step preserves the invariant. *)
LEMMA NextIInv == IInv /\ [Next]_vars => IInv'
  <1> SUFFICES ASSUME IInv, [Next]_vars PROVE IInv'
    OBVIOUS
  <1>1. CASE Start
    BY <1>1, StartIInv
  <1>2. CASE ControllerStep /\ frameworkMode' = frameworkMode
    BY <1>2, SetupIInv, ClearManifestIInv, LoadInputsIInv, WritePlanIInv, SelectBatchIInv,
       WriteRequestIInv, ClearFeedbackIInv, ReleaseIInv, ValidateHistoryIInv,
       WriteFailureIInv, WriteStateIInv
    DEF ControllerStep
  <1>3. CASE CommandStep
    BY <1>3, ScanReturnsIInv, RegistryReturnsIInv, CommandReturnsIInv DEF CommandStep
  <1>4. CASE InterruptWrite
    BY <1>4, InterruptWriteIInv
  <1>5. CASE Crash
    BY <1>5, CrashIInv
  <1>6. CASE UNCHANGED vars
    BY <1>6 DEF vars, memory, rootFiles, roundFiles, IInv, TypeOK, ControlInv, SearchInv,
                EvidenceInv, FreshEvidence
  <1>7. QED
    BY <1>1, <1>2, <1>3, <1>4, <1>5, <1>6 DEF Next

(* The inductive invariant holds in every reachable state. *)
THEOREM Invariance == Spec => []IInv
  <1>1. QED
    BY InitIInv, NextIInv, PTL DEF Spec

(* Every variable keeps its type: requests name genomes of the space, the  *)
(* released rows are terminal and belong to a round and an attempt.        *)
THEOREM TypeCorrect == Spec => []TypeOK
  <1>1. IInv => TypeOK
    BY DEF IInv
  <1>2. QED
    BY <1>1, Invariance, PTL

(* The released evidence was measured by the attempt that releases it,     *)
(* whatever earlier attempts left in the output root.                      *)
THEOREM EvidenceIsFresh == Spec => []FreshEvidence
  <1>1. IInv => FreshEvidence
    BY DEF IInv, EvidenceInv
  <1>2. QED
    BY <1>1, Invariance, PTL

(* After k rounds exactly k batches of distinct genomes, none of them from *)
(* the holdout, are measured, and the batch in progress is new.            *)
THEOREM BudgetIsExact == Spec => []BudgetExact
  <1>1. IInv => BudgetExact
    BY DEF IInv, SearchInv, BudgetExact, Requested
  <1>2. QED
    BY <1>1, Invariance, PTL

-----------------------------------------------------------------------------
(* Where the request of the round is on disk. *)
PairInv ==
    pc \in {"clear_feedback", "measure", "release"} => requestFile[round] = request

(* Writing the request puts it there, and nothing moves it until the batch *)
(* is released.                                                            *)
LEMMA NextPairInv == IInv /\ PairInv /\ [Next]_vars => PairInv'
  <1> SUFFICES ASSUME IInv, PairInv, [Next]_vars PROVE PairInv'
    OBVIOUS
  <1>1. CASE WriteRequest
    <2>1. round \in Rounds
      BY <1>1, BatchAssumption
      DEF IInv, WriteRequest, TypeOK, ControlInv, Requested, InRound, Rounds
    <2>2. pc' = "clear_feedback" => requestFile'[round] = request
      BY <1>1, <2>1 DEF IInv, TypeOK, WriteRequest, Goto, End
    <2>3. pc' \in {"clear_feedback", "idle"} /\ UNCHANGED <<round, request>>
      BY <1>1 DEF WriteRequest, Goto, End, memory
    <2>4. QED
      BY <2>2, <2>3 DEF PairInv
  <1>2. CASE ClearFeedback \/ CommandReturns
    BY <1>2 DEF PairInv, ClearFeedback, CommandReturns, Goto, End, memory
  <1>3. CASE Release
    BY <1>3 DEF PairInv, Release, Goto
  <1>4. CASE Setup \/ ClearManifest \/ LoadInputs \/ WritePlan \/ SelectBatch
    BY <1>4 DEF PairInv, Setup, ClearManifest, LoadInputs, WritePlan, SelectBatch, Goto, End
  <1>5. CASE Start \/ ScanReturns \/ RegistryReturns \/ ValidateHistory \/ WriteFailure
             \/ WriteState \/ InterruptWrite \/ Crash
    BY <1>5 DEF PairInv, Start, ScanReturns, RegistryReturns, ValidateHistory,
                WriteFailure, WriteState, InterruptWrite, Crash, Goto, End
  <1>6. CASE UNCHANGED vars
    BY <1>6 DEF PairInv, vars, memory, roundFiles
  <1>7. QED
    BY <1>1, <1>2, <1>3, <1>4, <1>5, <1>6 DEF Next, ControllerStep, CommandStep

(* A step of an attempt that measures anything releases the whole batch it *)
(* requested, on a request and a feedback file that are on disk.           *)
LEMMA StepIsWholeBatch ==
  ASSUME IInv, PairInv, [Next]_vars, attempt' = attempt, measured' # measured
  PROVE  /\ measured' = measured \cup request.rows
         /\ requestFile[round] = request /\ feedbackFile[round].request = request
         /\ round' = round + 1
  <1>1. Release
    <2>1. Start => attempt' # attempt
      BY DEF IInv, TypeOK, Start
    <2>2. QED
      BY <2>1 DEF Next, ControllerStep, CommandStep, vars, memory, Setup, ClearManifest,
                  LoadInputs, WritePlan, SelectBatch, WriteRequest, ClearFeedback,
                  ValidateHistory, WriteFailure, WriteState, ScanReturns, RegistryReturns,
                  CommandReturns, InterruptWrite, Crash
  <1>2. round \in Rounds
    BY <1>1, BatchAssumption
    DEF IInv, Release, TypeOK, ControlInv, Requested, InRound, Rounds
  <1>3. feedbackFile[round] \in FeedbackType \cup {Absent, Torn}
    BY <1>1, <1>2 DEF IInv, Release, TypeOK, EvidenceInv, Unsafe
  <1>4. /\ ReleaseFaults(feedbackFile[round], request) = {}
        /\ measured' = measured \cup DOMAIN feedbackFile[round].status
        /\ round' = round + 1
    BY <1>1 DEF Release
  <1>5. /\ feedbackFile[round].request = request
        /\ DOMAIN feedbackFile[round].status = request.rows
    BY <1>3, <1>4, FaultlessFeedback
  <1>6. requestFile[round] = request
    BY <1>1 DEF Release, PairInv
  <1>7. QED
    BY <1>4, <1>5, <1>6

(* Genomes become measured by whole paired batches and in no other way. *)
THEOREM BatchesAreWhole == Spec => WholeBatches
  <1>1. Init => PairInv
    BY DEF Init, PairInv
  <1>2. IInv /\ PairInv /\ [Next]_vars =>
           [attempt' = attempt /\ measured' # measured =>
               /\ measured' = measured \cup request.rows
               /\ requestFile[round] = request /\ feedbackFile[round].request = request
               /\ round' = round + 1]_vars
    BY StepIsWholeBatch
  <1>3. QED
    BY <1>1, <1>2, NextPairInv, Invariance, PTL DEF Spec, WholeBatches

-----------------------------------------------------------------------------
(* A step that leaves the account alone is a stutter of the promise, or    *)
(* stops the search.                                                       *)
LEMMA QuietStep ==
  ASSUME pc # "idle", UNCHANGED <<measured, round>>,
         pc' = "idle" => exit' \notin {"none", "completed"}
  PROVE  [Promise!Next]_Promise!vars
  <1>1. Phase = "searching"
    BY DEF Phase, Idle
  <1>2. CASE pc' = "idle"
    <2>1. Phase' = "stopped"
      BY <1>2 DEF Phase, Idle
    <2>2. QED
      BY <1>1, <2>1 DEF Promise!Next, Promise!Stop
  <1>3. CASE pc' # "idle"
    <2>1. Phase' = "searching"
      BY <1>3 DEF Phase, Idle
    <2>2. QED
      BY <1>1, <2>1 DEF Promise!vars
  <1>4. QED
    BY <1>2, <1>3

(* The promise counts with the same Cardinality, under its instance's name. *)
LEMMA SameCardinality == \A S : Promise!Cardinality(S) = Cardinality(S)
  BY DEF Promise!Cardinality, Cardinality

(* A release is one ReleaseBatch, a refusal a stutter. *)
LEMMA ReleaseKeepsPromise ==
  ASSUME IInv, Release
  PROVE  [Promise!Next]_Promise!vars
  <1> DEFINE file == feedbackFile[round]
  <1>1. round \in Rounds /\ round < RoundCount
    BY BatchAssumption
    DEF IInv, Release, TypeOK, ControlInv, Requested, InRound, Rounds
  <1>2. CASE /\ ReleaseFaults(file, request) = {} /\ round' = round + 1
             /\ measured' = measured \cup DOMAIN file.status
    <2>1. file \in FeedbackType \cup {Absent, Torn}
      BY <1>1 DEF IInv, Release, TypeOK, EvidenceInv, Unsafe
    <2>2. DOMAIN file.status = request.rows
      BY <1>2, <2>1, FaultlessFeedback
    <2>3. /\ request.rows \in SUBSET (Genomes \ measured)
          /\ Cardinality(request.rows) = BatchSize
      BY DEF IInv, Release, ControlInv, SearchInv, Requested, InRound, RequestType
    <2>4. Phase = "searching" /\ Phase' = "searching"
      BY DEF Phase, Idle, Release, Goto
    <2>5. Promise!ReleaseBatch
      <3>1. \E rows \in SUBSET (Genomes \ measured) :
               Promise!Cardinality(rows) = BatchSize /\ measured' = measured \cup rows
        BY <1>2, <2>2, <2>3, SameCardinality
      <3>2. round' = round + 1
        BY <1>2
      <3>3. QED
        BY <1>1, <2>4, <3>1, <3>2 DEF Promise!ReleaseBatch
    <2>6. QED
      BY <2>5 DEF Promise!Next
  <1>3. CASE pc' = "write_failure" /\ UNCHANGED <<measured, round>>
    BY <1>3, QuietStep DEF Release
  <1>4. QED
    BY <1>2, <1>3 DEF Release, Goto

(* Starting is Begin, and writing the state Complete or Stop. *)
LEMMA EndsKeepPromise ==
  ASSUME IInv, Start \/ WriteState
  PROVE  [Promise!Next]_Promise!vars
  <1>1. CASE Start
    <2>1. Phase # "searching" /\ Phase' = "searching"
      BY <1>1 DEF Start, Phase, Idle
    <2>2. QED
      BY <1>1, <2>1 DEF Start, Promise!Next, Promise!Begin
  <1>2. CASE WriteState /\ exit' = "completed"
    <2>1. pc = "write_completed" /\ round = RoundCount
      BY <1>2 DEF IInv, ControlInv, WriteState, End
    <2>2. Phase = "searching" /\ Phase' = "completed"
      BY <1>2, <2>1 DEF Phase, Idle, WriteState, End
    <2>3. Promise!Complete
      BY <1>2, <2>1, <2>2 DEF WriteState, memory, Promise!Complete
    <2>4. QED
      BY <2>3 DEF Promise!Next
  <1>3. CASE WriteState /\ exit' = "failed"
    BY <1>3, QuietStep DEF WriteState, End, memory
  <1>4. QED
    BY <1>1, <1>2, <1>3 DEF WriteState, End

(* Every other step is quiet. *)
LEMMA OthersKeepPromise ==
  ASSUME \/ Setup \/ ClearManifest \/ LoadInputs \/ WritePlan \/ SelectBatch
         \/ WriteRequest \/ ClearFeedback \/ ValidateHistory \/ WriteFailure
         \/ ScanReturns \/ RegistryReturns \/ CommandReturns \/ InterruptWrite \/ Crash
  PROVE  [Promise!Next]_Promise!vars
  <1>1. /\ pc # "idle" /\ UNCHANGED <<measured, round>>
        /\ pc' = "idle" => exit' \notin {"none", "completed"}
    BY DEF Setup, ClearManifest, LoadInputs, WritePlan, SelectBatch, WriteRequest,
           ClearFeedback, ValidateHistory, WriteFailure, ScanReturns, RegistryReturns,
           CommandReturns, InterruptWrite, Crash, Goto, End, memory
  <1>2. QED
    BY <1>1, QuietStep

(* The controller implements BudgetedSearch: seen through what it has      *)
(* measured and how it ended, every attempt is a search that measures in   *)
(* whole fresh batches and is complete only with its budget spent.         *)
THEOREM PromiseIsKept == Spec => PromiseKept
  <1>1. Init => Promise!Init
    BY DEF Init, Promise!Init, Phase, Idle
  <1>2. IInv /\ [Next]_vars => [Promise!Next]_Promise!vars
    <2> SUFFICES ASSUME IInv, [Next]_vars PROVE [Promise!Next]_Promise!vars
      OBVIOUS
    <2>1. CASE Start \/ WriteState
      BY <2>1, EndsKeepPromise
    <2>2. CASE Release
      BY <2>2, ReleaseKeepsPromise
    <2>3. CASE UNCHANGED vars
      BY <2>3 DEF vars, memory, Promise!vars, Phase, Idle
    <2>4. QED
      BY <2>1, <2>2, <2>3, OthersKeepPromise DEF Next, ControllerStep, CommandStep
  <1>3. QED
    BY <1>1, <1>2, Invariance, PTL DEF Spec, PromiseKept, Promise!Spec

-----------------------------------------------------------------------------
FailureType == [kind : {"failure"}, code : Recoverable \cup {"none"},
                completed : 0 .. RoundCount]

(* The rounds the attempt has behind it: their files on disk agree, come   *)
(* from it, and cover what it has measured.                                *)
DoneRounds == {r \in Rounds : r < round}
RoundsPaired ==
    /\ \A r \in DoneRounds : /\ feedbackFile[r].request = requestFile[r]
                             /\ feedbackFile[r].origin = attempt
    /\ measured = UNION {requestFile[r].rows : r \in DoneRounds}
DiskInv == pc # "idle" \/ exit = "completed" => RoundsPaired

(* What is on disk when a search says how it ended, and just before.       *)
EndInv ==
    /\ failureFile \in [Rounds -> FailureType \cup {Absent, Torn}]
    /\ pc = "write_failed" => failureFile[round] = Failure(code)
    /\ exit = "completed" => stateFile = State("completed")
    /\ exit = "failed" => /\ stateFile = State("failed") /\ round < RoundCount
                          /\ request.rows \cap measured = {}
                          /\ failureFile[round] = Failure(code)

(* What the manifest, the plan and the registry have to do with each other *)
(* at each control point of the framework mode.                            *)
ManifestInv ==
    frameworkMode =>
        /\ pc = "scan" => manifestFile = Absent
        /\ pc \in {"inputs", "write_plan"} => manifestFile.origin = attempt
        /\ pc \in Searching \cup {"registry"} \/ exit = "completed" =>
              manifestFile.origin = attempt /\ manifestFile.plan = plan
        /\ pc \in Searching \/ exit = "completed" => Candidates(registry, {}, {}) = plan

(* No controller works yet.                                                *)
LEMMA InitManifestInv == Init => ManifestInv
  BY DEF Init, ManifestInv, Searching, Requested, InRound

(* The scan starts without a manifest, so the one it leaves is new. *)
LEMMA NextManifestInv == IInv /\ ManifestInv /\ [Next]_vars => ManifestInv'
  <1> SUFFICES ASSUME IInv, ManifestInv, [Next]_vars PROVE ManifestInv'
    OBVIOUS
  <1> USE DEF Searching, Requested, InRound, Goto, End
  <1>0. (pc # "idle" => exit = "none") /\ frameworkMode' = frameworkMode
    BY DEF IInv, ControlInv, Next, vars
  <1>1. CASE Start
    BY <1>0, <1>1 DEF ManifestInv, Start
  <1>2. CASE Setup \/ ClearManifest \/ LoadInputs \/ WritePlan
    <2>1. CASE Setup
      BY <1>0, <2>1 DEF ManifestInv, Setup, memory, rootFiles
    <2>2. CASE ClearManifest
      BY <1>0, <2>2 DEF ManifestInv, ClearManifest, memory
    <2>3. CASE LoadInputs
      BY <1>0, <2>3 DEF ManifestInv, LoadInputs, memory, rootFiles
    <2>4. CASE WritePlan
      BY <1>0, <2>4 DEF ManifestInv, WritePlan
    <2>5. QED
      BY <1>2, <2>1, <2>2, <2>3, <2>4
  <1>3. CASE ScanReturns
    <2>1. frameworkMode /\ pc' = "inputs" => (manifestFile').origin = attempt'
      BY <1>0, <1>3 DEF ManifestInv, ScanReturns, Manifest, Absent, Torn
    <2>2. /\ pc' \in {"inputs", "idle"} /\ exit' # "completed"
      BY <1>0, <1>3 DEF ScanReturns
    <2>3. QED
      BY <1>0, <2>1, <2>2 DEF ManifestInv
  <1>4. CASE RegistryReturns
    <2>1. pc = "registry" /\ UNCHANGED <<attempt, plan, manifestFile>>
      BY <1>4 DEF RegistryReturns
    <2>2. CASE pc' = "select" /\ SpaceAdmitted(registry', plan)
      <3>1. frameworkMode => Candidates(registry', {}, {}) = plan
        BY <2>2 DEF SpaceAdmitted
      <3>2. Candidates(registry, {}, {})' = Candidates(registry', {}, {})
        BY DEF Candidates
      <3>3. QED
        BY <1>0, <2>1, <2>2, <3>1, <3>2 DEF ManifestInv
    <2>3. CASE pc' = "idle" /\ exit' # "completed"
      BY <2>3 DEF ManifestInv
    <2>4. QED
      BY <1>4, <2>2, <2>3 DEF RegistryReturns
  <1>5. CASE SelectBatch \/ WriteRequest \/ ClearFeedback \/ CommandReturns \/ Release
             \/ ValidateHistory \/ WriteFailure \/ WriteState
    <2>1. UNCHANGED <<attempt, plan, registry, manifestFile>>
      BY <1>5 DEF SelectBatch, WriteRequest, ClearFeedback, CommandReturns, Release,
                  ValidateHistory, WriteFailure, WriteState, memory, rootFiles
    <2>2. pc \in Searching
      BY <1>5 DEF SelectBatch, WriteRequest, ClearFeedback, CommandReturns, Release,
                  ValidateHistory, WriteFailure, WriteState
    <2>3. pc' \in Searching \cup {"idle"}
      BY <1>5 DEF SelectBatch, WriteRequest, ClearFeedback, CommandReturns, Release,
                  ValidateHistory, WriteFailure, WriteState
    <2>4. Candidates(registry, {}, {})' = Candidates(registry, {}, {})
      BY <2>1 DEF Candidates
    <2>5. QED
      BY <1>0, <2>1, <2>2, <2>3, <2>4 DEF ManifestInv
  <1>6. CASE InterruptWrite \/ Crash
    BY <1>6 DEF ManifestInv, InterruptWrite, Crash
  <1>7. CASE UNCHANGED vars
    BY <1>7 DEF ManifestInv, vars, memory, rootFiles, Candidates
  <1>8. QED
    BY <1>1, <1>2, <1>3, <1>4, <1>5, <1>6, <1>7 DEF Next, ControllerStep, CommandStep

(* SpaceIsFromThisScan: no manifest that an earlier attempt left in the    *)
(* root decides what a search of the framework mode may choose from.       *)
THEOREM SpaceIsScanned == Spec => []SpaceIsFromThisScan
  <1>1. ManifestInv => SpaceIsFromThisScan
    BY DEF ManifestInv, SpaceIsFromThisScan, Searching, Requested
  <1>2. QED
    BY <1>1, InitManifestInv, NextManifestInv, Invariance, PTL DEF Spec

(* Nor has one ended.                                                      *)
LEMMA InitDiskInv == Init => DiskInv /\ EndInv
  BY DEF Init, DiskInv, EndInv

(* A step that keeps the account and the files of the rounds behind it     *)
(* keeps them paired.                                                      *)
LEMMA RoundsKept ==
  ASSUME RoundsPaired, UNCHANGED <<attempt, round, measured>>,
         \A r \in DoneRounds : /\ (requestFile')[r] = requestFile[r]
                              /\ (feedbackFile')[r] = feedbackFile[r]
  PROVE  RoundsPaired'
  <1>1. DoneRounds' = DoneRounds
    BY DEF DoneRounds
  <1>2. {(requestFile')[r].rows : r \in DoneRounds} = {requestFile[r].rows : r \in DoneRounds}
    OBVIOUS
  <1>3. QED
    BY <1>1, <1>2 DEF RoundsPaired

(* A released round is paired too, and adds its batch.                     *)
LEMMA ReleasePairs ==
  ASSUME IInv, PairInv, RoundsPaired, Release, round' = round + 1
  PROVE  RoundsPaired'
  <1>1. round \in Rounds /\ round \in Nat
    BY BatchAssumption
    DEF IInv, Release, TypeOK, ControlInv, Requested, InRound, Rounds
  <1>2. feedbackFile[round] \in FeedbackType \cup {Absent, Torn}
    BY <1>1 DEF IInv, Release, TypeOK, EvidenceInv, Unsafe
  <1>3. /\ ReleaseFaults(feedbackFile[round], request) = {}
        /\ measured' = measured \cup DOMAIN feedbackFile[round].status
    BY <1>1 DEF Release
  <1>4. /\ feedbackFile[round].kind = "feedback" /\ feedbackFile[round].request = request
        /\ DOMAIN feedbackFile[round].status = request.rows
    BY <1>2, <1>3, FaultlessFeedback
  <1>5. requestFile[round] = request /\ feedbackFile[round].origin = attempt
    BY <1>4 DEF Release, PairInv, IInv, EvidenceInv
  <1>6. UNCHANGED <<attempt, requestFile, feedbackFile>>
    BY DEF Release, roundFiles
  <1>7. DoneRounds' = DoneRounds \cup {round}
    BY <1>1, BatchAssumption DEF DoneRounds, Rounds
  <1>8. measured' = UNION {requestFile[r].rows : r \in DoneRounds \cup {round}}
    BY <1>3, <1>4, <1>5 DEF RoundsPaired
  <1>9. QED
    BY <1>4, <1>5, <1>6, <1>7, <1>8 DEF RoundsPaired

(* Files of rounds behind the current one are never touched.               *)
LEMMA NextDiskInv == IInv /\ PairInv /\ DiskInv /\ [Next]_vars => DiskInv'
  <1> SUFFICES ASSUME IInv, PairInv, DiskInv, [Next]_vars PROVE DiskInv'
    OBVIOUS
  <1>1. CASE Start
    <2>1. DoneRounds' = {}
      BY <1>1 DEF Start, DoneRounds, Rounds
    <2>2. QED
      BY <1>1, <2>1 DEF Start, DiskInv, RoundsPaired
  <1>2. CASE Release
    <2>1. RoundsPaired
      BY <1>2 DEF Release, DiskInv
    <2>2. CASE round' = round + 1
      BY <1>2, <2>1, <2>2, ReleasePairs DEF DiskInv
    <2>3. CASE UNCHANGED <<round, measured>>
      BY <1>2, <2>1, <2>3, RoundsKept DEF Release, DiskInv, roundFiles
    <2>4. QED
      BY <1>2, <2>2, <2>3 DEF Release
  <1>3. CASE WriteRequest \/ ClearFeedback \/ CommandReturns \/ InterruptWrite
    <2>1. RoundsPaired
      BY <1>3 DEF WriteRequest, ClearFeedback, CommandReturns, InterruptWrite, DiskInv
    <2>2. UNCHANGED <<attempt, round, measured>>
      BY <1>3 DEF WriteRequest, ClearFeedback, CommandReturns, InterruptWrite, memory
    <2>3. \A r \in DoneRounds : r # round /\ r \in Rounds
      BY DEF DoneRounds, Rounds, IInv, TypeOK
    <2>4. \A r \in DoneRounds : /\ (requestFile')[r] = requestFile[r]
                               /\ (feedbackFile')[r] = feedbackFile[r]
      <3>1. CASE WriteRequest
        BY <3>1, <2>3 DEF WriteRequest, IInv, TypeOK
      <3>2. CASE ClearFeedback
        BY <3>2, <2>3 DEF ClearFeedback, IInv, TypeOK
      <3>3. CASE CommandReturns
        BY <3>3, <2>3 DEF CommandReturns, IInv, TypeOK
      <3>4. CASE InterruptWrite
        BY <3>4, <2>3 DEF InterruptWrite, IInv, TypeOK
      <3>5. QED
        BY <1>3, <3>1, <3>2, <3>3, <3>4
    <2>5. QED
      BY <2>1, <2>2, <2>4, RoundsKept DEF DiskInv
  <1>4. CASE \/ Setup \/ ClearManifest \/ ScanReturns \/ LoadInputs \/ WritePlan
             \/ RegistryReturns \/ SelectBatch \/ ValidateHistory \/ WriteFailure
             \/ WriteState \/ Crash
    <2>1. UNCHANGED <<attempt, round, measured, requestFile, feedbackFile>>
      BY <1>4 DEF Setup, ClearManifest, ScanReturns, LoadInputs, WritePlan,
                  RegistryReturns, SelectBatch, ValidateHistory, WriteFailure, WriteState,
                  Crash, memory, roundFiles
    <2>2. pc # "idle"
      BY <1>4 DEF Setup, ClearManifest, ScanReturns, LoadInputs, WritePlan,
                  RegistryReturns, SelectBatch, ValidateHistory, WriteFailure, WriteState,
                  Crash
    <2>3. QED
      BY <2>1, <2>2, RoundsKept DEF DiskInv
  <1>5. CASE UNCHANGED vars
    BY <1>5, RoundsKept DEF DiskInv, vars, memory, roundFiles
  <1>6. QED
    BY <1>1, <1>2, <1>3, <1>4, <1>5 DEF Next, ControllerStep, CommandStep

(* A state is written from the account in memory, a failed one after the   *)
(* failure file.                                                           *)
LEMMA NextEndInv == IInv /\ EndInv /\ [Next]_vars => EndInv'
  <1> SUFFICES ASSUME IInv, EndInv, [Next]_vars PROVE EndInv'
    OBVIOUS
  <1>0. pc # "idle" => exit = "none"
    BY DEF IInv, ControlInv
  <1>1. CASE Start
    BY <1>1 DEF Start, EndInv, roundFiles
  <1>2. CASE WriteFailure
    <2>1. round \in Rounds /\ pc = "write_failure" /\ pc' = "write_failed" /\ exit' = "none"
      BY <1>0, <1>2, BatchAssumption
      DEF IInv, WriteFailure, TypeOK, ControlInv, Requested, Rounds, Goto
    <2>2. Failure(code) \in FailureType /\ Failure(code)' = Failure(code)
      BY <1>2 DEF IInv, TypeOK, Failure, FailureType, WriteFailure, memory
    <2>3. /\ failureFile' = [failureFile EXCEPT ![round] = Failure(code)]
          /\ round' = round
      BY <1>2 DEF WriteFailure, memory
    <2>4. QED
      BY <2>1, <2>2, <2>3 DEF EndInv
  <1>3. CASE WriteState
    <2>1. UNCHANGED <<round, measured, attempt, request, code, failureFile>> /\ pc' = "idle"
      BY <1>3 DEF WriteState, memory, roundFiles, End
    <2>2. Failure(code)' = Failure(code)
      BY <2>1 DEF Failure
    <2>3. CASE pc = "write_failed"
      <3>1. exit' = "failed" /\ stateFile' = State("failed")
        BY <1>3, <2>3 DEF WriteState, End
      <3>2. State("failed")' = State("failed")
        BY <2>1 DEF State
      <3>3. round < RoundCount /\ request.rows \cap measured = {}
        BY <2>3 DEF IInv, ControlInv, SearchInv, Requested
      <3>4. QED
        BY <2>1, <2>2, <2>3, <3>1, <3>2, <3>3 DEF EndInv
    <2>4. CASE pc = "write_completed"
      <3>1. exit' = "completed" /\ stateFile' = State("completed")
        BY <1>3, <2>4 DEF WriteState, End
      <3>2. State("completed")' = State("completed")
        BY <2>1 DEF State
      <3>3. QED
        BY <2>1, <3>1, <3>2 DEF EndInv
    <2>5. QED
      BY <1>3, <2>3, <2>4 DEF WriteState
  <1>4. CASE InterruptWrite
    <2>1. failureFile' \in [Rounds -> FailureType \cup {Absent, Torn}]
      BY <1>4 DEF InterruptWrite, EndInv
    <2>2. QED
      BY <1>4, <2>1 DEF InterruptWrite, End, EndInv
  <1>5. CASE \/ Setup \/ ClearManifest \/ ScanReturns \/ LoadInputs \/ WritePlan
             \/ RegistryReturns \/ SelectBatch \/ WriteRequest \/ ClearFeedback
             \/ CommandReturns \/ Release \/ ValidateHistory \/ Crash
    <2>1. failureFile' = failureFile /\ pc # "idle"
      BY <1>5 DEF Setup, ClearManifest, ScanReturns, LoadInputs, WritePlan,
                  RegistryReturns, SelectBatch, WriteRequest, ClearFeedback,
                  CommandReturns, Release, ValidateHistory, Crash, roundFiles
    <2>2. pc' # "write_failed" /\ (exit' = exit \/ exit' \notin {"completed", "failed"})
      BY <1>5 DEF Setup, ClearManifest, ScanReturns, LoadInputs, WritePlan,
                  RegistryReturns, SelectBatch, WriteRequest, ClearFeedback,
                  CommandReturns, Release, ValidateHistory, Crash, Goto, End
    <2>3. QED
      BY <1>0, <2>1, <2>2 DEF EndInv
  <1>6. CASE UNCHANGED vars
    BY <1>6 DEF vars, memory, rootFiles, roundFiles, EndInv, State, Failure
  <1>7. QED
    BY <1>1, <1>2, <1>3, <1>4, <1>5, <1>6 DEF Next, ControllerStep, CommandStep

(* An attempt that says it completed left the paired evidence of the whole *)
(* budget, one that says it failed a refused batch that cost nothing.      *)
THEOREM ExitsAreTrue == Spec => []ExitIsTrue
  <1>1. IInv /\ DiskInv /\ EndInv => CompletedIsPaired
    <2> SUFFICES ASSUME IInv, DiskInv, EndInv, exit = "completed"
                 PROVE  CompletedIsPaired
      BY DEF CompletedIsPaired
    <2>1. round = RoundCount /\ stateFile = State("completed") /\ RoundsPaired
      BY DEF IInv, ControlInv, DiskInv, EndInv
    <2>2. DoneRounds = Rounds
      BY <2>1, BatchAssumption DEF DoneRounds, Rounds
    <2>3. Cardinality(measured) = SampleBudget
      BY <2>1, BatchAssumption DEF IInv, SearchInv, SampleBudget
    <2>4. QED
      BY <2>1, <2>2, <2>3 DEF State, RoundsPaired, CompletedIsPaired
  <1>2. IInv /\ EndInv => FailedBatchIsFree
    BY DEF IInv, SearchInv, EndInv, State, FailedBatchIsFree
  <1>3. Init => PairInv
    BY DEF Init, PairInv
  <1>4. QED
    BY <1>1, <1>2, <1>3, InitDiskInv, NextDiskInv, NextEndInv, NextPairInv, Invariance,
       PTL DEF Spec, ExitIsTrue
=================================================================================
