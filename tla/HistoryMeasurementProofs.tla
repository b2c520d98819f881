------------------------ MODULE HistoryMeasurementProofs -------------------------
(***************************************************************************)
(* Proofs about the measurement adapter: for any adapters, requests and    *)
(* GPU states, overlapping or not, the types and the soundness of what is  *)
(* published, and, in a sequential history, that the chain of a private    *)
(* round is run once.                                                      *)
(*                                                                         *)
(* The inductive invariant has three parts.  DataInv gives the files their *)
(* shapes.  SharedInv holds whoever overlaps: once a request is written    *)
(* its private round is never unused again, and what is published names    *)
(* its own round.  SequentialInv is about one adapter at work: its round   *)
(* was unused when it came, so nobody else has executed it, and what it    *)
(* has read is what is on disk.  The lemmas about one move come first.     *)
(***************************************************************************)
EXTENDS HistoryMeasurement, TLAPS

AnyContent == UNION {ContentType[f] : f \in Files}
FilesType == {c \in [Files -> AnyContent] : \A f \in Files : c[f] \in ContentType[f]}
FeedbackType == [kind : {"feedback"}, of : Requests, status : Terminal, writer : Adapters,
                 origin : Adapters, measured : Identities]

(* Types with the shape of the files, and where the loops can be. *)
DataInv ==
    /\ TypeOK
    /\ private \in [Rounds -> FilesType]
    /\ evidence \in [Adapters -> FilesType]
    /\ feedback \in [Rounds -> {Absent} \cup FeedbackType]
    /\ \A a \in Adapters : /\ pc[a] = "chain" => step[a] \in 0 .. 5
                           /\ pc[a] = "read" => step[a] \in 0 .. 3

Before == {"new", "prepare", "admit", "check_fresh", "write_request", "write_state"}
Reading == {"read", "translate", "publish_check", "publish"}
Working == {"write_state", "chain", "recheck"} \cup Reading

Round(a) == request[a].round

(* What an adapter has left in its private round, and what it knows of the *)
(* GPUs, whoever else is at work.                                          *)
AdapterInv(a) ==
    /\ pc[a] \in {"write_state", "chain"} \/ Executed(a) => private[Round(a)].request # Absent
    /\ pc[a] = "chain" => private[Round(a)].state # Absent
    /\ pc[a] \in Before => seen[a] = {}
    /\ "drifted" \in seen[a] => gpu = "drifted"
    /\ pc[a] \in Reading => "drifted" \notin seen[a]
    /\ pc[a] \in {"publish_check", "publish"} => Translatable(evidence[a], request[a])
FeedbackInv(r) ==
    feedback[r] # Absent =>
        /\ feedback[r].measured = feedback[r].of /\ feedback[r].of.round = r
        /\ pc[feedback[r].writer] = "done" /\ "drifted" \notin seen[feedback[r].writer]
SharedInv == (\A a \in Adapters : AdapterInv(a)) /\ \A r \in Rounds : FeedbackInv(r)

(* With one adapter at work, its private round is its own. *)
Alone == \A a, b \in Adapters : ~Idle(a) /\ ~Idle(b) => a = b
Read(a) == IF pc[a] = "read" THEN {Evidence[k] : k \in 1 .. step[a]}
           ELSE IF pc[a] \in Reading THEN {Evidence[k] : k \in 1 .. 4} ELSE {}
OwnRound(a) ==
    /\ ~Idle(a) => feedback[Round(a)] = Absent
    /\ pc[a] \in Working \cup {"write_request"} =>
          /\ \A b \in Adapters : b # a /\ Executed(b) => Round(b) # Round(a)
          /\ \/ private[Round(a)].result = Absent
             \/ private[Round(a)].result.origin = a
    /\ pc[a] \in Working => private[Round(a)].request = RequestFile(request[a])
    /\ \A f \in Read(a) : evidence[a][f] = private[Round(a)][f]
EvidenceInv(r) ==
    feedback[r].kind = "feedback" =>
        /\ feedback[r].origin = feedback[r].writer
        /\ private[r].request = RequestFile(feedback[r].of)
        /\ private[r].state = StateFile("finalization", feedback[r].of, feedback[r].status)
        /\ private[r].result.status = feedback[r].status
        /\ private[r].receipt = Completion(feedback[r].of)
        /\ private[r].barrier = Completion(feedback[r].of)
SequentialInv ==
    sequential => /\ Alone /\ ChainAtMostOnce
                  /\ \A a \in Adapters : OwnRound(a)
                  /\ \A r \in Rounds : EvidenceInv(r)

IInv == DataInv /\ SharedInv /\ SequentialInv

-----------------------------------------------------------------------------
Move(a) == Start(a) \/ Step(a) \/ Crash(a)

(* The commands of the chain and the files of its evidence.                *)
LEMMA ListFacts ==
    /\ Len(Chain) = 6 /\ Len(Chain)' = 6 /\ Len(Evidence) = 4 /\ Len(Evidence)' = 4
    /\ Evidence' = Evidence
    /\ Evidence[1] = "state" /\ Evidence[2] = "result"
    /\ Evidence[3] = "receipt" /\ Evidence[4] = "barrier"
    /\ Chain[1] = "activation" /\ Chain[2] = "source_materialization"
    /\ Chain[3] = "quantization" /\ Chain[4] = "performance" /\ Chain[5] = "ap"
    /\ Chain[6] = "finalization"
  BY DEF Chain, Evidence

(* Any private file may be absent.                                         *)
LEMMA AbsentIsContent == \A f \in Files : Absent \in ContentType[f]
  BY DEF Files, ContentType

(* One file of a round is replaced by another of its type. *)
LEMMA FilesReplaced ==
  ASSUME NEW c \in FilesType, NEW f \in Files, NEW x \in ContentType[f]
  PROVE  [c EXCEPT ![f] = x] \in FilesType
  BY DEF FilesType, AnyContent

(* The files of a round, one by one. *)
LEMMA FilesPointwise ==
  ASSUME NEW c \in FilesType
  PROVE  /\ c.request \in ContentType.request /\ c.state \in ContentType.state
         /\ c.result \in ContentType.result /\ c.receipt \in ContentType.receipt
         /\ c.barrier \in ContentType.barrier
         /\ DOMAIN c = Files
  BY DEF FilesType, Files

(* What a complete chain leaves has the types of the files.                *)
LEMMA CoherentType ==
  ASSUME NEW q \in Requests, NEW status \in Terminal, NEW a \in Adapters
  PROVE  Coherent(q, status, a) \in FilesType
  <1>1. \A f \in Files : Coherent(q, status, a)[f] \in ContentType[f]
    BY DEF Coherent, Files, ContentType, RequestFile, StateFile, ResultFile, Completion,
           Identities, Chain
  <1>2. DOMAIN Coherent(q, status, a) = Files
    BY DEF Coherent, Files
  <1>3. Coherent(q, status, a) = [f \in Files |-> Coherent(q, status, a)[f]]
    BY <1>2 DEF Coherent
  <1>4. QED
    BY <1>1, <1>3 DEF FilesType, AnyContent

(* What finalization makes of the files of a request. *)
LEMMA FinalizedFiles ==
  ASSUME NEW q \in Requests, NEW found \in FilesType, NEW a \in Adapters,
         found.request = RequestFile(q), found.state # Absent,
         NEW files \in Finalized(q, found, a)
  PROVE  /\ files \in FilesType /\ files.request = RequestFile(q)
         /\ \A f \in Files : found[f] # Absent => files[f] # Absent
         /\ files.result = found.result \/ files.result.origin = a
  <1>1. CASE files = found
    BY <1>1
  <1>2. CASE \E status \in Terminal : files = Coherent(q, status, a)
    <2>1. PICK status \in Terminal : files = Coherent(q, status, a)
      BY <1>2
    <2>2. \A f \in Files : files[f] # Absent
      BY <2>1 DEF Coherent, RequestFile, StateFile, ResultFile, Completion, Absent, Files
    <2>3. files.request = RequestFile(q) /\ files.result.origin = a
      BY <2>1 DEF Coherent, ResultFile
    <2>4. QED
      BY <2>1, <2>2, <2>3, CoherentType
  <1>3. CASE \E f \in Files \ {"request"} : \E bad \in Defects(q, found, a)[f] :
               files = [Coherent(q, Success, a) EXCEPT ![f] = bad]
    <2>1. PICK f \in Files \ {"request"} : \E bad \in Defects(q, found, a)[f] :
               files = [Coherent(q, Success, a) EXCEPT ![f] = bad]
      BY <1>3
    <2>2. PICK bad \in Defects(q, found, a)[f] :
               files = [Coherent(q, Success, a) EXCEPT ![f] = bad]
      BY <2>1
    <2> DEFINE c == Coherent(q, Success, a)
    <2>3. c \in FilesType
      BY CoherentType DEF Terminal
    <2>4. /\ c.request = RequestFile(q) /\ c.result.origin = a
          /\ \A g \in Files : c[g] # Absent
      BY DEF Coherent, RequestFile, StateFile, ResultFile, Completion, Absent, Files
    <2> HIDE DEF c
    <2>5. /\ bad \in ContentType[f]
          /\ bad = found[f] \/ bad # Absent
          /\ f = "result" => bad = found.result \/ bad.origin = a
      <3>1. f \in {"state", "result", "receipt", "barrier"}
        BY <2>1 DEF Files
      <3>2. CASE f = "state"
        BY <3>2, <2>2, FilesPointwise
        DEF Defects, StateFile, ContentType, Absent, Identities, Success, Terminal, Chain
      <3>3. CASE f = "result"
        BY <3>3, <2>2, FilesPointwise
        DEF Defects, ResultFile, ContentType, Absent, Identities, Success, Terminal
      <3>4. CASE f = "receipt"
        BY <3>4, <2>2, FilesPointwise DEF Defects, Completion, ContentType, Absent, Identities
      <3>5. CASE f = "barrier"
        BY <3>5, <2>2, FilesPointwise
        DEF Defects, Completion, Unreadable, ContentType, Absent, Identities
      <3>6. QED
        BY <3>1, <3>2, <3>3, <3>4, <3>5
    <2>6. files = [c EXCEPT ![f] = bad]
      BY <2>2 DEF c
    <2>7. files \in FilesType
      <3>1. [c EXCEPT ![f] = bad] \in FilesType
        BY <2>3, <2>5, FilesReplaced
      <3>2. QED
        BY <2>6, <3>1
    <2>8. \A g \in Files : files[g] = IF g = f THEN bad ELSE c[g]
      BY <2>3, <2>6, FilesPointwise
    <2>9. f # "request" /\ "request" \in Files /\ "result" \in Files
      BY <2>1 DEF Files
    <2>10. \A g \in Files : found[g] # Absent => files[g] # Absent
      BY <2>4, <2>5, <2>8
    <2>11. files.request = RequestFile(q)
      BY <2>4, <2>8, <2>9
    <2>12. files.result = found.result \/ files.result.origin = a
      BY <2>4, <2>5, <2>8, <2>9
    <2>13. QED
      BY <2>7, <2>10, <2>11, <2>12
  <1>4. QED
    BY <1>1, <1>2, <1>3 DEF Finalized

(* How a step changes the private round of its adapter: files are added or *)
(* replaced, never removed.                                                *)
LEMMA PrivateStep ==
  ASSUME DataInv, NEW a \in Adapters, AdapterInv(a), Step(a)
  PROVE  \E files \in FilesType :
            /\ private' = [private EXCEPT ![Round(a)] = files]
            /\ \A f \in Files : private[Round(a)][f] # Absent => files[f] # Absent
            /\ files # private[Round(a)] => pc[a] \in {"write_request", "write_state", "chain"}
            /\ \/ pc[a] # "write_request" /\ files.request = private[Round(a)].request
               \/ /\ pc[a] = "write_request" /\ files.result = private[Round(a)].result
                  /\ (pc')[a] # "done" => files.request = RequestFile(request[a])
            /\ files.result = private[Round(a)].result \/ files.result.origin = a
            /\ pc[a] = "write_state" /\ (pc')[a] = "chain" => files.state # Absent
  <1> DEFINE r == Round(a)
             old == private[r]
  <1>0. old \in FilesType /\ request[a] \in Requests /\ r \in Rounds /\ private \in [Rounds -> FilesType]
    BY DEF DataInv, TypeOK, Round, Rounds
  <1>1. CASE private' = private /\ pc[a] \notin {"write_request", "write_state"}
    BY <1>0, <1>1
  <1>2. CASE WriteRequest(a)
    <2> DEFINE new == [old EXCEPT !.request = RequestFile(request[a])]
    <2>1. RequestFile(request[a]) \in ContentType.request /\ RequestFile(request[a]) # Absent
      BY <1>0 DEF RequestFile, ContentType, Absent
    <2>2. new \in FilesType /\ new.request = RequestFile(request[a])
          /\ \A f \in Files : f # "request" => new[f] = old[f]
      BY <1>0, <2>1, FilesReplaced, FilesPointwise DEF Files
    <2>3. \/ private' = private /\ (pc')[a] = "done"
          \/ private' = [private EXCEPT ![r] = new]
      BY <1>0, <1>2 DEF WriteRequest, Put, End, Round, DataInv, TypeOK
    <2>4. pc[a] = "write_request" /\ "result" \in Files
      BY <1>2 DEF WriteRequest, Files
    <2> HIDE DEF new, old, r
    <2>5. CASE private' = private /\ (pc')[a] = "done"
      <3>1. private' = [private EXCEPT ![r] = old]
        BY <1>0, <2>5 DEF old
      <3>2. QED
        BY <1>0, <2>4, <2>5, <3>1 DEF r, old
    <2>6. CASE private' = [private EXCEPT ![r] = new]
      BY <1>0, <2>1, <2>2, <2>4, <2>6 DEF r, old
    <2>7. QED
      BY <2>3, <2>5, <2>6
  <1>3. CASE WriteTaskState(a)
    <2> DEFINE x == StateFile("initialized", request[a], "pending")
               new == [old EXCEPT !.state = x]
    <2>1. x \in ContentType.state /\ x # Absent
      BY <1>0 DEF StateFile, ContentType, Absent, Identities
    <2>2. new \in FilesType /\ new.state = x
          /\ \A f \in Files : f # "state" => new[f] = old[f]
      <3>1. new \in FilesType
        BY <1>0, <2>1, FilesReplaced DEF Files
      <3>2. QED
        BY <1>0, <3>1, FilesPointwise DEF Files
    <2>3. \/ private' = private /\ (pc')[a] = "done"
          \/ private' = [private EXCEPT ![r] = new]
      BY <1>0, <1>3 DEF WriteTaskState, Put, End, Round, DataInv, TypeOK
    <2>4. pc[a] = "write_state" /\ "result" \in Files /\ "request" \in Files
      BY <1>3 DEF WriteTaskState, Files
    <2> HIDE DEF new, old, r, x
    <2>5. CASE private' = private /\ (pc')[a] = "done"
      <3>1. private' = [private EXCEPT ![r] = old]
        BY <1>0, <2>5 DEF old
      <3>2. QED
        BY <1>0, <2>4, <2>5, <3>1 DEF r, old
    <2>6. CASE private' = [private EXCEPT ![r] = new]
      <3>1. new.request = old.request /\ new.result = old.result
        BY <2>2, <2>4
      <3>2. \A f \in Files : old[f] # Absent => new[f] # Absent
        BY <2>1, <2>2
      <3>3. QED
        BY <1>0, <2>1, <2>2, <2>4, <2>6, <3>1, <3>2 DEF r, old
    <2>7. QED
      BY <2>3, <2>5, <2>6
  <1>4. CASE RunCommand(a)
    <2> DEFINE command == Chain[step[a] + 1]
    <2>1. /\ pc[a] = "chain" /\ step[a] \in 0 .. 5
          /\ old.request \in ContentType.request /\ old.request # Absent
          /\ old.state \in ContentType.state /\ old.state # Absent
      BY <1>0, <1>4, FilesPointwise DEF RunCommand, AdapterInv, DataInv
    <2>2. PICK files \in CASE command = "activation" -> {old}
                            [] command = "finalization" -> Finalized(old.request.of, old, a)
                            [] OTHER -> {old, [old EXCEPT !.state.stage = command]} :
             private' = [private EXCEPT ![r] = files]
      BY <1>4 DEF RunCommand, Round
    <2>3. /\ files \in FilesType /\ files.request = old.request
          /\ \A f \in Files : old[f] # Absent => files[f] # Absent
          /\ files.result = old.result \/ files.result.origin = a
      <3>1. CASE files = old
        BY <1>0, <3>1
      <3>2. CASE command = "finalization" /\ files \in Finalized(old.request.of, old, a)
        <4>1. old.request.of \in Requests /\ old.request = RequestFile(old.request.of)
          BY <2>1 DEF ContentType, RequestFile
        <4>2. QED
          BY <1>0, <2>1, <3>2, <4>1, FinalizedFiles
      <3>3. CASE /\ files = [old EXCEPT !.state.stage = command]
                 /\ command \notin {"activation", "finalization"}
        <4> DEFINE x == [old.state EXCEPT !.stage = command]
        <4>1. command \in {Chain[k] : k \in 2 .. Len(Chain)}
          <5>1. step[a] + 1 \in 2 .. Len(Chain)
            BY <2>1, <3>3, ListFacts
          <5>2. QED
            BY <5>1
        <4>2. x \in ContentType.state /\ x # Absent
          BY <2>1, <4>1 DEF ContentType, Absent
        <4>3. files = [old EXCEPT !.state = x]
          BY <3>3
        <4> HIDE DEF x, command, old
        <4>4. [old EXCEPT !.state = x] \in FilesType
          BY <1>0, <4>2, FilesReplaced DEF Files
        <4>5. /\ files.request = old.request /\ files.result = old.result /\ files.state = x
              /\ \A f \in Files : f # "state" => files[f] = old[f]
          BY <1>0, <4>3, FilesPointwise DEF Files
        <4>6. QED
          BY <4>2, <4>3, <4>4, <4>5
      <3>4. QED
        BY <2>2, <3>1, <3>2, <3>3
    <2>4. QED
      BY <2>1, <2>2, <2>3
  <1>5. QED
    BY <1>1, <1>2, <1>3, <1>4
    DEF Step, Prepare, Admit, CheckFresh, Recheck, ReadEvidence, Translate, PublishCheck, Publish

(* A move of one adapter, variable by variable. *)
LEMMA MoveCases ==
  ASSUME DataInv, NEW a \in Adapters, Move(a)
  PROVE  /\ \E label \in Labels : pc' = [pc EXCEPT ![a] = label]
         /\ \E k \in 0 .. 6 : step' = [step EXCEPT ![a] = k]
         /\ exit' = exit \/ \E c \in Categories : exit' = [exit EXCEPT ![a] = c]
         /\ \/ request' = request
            \/ pc[a] = "new" /\ \E q \in Requests : request' = [request EXCEPT ![a] = q]
         /\ seen' = seen \/ (pc[a] = "chain" /\ seen' = [seen EXCEPT ![a] = @ \cup {gpu}])
         /\ gpu' = gpu
  <1> USE DEF Labels, Categories, GotoAt, Goto, End
  <1>1. CASE Start(a)
    <2>1. pc[a] = "new" /\ \E q \in Requests : request' = [request EXCEPT ![a] = q]
      BY <1>1, Zenon DEF Start
    <2>2. /\ pc' = [pc EXCEPT ![a] = "prepare"] /\ step' = [step EXCEPT ![a] = 0]
          /\ UNCHANGED <<exit, gpu, seen>>
      BY <1>1 DEF Start
    <2>3. 0 \in 0 .. 6 /\ "prepare" \in Labels
      OBVIOUS
    <2> HIDE DEF Labels, Categories
    <2>4. QED
      BY <2>1, <2>2, <2>3, Zenon
  <1>2. CASE Prepare(a) \/ Admit(a) \/ CheckFresh(a) \/ Recheck(a) \/ Translate(a)
    BY <1>2 DEF Prepare, Admit, CheckFresh, Recheck, Translate
  <1>3. CASE WriteRequest(a) \/ WriteTaskState(a)
    BY <1>3 DEF WriteRequest, WriteTaskState, Put
  <1>4. CASE RunCommand(a) \/ ReadEvidence(a)
    <2>1. step[a] + 1 \in 0 .. 6
      BY <1>4 DEF DataInv, TypeOK, RunCommand, ReadEvidence
    <2>2. QED
      BY <1>4, <2>1 DEF RunCommand, ReadEvidence
  <1>5. CASE PublishCheck(a) \/ Publish(a) \/ Crash(a)
    BY <1>5 DEF PublishCheck, Publish, Crash
  <1>6. QED
    BY <1>1, <1>2, <1>3, <1>4, <1>5 DEF Move, Step

(* What it has read is kept, forgotten at its end, or grows by one file.   *)
LEMMA EvidenceStep ==
  ASSUME DataInv, NEW a \in Adapters, Move(a)
  PROVE  \E e \in FilesType :
            /\ evidence' = [evidence EXCEPT ![a] = e]
            /\ \A f \in Files : e[f] # Unreadable
            /\ \/ e = evidence[a] /\ pc[a] # "read"
               \/ (pc')[a] = "done"
               \/ /\ ReadEvidence(a) /\ (pc')[a] \in {"read", "translate"}
                  /\ e = [evidence[a] EXCEPT ![Evidence[step[a] + 1]] =
                                                private[Round(a)][Evidence[step[a] + 1]]]
  <1>1. /\ evidence \in [Adapters -> FilesType] /\ evidence[a] \in FilesType
        /\ \A f \in Files : evidence[a][f] # Unreadable
    BY DEF DataInv, TypeOK
  <1>2. CASE evidence' = evidence /\ pc[a] # "read"
    <2>1. evidence' = [evidence EXCEPT ![a] = evidence[a]]
      BY <1>1, <1>2
    <2>2. QED
      BY <1>1, <1>2, <2>1
  <1>3. CASE evidence' = [evidence EXCEPT ![a] = Nothing] /\ (pc')[a] = "done"
    <2>1. Nothing \in FilesType /\ \A f \in Files : Nothing[f] # Unreadable
      BY AbsentIsContent DEF Nothing, FilesType, AnyContent, Absent, Unreadable
    <2>2. QED
      BY <1>3, <2>1
  <1>4. CASE ReadEvidence(a) /\ (pc')[a] # "done"
    <2> DEFINE file == Evidence[step[a] + 1]
               content == private[Round(a)][file]
               e == [evidence[a] EXCEPT ![file] = content]
    <2>1. step[a] \in {0, 1, 2, 3} /\ Round(a) \in Rounds /\ private[Round(a)] \in FilesType
      BY <1>4 DEF DataInv, TypeOK, ReadEvidence, Round, Rounds
    <2>2. file \in Files
      BY <2>1, ListFacts DEF Files
    <2>3. content \notin {Absent, Unreadable}
      BY <1>4 DEF ReadEvidence, End, Round, DataInv, TypeOK
    <2>4. /\ evidence' = [evidence EXCEPT ![a][file] = content]
          /\ (pc')[a] \in {"read", "translate"}
      BY <1>4, <2>3 DEF ReadEvidence, GotoAt, Round, DataInv, TypeOK
    <2>5. content \in ContentType[file]
      BY <2>1, <2>2 DEF FilesType
    <2> HIDE DEF file, content
    <2>6. e \in FilesType
      BY <1>1, <2>2, <2>5, FilesReplaced
    <2>7. \A f \in Files : e[f] # Unreadable
      BY <1>1, <2>2, <2>3, FilesPointwise
    <2>8. evidence' = [evidence EXCEPT ![a] = e]
      BY <2>4
    <2> HIDE DEF e
    <2>9. QED
      BY <1>4, <2>4, <2>6, <2>7, <2>8 DEF e, file, content
  <1>5. (pc')[a] = "done" => evidence' = [evidence EXCEPT ![a] = Nothing]
    <2> USE DEF DataInv, TypeOK, Goto, GotoAt, End
    <2>1. CASE Start(a) \/ Prepare(a) \/ Admit(a) \/ CheckFresh(a) \/ Recheck(a)
      BY <2>1 DEF Start, Prepare, Admit, CheckFresh, Recheck
    <2>2. CASE WriteRequest(a) \/ WriteTaskState(a)
      BY <2>2 DEF WriteRequest, WriteTaskState, Put
    <2>3. CASE RunCommand(a)
      BY <2>3 DEF RunCommand
    <2>4. CASE ReadEvidence(a)
      BY <2>4 DEF ReadEvidence
    <2>5. CASE Translate(a) \/ PublishCheck(a) \/ Publish(a) \/ Crash(a)
      BY <2>5 DEF Translate, PublishCheck, Publish, Crash
    <2>6. QED
      BY <2>1, <2>2, <2>3, <2>4, <2>5 DEF Move, Step
  <1>6. (pc')[a] # "done" /\ ~ReadEvidence(a) => evidence' = evidence /\ pc[a] # "read"
    BY DEF Move, Step, Start, Crash, Prepare, Admit, CheckFresh, WriteRequest, WriteTaskState,
        Put, RunCommand, Recheck, Translate, PublishCheck, Publish, Goto,
        GotoAt, End, DataInv, TypeOK
  <1>7. QED
    BY <1>2, <1>3, <1>4, <1>5, <1>6

(* The feedback of a round is removed by a start and put there by a        *)
(* publication, of evidence that was found translatable.                   *)
LEMMA FeedbackStep ==
  ASSUME DataInv, NEW a \in Adapters, AdapterInv(a), Move(a)
  PROVE  \/ ~Start(a) /\ feedback' = feedback
         \/ \E q \in Requests :
               /\ Start(a) /\ request' = [request EXCEPT ![a] = q]
               /\ feedback' = [feedback EXCEPT ![q.round] = Absent]
         \/ /\ Publish(a) /\ (pc')[a] = "done" /\ Feedback(a) \in FeedbackType
            /\ feedback' = [feedback EXCEPT ![Round(a)] = Feedback(a)]
  <1>1. CASE Start(a)
    BY <1>1 DEF Start
  <1>2. CASE Publish(a)
    <2>1. Translatable(evidence[a], request[a])
      BY <1>2 DEF Publish, AdapterInv
    <2>2. evidence[a].result \in ContentType.result /\ request[a] \in Requests
      BY FilesPointwise DEF DataInv, TypeOK
    <2>3. Feedback(a) \in FeedbackType
      BY <2>1, <2>2 DEF Translatable, ContentType, Absent, Feedback, FeedbackType
    <2>4. (pc')[a] = "done"
      BY <1>2 DEF Publish, End, DataInv, TypeOK
    <2>5. ~Start(a)
      BY <1>2 DEF Publish, Start
    <2>6. QED
      BY <1>2, <2>3, <2>4, <2>5 DEF Publish, Round
  <1>3. CASE ~Start(a) /\ ~Publish(a)
    BY <1>3 DEF Move, Step, Crash, Prepare, Admit, CheckFresh, WriteRequest, WriteTaskState,
                RunCommand, Recheck, ReadEvidence, Translate, PublishCheck
  <1>4. QED
    BY <1>1, <1>2, <1>3

(* An adapter writes to its own round alone, and removes nothing.          *)
LEMMA PrivateMove ==
  ASSUME DataInv, NEW a \in Adapters, AdapterInv(a), Move(a)
  PROVE  /\ private' \in [Rounds -> FilesType]
         /\ \A r \in Rounds : /\ r # Round(a) => (private')[r] = private[r]
                              /\ \A f \in Files : private[r][f] # Absent => (private')[r][f] # Absent
  <1>1. CASE Step(a)
    <2>1. PICK files \in FilesType :
             /\ private' = [private EXCEPT ![Round(a)] = files]
             /\ \A f \in Files : private[Round(a)][f] # Absent => files[f] # Absent
      BY <1>1, PrivateStep
    <2>2. QED
      BY <2>1 DEF DataInv
  <1>2. CASE Start(a) \/ Crash(a)
    BY <1>2 DEF Start, Crash, DataInv
  <1>3. QED
    BY <1>1, <1>2 DEF Move
-----------------------------------------------------------------------------
(* The moves of one adapter leave the others alone. *)
LEMMA MoveOfOne ==
  ASSUME DataInv, NEW a \in Adapters, Move(a), NEW b \in Adapters, b # a
  PROVE  /\ (pc')[b] = pc[b] /\ (step')[b] = step[b] /\ (request')[b] = request[b]
         /\ (seen')[b] = seen[b] /\ (evidence')[b] = evidence[b]
  <1>1. (pc')[b] = pc[b] /\ (step')[b] = step[b]
    BY MoveCases DEF DataInv, TypeOK
  <1>2. (request')[b] = request[b]
    BY MoveCases DEF DataInv, TypeOK
  <1>3. (seen')[b] = seen[b]
    BY MoveCases DEF DataInv, TypeOK
  <1>4. (evidence')[b] = evidence[b]
    BY EvidenceStep DEF DataInv
  <1>5. QED
    BY <1>1, <1>2, <1>3, <1>4

(* Where a move leads to. *)
LEMMA MoveTo ==
  ASSUME DataInv, NEW a \in Adapters, Move(a)
  PROVE  \/ (pc')[a] = "done" /\ pc[a] # "done"
         \/ pc[a] = "new" /\ (pc')[a] = "prepare"
         \/ pc[a] = "prepare" /\ (pc')[a] = "admit"
         \/ pc[a] = "admit" /\ (pc')[a] = "check_fresh"
         \/ pc[a] = "check_fresh" /\ (pc')[a] = "write_request" /\ Fresh(private[Round(a)])
         \/ pc[a] = "write_request" /\ (pc')[a] = "write_state"
         \/ pc[a] = "write_state" /\ (pc')[a] = "chain" /\ (step')[a] = 0
         \/ /\ pc[a] = "chain" /\ (pc')[a] = "chain" /\ (step')[a] = step[a] + 1
            /\ step[a] + 1 # 6
         \/ pc[a] = "chain" /\ (pc')[a] = "recheck"
         \/ pc[a] = "recheck" /\ (pc')[a] = "read" /\ (step')[a] = 0 /\ gpu = "ok"
         \/ /\ pc[a] = "read" /\ (pc')[a] = "read" /\ (step')[a] = step[a] + 1
            /\ step[a] + 1 # 4
         \/ pc[a] = "read" /\ (pc')[a] = "translate" /\ step[a] + 1 = 4
         \/ /\ pc[a] = "translate" /\ (pc')[a] = "publish_check"
            /\ Translatable(evidence[a], request[a])
         \/ pc[a] = "publish_check" /\ (pc')[a] = "publish"
  <1> USE ListFacts DEF DataInv, TypeOK, GotoAt, Goto, End
  <1>1. CASE Start(a)
    BY <1>1 DEF Start
  <1>2. CASE Prepare(a) \/ Admit(a) \/ CheckFresh(a)
    BY <1>2 DEF Prepare, Admit, CheckFresh, Round
  <1>3. CASE WriteRequest(a)
    BY <1>3 DEF WriteRequest, Put
  <1>4. CASE WriteTaskState(a)
    BY <1>4 DEF WriteTaskState, Put
  <1>5. CASE RunCommand(a)
    BY <1>5 DEF RunCommand
  <1>6. CASE ReadEvidence(a)
    BY <1>6 DEF ReadEvidence
  <1>7. CASE Recheck(a) \/ Translate(a) \/ PublishCheck(a) \/ Publish(a) \/ Crash(a)
    BY <1>7 DEF Recheck, Translate, PublishCheck, Publish, Crash, Idle
  <1>8. QED
    BY <1>1, <1>2, <1>3, <1>4, <1>5, <1>6, <1>7 DEF Move, Step

(* Every move keeps the types. *)
LEMMA MoveDataInv ==
  ASSUME DataInv, NEW a \in Adapters, AdapterInv(a), Move(a), sequential' = sequential
  PROVE  DataInv'
  <1>1. pc' \in [Adapters -> Labels] /\ step' \in [Adapters -> 0 .. 6]
    BY MoveCases, ListFacts DEF DataInv, TypeOK
  <1>2. exit' \in [Adapters -> Categories] /\ request' \in [Adapters -> Requests]
    <2>1. exit \in [Adapters -> Categories] /\ request \in [Adapters -> Requests]
      BY DEF DataInv, TypeOK
    <2>2. exit' = exit \/ \E c \in Categories : exit' = [exit EXCEPT ![a] = c]
      BY MoveCases
    <2>3. request' = request \/ \E q \in Requests : request' = [request EXCEPT ![a] = q]
      BY MoveCases
    <2>4. QED
      BY <2>1, <2>2, <2>3
  <1>3. seen' \in [Adapters -> SUBSET GpuStates] /\ gpu' \in GpuStates
    BY MoveCases DEF DataInv, TypeOK
  <1>4. private' \in [Rounds -> FilesType]
    BY PrivateMove
  <1>5. /\ evidence' \in [Adapters -> FilesType]
        /\ \A b \in Adapters, f \in Files : (evidence')[b][f] # Unreadable
    <2>1. PICK e \in FilesType : /\ evidence' = [evidence EXCEPT ![a] = e]
                                /\ \A f \in Files : e[f] # Unreadable
      BY EvidenceStep
    <2>2. QED
      BY <2>1 DEF DataInv, TypeOK
  <1>6. feedback' \in [Rounds -> {Absent} \cup FeedbackType]
    <2>1. feedback \in [Rounds -> {Absent} \cup FeedbackType]
      BY DEF DataInv
    <2>2. \A r \in Rounds, x \in {Absent} \cup FeedbackType :
             [feedback EXCEPT ![r] = x] \in [Rounds -> {Absent} \cup FeedbackType]
      BY <2>1
    <2>3. Round(a) \in Rounds /\ \A q \in Requests : q.round \in Rounds
      BY DEF DataInv, TypeOK, Rounds, Round
    <2>4. QED
      BY <2>1, <2>2, <2>3, FeedbackStep
  <1>7. ASSUME NEW b \in Adapters
        PROVE  /\ (pc')[b] = "chain" => (step')[b] \in 0 .. 5
               /\ (pc')[b] = "read" => (step')[b] \in 0 .. 3
    <2>1. CASE b = a
      <3>1. /\ pc[a] = "chain" => step[a] \in 0 .. 5
            /\ pc[a] = "read" => step[a] \in 0 .. 3
        BY DEF DataInv
      <3>2. QED
        BY <2>1, <3>1, MoveTo
    <2>2. CASE b # a
      BY <2>2, MoveOfOne DEF DataInv
    <2>3. QED
      BY <2>1, <2>2
  <1>8. \A c \in FilesType, f \in Files : c[f] \in ContentType[f]
    BY DEF FilesType
  <1>9. TypeOK'
    BY <1>1, <1>2, <1>3, <1>4, <1>5, <1>6, <1>8, ListFacts DEF DataInv, TypeOK
  <1>10. QED
    BY <1>4, <1>5, <1>6, <1>7, <1>9 DEF DataInv
-----------------------------------------------------------------------------
(* What an adapter has left and seen is kept by its own moves ... *)
LEMMA OwnMoveInv ==
  ASSUME DataInv, NEW a \in Adapters, AdapterInv(a), Move(a)
  PROVE  AdapterInv(a)'
  <1>1. "request" \in Files /\ "state" \in Files
    BY DEF Files
  <1>2. pc[a] # "new" => (request')[a] = request[a] /\ Round(a)' = Round(a)
    BY MoveCases DEF Round
  <1>3. Round(a) \in Rounds /\ Round(a)' \in Rounds
    BY MoveCases DEF DataInv, TypeOK, Round, Rounds
  <1>4. /\ (seen')[a] = seen[a] \/ (pc[a] = "chain" /\ (seen')[a] = seen[a] \cup {gpu})
        /\ gpu' = gpu
    BY MoveCases DEF DataInv, TypeOK
  <1>5. /\ private[Round(a)].request # Absent => (private')[Round(a)].request # Absent
        /\ private[Round(a)].state # Absent => (private')[Round(a)].state # Absent
    BY <1>1, <1>3, PrivateMove
  <1>6. (pc')[a] = "write_state" => (private')[Round(a)'].request # Absent
    <2>1. SUFFICES ASSUME (pc')[a] = "write_state" PROVE (private')[Round(a)'].request # Absent
      OBVIOUS
    <2>2. pc[a] = "write_request" /\ Step(a)
      <3>1. pc[a] = "write_request"
        BY <2>1, MoveTo
      <3>2. ~Start(a) /\ ~Crash(a)
        BY <2>1, <3>1 DEF Start, Crash, End, DataInv, TypeOK
      <3>3. QED
        BY <3>1, <3>2 DEF Move
    <2>3. PICK files \in FilesType : /\ private' = [private EXCEPT ![Round(a)] = files]
                                    /\ files.request = RequestFile(request[a])
      BY <2>1, <2>2, PrivateStep
    <2>4. RequestFile(request[a]) # Absent
      BY DEF RequestFile, Absent
    <2>5. QED
      BY <1>2, <1>3, <2>2, <2>3, <2>4 DEF DataInv
  <1>7. pc[a] = "write_state" /\ (pc')[a] = "chain" => (private')[Round(a)'].state # Absent
    <2>1. SUFFICES ASSUME pc[a] = "write_state", (pc')[a] = "chain"
                   PROVE  (private')[Round(a)'].state # Absent
      OBVIOUS
    <2>2. Step(a)
      BY <2>1 DEF Move, Start, Crash, End, DataInv, TypeOK
    <2>3. PICK files \in FilesType : /\ private' = [private EXCEPT ![Round(a)] = files]
                                    /\ files.state # Absent
      BY <2>1, <2>2, PrivateStep
    <2>4. QED
      BY <1>2, <1>3, <2>1, <2>3 DEF DataInv
  <1>8. pc[a] = "translate" /\ (pc')[a] # "done" => (evidence')[a] = evidence[a]
    BY EvidenceStep DEF ReadEvidence, DataInv
  <1>9. pc[a] = "publish_check" /\ (pc')[a] # "done" => (evidence')[a] = evidence[a]
    BY EvidenceStep DEF ReadEvidence, DataInv
  <1> USE DEF AdapterInv, Before, Reading, Executed
  <1>10. (pc')[a] \in {"write_state", "chain"} \/ Executed(a)' =>
            (private')[Round(a)'].request # Absent
    BY <1>2, <1>4, <1>5, <1>6, MoveTo
  <1>11. (pc')[a] = "chain" => (private')[Round(a)'].state # Absent
    BY <1>2, <1>5, <1>7, MoveTo
  <1>12. (pc')[a] \in Before => (seen')[a] = {}
    BY <1>4, MoveTo
  <1>13. /\ "drifted" \in (seen')[a] => gpu' = "drifted"
         /\ (pc')[a] \in Reading => "drifted" \notin (seen')[a]
    BY <1>4, MoveTo
  <1>14. (pc')[a] \in {"publish_check", "publish"} => Translatable((evidence')[a], (request')[a])
    BY <1>2, <1>8, <1>9, MoveTo
  <1>15. Translatable(evidence[a], request[a])' <=> Translatable((evidence')[a], (request')[a])
    BY ListFacts DEF Translatable, Settled, Completion
  <1>16. QED
    BY <1>10, <1>11, <1>12, <1>13, <1>14, <1>15

(* ... and by those of the others. *)
LEMMA OtherMoveInv ==
  ASSUME DataInv, NEW a \in Adapters, AdapterInv(a), Move(a),
         NEW b \in Adapters, b # a, AdapterInv(b)
  PROVE  AdapterInv(b)'
  <1>1. "request" \in Files /\ "state" \in Files
    BY DEF Files
  <1>2. /\ (pc')[b] = pc[b] /\ (request')[b] = request[b] /\ (seen')[b] = seen[b]
        /\ (evidence')[b] = evidence[b] /\ gpu' = gpu
    BY MoveOfOne, MoveCases
  <1>3. Round(b)' = Round(b) /\ Round(b) \in Rounds
    BY <1>2 DEF Round, DataInv, TypeOK, Rounds
  <1>4. /\ private[Round(b)].request # Absent => (private')[Round(b)].request # Absent
        /\ private[Round(b)].state # Absent => (private')[Round(b)].state # Absent
    BY <1>1, <1>3, PrivateMove
  <1>5. Translatable(evidence[b], request[b])' <=> Translatable(evidence[b], request[b])
    BY <1>2, ListFacts DEF Translatable, Settled, Completion
  <1>6. QED
    BY <1>2, <1>3, <1>4, <1>5 DEF AdapterInv, Executed

(* What is published stays sound. *)
LEMMA MoveFeedbackInv ==
  ASSUME DataInv, SharedInv, NEW a \in Adapters, Move(a), NEW r \in Rounds
  PROVE  FeedbackInv(r)'
  <1>1. AdapterInv(a) /\ FeedbackInv(r)
    BY DEF SharedInv
  <1>2. pc[a] # "done"
    BY MoveTo
  <1>3. CASE (feedback')[r] = feedback[r]
    <2>1. feedback[r] # Absent => feedback[r].writer \in Adapters \ {a}
      BY <1>1, <1>2 DEF FeedbackInv, DataInv, FeedbackType
    <2>2. feedback[r] # Absent => /\ (pc')[feedback[r].writer] = pc[feedback[r].writer]
                                  /\ (seen')[feedback[r].writer] = seen[feedback[r].writer]
      BY <2>1, MoveOfOne
    <2>3. QED
      BY <1>1, <1>3, <2>2 DEF FeedbackInv
  <1>4. CASE (feedback')[r] = Absent
    BY <1>4 DEF FeedbackInv
  <1>5. CASE /\ r = Round(a) /\ Publish(a) /\ (feedback')[r] = Feedback(a)
             /\ (pc')[a] = "done"
    <2>1. Translatable(evidence[a], request[a]) /\ "drifted" \notin seen[a]
      BY <1>1, <1>5 DEF Publish, AdapterInv, Reading
    <2>2. (seen')[a] = seen[a]
      BY <1>5, MoveCases DEF Publish, DataInv, TypeOK
    <2>3. Feedback(a).measured = Feedback(a).of /\ Feedback(a).of = request[a] /\ Feedback(a).writer = a
      BY <2>1 DEF Feedback, Translatable
    <2>4. QED
      BY <1>5, <2>1, <2>2, <2>3 DEF FeedbackInv, Round
  <1>6. Round(a) \in Rounds /\ \A q \in Requests : q.round \in Rounds
    BY DEF DataInv, TypeOK, Rounds, Round
  <1>7. QED
    BY <1>1, <1>3, <1>4, <1>5, <1>6, FeedbackStep DEF DataInv
-----------------------------------------------------------------------------
(* In a sequential history only one adapter moves at a time. *)
LEMMA OthersAreIdle ==
  ASSUME sequential, Alone, NEW a \in Adapters, Move(a), NEW b \in Adapters, b # a
  PROVE  Idle(b)
  <1>1. CASE Start(a)
    BY <1>1 DEF Start
  <1>2. CASE ~Start(a)
    <2>1. ~Idle(a)
      BY <1>2 DEF Move, Step, Crash, Idle, Prepare, Admit, CheckFresh, WriteRequest,
                  WriteTaskState, RunCommand, Recheck, ReadEvidence, Translate,
                  PublishCheck, Publish
    <2>2. QED
      BY <2>1 DEF Alone
  <1>3. QED
    BY <1>1, <1>2

(* So its private round is its own. *)
LEMMA MoveOwnRound ==
  ASSUME DataInv, SharedInv, sequential, SequentialInv, NEW a \in Adapters, Move(a)
  PROVE  OwnRound(a)'
  <1> DEFINE r == Round(a)
  <1>1. AdapterInv(a) /\ OwnRound(a) /\ Alone
    BY DEF SharedInv, SequentialInv
  <1>2. pc[a] # "new" => (request')[a] = request[a] /\ Round(a)' = r
    BY MoveCases DEF Round
  <1>3. r \in Rounds /\ Round(a)' \in Rounds /\ private \in [Rounds -> FilesType]
    BY MoveCases DEF DataInv, TypeOK, Round, Rounds
  <1>4. ~Idle(a)' => (feedback')[Round(a)'] = Absent
    <2>1. CASE Start(a)
      BY <2>1, <1>3 DEF Start, DataInv, TypeOK, Round
    <2>2. CASE ~Start(a) /\ (pc')[a] # "done"
      <3>1. feedback' = feedback
        BY <1>1, <2>2, FeedbackStep
      <3>2. ~Idle(a)
        BY <2>2, MoveTo DEF Idle, Move, Step, Crash, Prepare, Admit, CheckFresh, WriteRequest,
                  WriteTaskState, RunCommand, Recheck, ReadEvidence, Translate,
                  PublishCheck, Publish
      <3>3. QED
        BY <1>1, <1>2, <3>1, <3>2 DEF OwnRound, Idle
    <2>3. QED
      BY <2>1, <2>2 DEF Idle
  <1>5. \A b \in Adapters : b # a => /\ Executed(b)' = Executed(b) /\ Round(b)' = Round(b)
    BY MoveOfOne DEF Executed, Round
  <1>6. \/ private' = private
        \/ /\ pc[a] \in {"write_request", "write_state", "chain"}
           /\ \E files \in FilesType :
                 /\ private' = [private EXCEPT ![r] = files]
                 /\ \/ pc[a] # "write_request" /\ files.request = private[r].request
                    \/ /\ pc[a] = "write_request"
                       /\ (pc')[a] # "done" => files.request = RequestFile(request[a])
                 /\ files.result = private[r].result \/ files.result.origin = a
    <2>1. CASE Step(a)
      <3>1. PICK files \in FilesType :
              /\ private' = [private EXCEPT ![r] = files]
              /\ files # private[r] => pc[a] \in {"write_request", "write_state", "chain"}
              /\ \/ pc[a] # "write_request" /\ files.request = private[r].request
                 \/ /\ pc[a] = "write_request"
                    /\ (pc')[a] # "done" => files.request = RequestFile(request[a])
              /\ files.result = private[r].result \/ files.result.origin = a
        BY <1>1, <2>1, PrivateStep
      <3>2. CASE files = private[r]
        BY <1>3, <3>1, <3>2
      <3>3. CASE files # private[r]
        BY <3>1, <3>3
      <3>4. QED
        BY <3>2, <3>3
    <2>2. CASE Start(a) \/ Crash(a)
      BY <2>2 DEF Start, Crash
    <2>3. QED
      BY <2>1, <2>2 DEF Move
  <1>7. (pc')[a] \in Working \cup {"write_request"} =>
           \A b \in Adapters : b # a /\ Executed(b)' => Round(b)' # Round(a)'
    <2>1. CASE pc[a] = "check_fresh" /\ Fresh(private[r])
      <3>1. private[r].request = Absent
        BY <2>1 DEF Fresh, Files
      <3>2. \A b \in Adapters : Executed(b) => private[Round(b)].request # Absent
        BY DEF SharedInv, AdapterInv
      <3>3. QED
        BY <1>2, <1>5, <2>1, <3>1, <3>2
    <2>2. CASE pc[a] \in Working \cup {"write_request"}
      BY <1>1, <1>2, <1>5, <2>2 DEF OwnRound, Working, Reading
    <2>3. QED
      BY <2>1, <2>2, MoveTo DEF Working, Reading
  <1>8. (pc')[a] \in Working \cup {"write_request"} =>
           (private')[Round(a)'].result = Absent \/ (private')[Round(a)'].result.origin = a
    <2>1. CASE pc[a] = "check_fresh" /\ Fresh(private[r])
      <3>1. private[r].result = Absent
        BY <2>1 DEF Fresh, Files
      <3>2. private' = private
        BY <1>6, <2>1
      <3>3. QED
        BY <1>2, <2>1, <3>1, <3>2
    <2>2. CASE pc[a] \in Working \cup {"write_request"}
      <3>1. private[r].result = Absent \/ private[r].result.origin = a
        BY <1>1, <2>2 DEF OwnRound
      <3>2. QED
        BY <1>2, <1>3, <1>6, <2>2, <3>1 DEF Working, Reading
    <2>3. QED
      BY <2>1, <2>2, MoveTo DEF Working, Reading
  <1>9. (pc')[a] \in Working => (private')[Round(a)'].request = RequestFile((request')[a])
    <2>1. CASE pc[a] = "write_request"
      <3>1. CASE Step(a) /\ (pc')[a] # "done"
        <4>1. PICK files \in FilesType : /\ private' = [private EXCEPT ![r] = files]
                                        /\ files.request = RequestFile(request[a])
          BY <1>1, <2>1, <3>1, PrivateStep
        <4>2. QED
          BY <1>2, <1>3, <2>1, <4>1
      <3>2. CASE ~Step(a)
        BY <2>1, <3>2 DEF Move, Start, Crash, End, DataInv, TypeOK, Working, Reading
      <3>3. QED
        BY <3>1, <3>2 DEF Working, Reading
    <2>2. CASE pc[a] \in Working
      <3>1. private[r].request = RequestFile(request[a])
        BY <1>1, <2>2 DEF OwnRound
      <3>2. QED
        BY <1>2, <1>3, <1>6, <2>2, <3>1 DEF Working, Reading
    <2>3. QED
      BY <2>1, <2>2, MoveTo DEF Working, Reading
  <1>10. \A f \in Read(a)' : (evidence')[a][f] = (private')[Round(a)'][f]
    <2>1. Read(a)' = IF (pc')[a] = "read" THEN {Evidence[k] : k \in 1 .. (step')[a]}
                     ELSE IF (pc')[a] \in Reading THEN {Evidence[k] : k \in 1 .. 4} ELSE {}
      BY ListFacts DEF Read, Reading
    <2>2. CASE (pc')[a] \notin Reading
      BY <2>1, <2>2 DEF Reading
    <2>3. CASE pc[a] = "recheck" /\ (pc')[a] = "read" /\ (step')[a] = 0
      BY <2>1, <2>3
    <2>4. CASE /\ pc[a] = "read"
               /\ \/ (pc')[a] = "read" /\ (step')[a] = step[a] + 1
                  \/ (pc')[a] = "translate" /\ step[a] + 1 = 4
      <3> DEFINE file == Evidence[step[a] + 1]
      <3>1. private' = private /\ Round(a)' = r
        BY <1>2, <1>6, <2>4
      <3>2. (evidence')[a] = [evidence[a] EXCEPT ![file] = private[r][file]]
        BY <2>4, EvidenceStep DEF DataInv
      <3>3. step[a] \in 0 .. 3 /\ evidence[a] \in FilesType
        BY <2>4 DEF DataInv
      <3>4. Read(a)' = {Evidence[k] : k \in 1 .. step[a] + 1}
        BY <2>1, <2>4, <3>3 DEF Reading
      <3>5. Read(a) = {Evidence[k] : k \in 1 .. step[a]}
        BY <2>4 DEF Read
      <3>6. \A f \in Read(a)' : f = file \/ f \in Read(a)
        BY <3>3, <3>4, <3>5
      <3>7. \A f \in Read(a) : evidence[a][f] = private[r][f]
        BY <1>1 DEF OwnRound
      <3>8. file \in DOMAIN evidence[a]
        <4>1. step[a] \in {0, 1, 2, 3}
          BY <3>3
        <4>2. QED
          BY <3>3, <4>1, ListFacts, FilesPointwise DEF Files
      <3> HIDE DEF file, r
      <3>9. \A f \in Read(a)' : f \in DOMAIN evidence[a]
        BY <3>3, <3>4, ListFacts, FilesPointwise DEF Files
      <3>10. QED
        BY <3>1, <3>2, <3>6, <3>7, <3>8, <3>9
    <2>5. CASE /\ pc[a] \in {"translate", "publish_check"}
               /\ (pc')[a] \in {"publish_check", "publish"}
      <3>1. private' = private /\ Round(a)' = r
        BY <1>2, <1>6, <2>5
      <3>2. (evidence')[a] = evidence[a]
        BY <2>5, EvidenceStep DEF DataInv
      <3>3. Read(a)' = Read(a)
        BY <2>1, <2>5 DEF Read, Reading
      <3>4. QED
        BY <1>1, <3>1, <3>2, <3>3 DEF OwnRound
    <2>6. QED
      BY <2>2, <2>3, <2>4, <2>5, MoveTo DEF Reading
  <1>11. RequestFile(request[a])' = RequestFile((request')[a])
    BY DEF RequestFile
  <1>12. QED
    BY <1>4, <1>7, <1>8, <1>9, <1>10, <1>11 DEF OwnRound

(* Only the steps that write a private round change one.                   *)
LEMMA PrivateKept ==
  ASSUME DataInv, NEW a \in Adapters, AdapterInv(a), Move(a),
         pc[a] \notin {"write_request", "write_state", "chain"}
  PROVE  private' = private
  <1>1. CASE Step(a)
    BY <1>1, PrivateStep DEF DataInv
  <1>2. CASE Start(a) \/ Crash(a)
    BY <1>2 DEF Start, Crash
  <1>3. QED
    BY <1>1, <1>2 DEF Move

(* The others are idle, before and after. *)
LEMMA MoveAlone ==
  ASSUME DataInv, sequential, Alone, NEW a \in Adapters, Move(a)
  PROVE  Alone' /\ \A b \in Adapters : b # a => Idle(b)'
  <1>1. \A b \in Adapters : b # a => Idle(b)'
    BY OthersAreIdle, MoveOfOne DEF Idle
  <1>2. QED
    BY <1>1 DEF Alone

(* In turns, a move of one adapter leaves the round of an idle one alone.  *)
LEMMA MoveOtherRounds ==
  ASSUME DataInv, sequential, Alone, NEW a \in Adapters, Move(a),
         NEW b \in Adapters, b # a
  PROVE  OwnRound(b)'
  <1>1. (pc')[b] \in {"new", "done"} /\ Idle(b)'
    BY MoveAlone DEF Idle
  <1>2. Read(b)' = {}
    BY <1>1 DEF Read, Reading
  <1>3. (pc')[b] \notin Working \cup {"write_request"}
    BY <1>1 DEF Working, Reading
  <1>4. QED
    BY <1>1, <1>2, <1>3 DEF OwnRound

(* A round is executed by the adapter that found it unused. *)
LEMMA MoveChainAtMostOnce ==
  ASSUME DataInv, SharedInv, sequential, SequentialInv, NEW a \in Adapters, Move(a)
  PROVE  ChainAtMostOnce'
  <1>1. AdapterInv(a) /\ OwnRound(a)
    BY DEF SharedInv, SequentialInv
  <1>2. /\ (seen')[a] = seen[a] \/ pc[a] = "chain"
        /\ pc[a] # "new" => (request')[a] = request[a]
    BY MoveCases DEF DataInv, TypeOK
  <1>3. Executed(a)' => /\ (request')[a] = request[a]
                        /\ Executed(a) \/ pc[a] = "chain"
    BY <1>1, <1>2 DEF Executed, AdapterInv, Before
  <1>4. \A b \in Adapters : b # a => (Executed(b)' <=> Executed(b)) /\ (request')[b] = request[b]
    BY MoveOfOne DEF Executed
  <1>5. \A x, y \in Adapters :
           Executed(x) /\ Executed(y) /\ request[x].round = request[y].round => x = y
    BY DEF SequentialInv, ChainAtMostOnce
  <1>6. pc[a] = "chain" => \A b \in Adapters : b # a /\ Executed(b) =>
                              request[b].round # request[a].round
    BY <1>1 DEF OwnRound, Working, Round
  <1>7. \A b \in Adapters : b # a /\ Executed(a)' /\ Executed(b)' =>
           (request')[a].round # (request')[b].round
    BY <1>3, <1>4, <1>5, <1>6
  <1>8. \A x, y \in Adapters :
           Executed(x)' /\ Executed(y)' /\ (request')[x].round = (request')[y].round => x = y
    BY <1>4, <1>5, <1>7
  <1>9. QED
    BY <1>8 DEF ChainAtMostOnce

(* What Publish writes is what is on disk in the private round.            *)
LEMMA PublishedEvidence ==
  ASSUME DataInv, SharedInv, SequentialInv, sequential, NEW a \in Adapters, Publish(a)
  PROVE  LET r == Round(a)
             fb == Feedback(a)
         IN  /\ fb.origin = a /\ fb.writer = a
             /\ private[r].request = RequestFile(fb.of)
             /\ private[r].state = StateFile("finalization", fb.of, fb.status)
             /\ private[r].result.status = fb.status
             /\ private[r].receipt = Completion(fb.of)
             /\ private[r].barrier = Completion(fb.of)
  <1> DEFINE r == Round(a)
             e == evidence[a]
  <1>1. /\ OwnRound(a) /\ AdapterInv(a) /\ pc[a] = "publish"
    BY DEF SharedInv, SequentialInv, Publish
  <1>2. /\ Translatable(e, request[a]) /\ private[r].request = RequestFile(request[a])
        /\ private[r].result = Absent \/ private[r].result.origin = a
    BY <1>1 DEF OwnRound, AdapterInv, Working, Reading
  <1>3. /\ e.state = private[r].state /\ e.result = private[r].result
        /\ e.receipt = private[r].receipt /\ e.barrier = private[r].barrier
    <2>1. \A k \in 1 .. 4 : Evidence[k] \in Read(a)
      BY <1>1 DEF Read, Reading
    <2>2. \A k \in 1 .. 4 : e[Evidence[k]] = private[r][Evidence[k]]
      BY <1>1, <2>1 DEF OwnRound
    <2>3. QED
      BY <2>2, ListFacts
  <1>4. e.state \in ContentType.state /\ e.result \in ContentType.result
    BY FilesPointwise DEF DataInv
  <1> HIDE DEF r, e
  <1>5. e.state = StateFile("finalization", request[a], e.state.status)
        /\ e.state.status = e.result.status
    BY <1>2, <1>4, ListFacts DEF Translatable, ContentType, StateFile, Absent
  <1>6. e.result # Absent
    BY <1>2 DEF Translatable, Absent
  <1>7. e.receipt = Completion(request[a]) /\ e.barrier = Completion(request[a])
    BY <1>2 DEF Translatable, Settled
  <1>8. Feedback(a).of = request[a] /\ Feedback(a).status = e.result.status
        /\ Feedback(a).origin = e.result.origin /\ Feedback(a).writer = a
    BY DEF Feedback, e
  <1>9. QED
    BY <1>2, <1>3, <1>5, <1>6, <1>7, <1>8 DEF r

(* The evidence of what is published stays. *)
LEMMA MoveEvidenceInv ==
  ASSUME DataInv, SharedInv, SequentialInv, sequential, NEW a \in Adapters, Move(a),
         NEW r \in Rounds
  PROVE  EvidenceInv(r)'
  <1>1. AdapterInv(a) /\ OwnRound(a) /\ EvidenceInv(r) /\ Round(a) \in Rounds
    BY DEF SharedInv, SequentialInv, DataInv, TypeOK, Round, Rounds
  <1>2. CASE (feedback')[r] = feedback[r] /\ (private')[r] = private[r]
    BY <1>1, <1>2 DEF EvidenceInv, RequestFile, StateFile, Completion
  <1>3. CASE (feedback')[r] = Absent
    BY <1>3 DEF EvidenceInv, Absent
  <1>4. CASE feedback' = feedback
    <2>1. CASE (private')[r] = private[r]
      BY <1>2, <1>4, <2>1
    <2>2. CASE (private')[r] # private[r]
      <3>1. r = Round(a) /\ pc[a] \in {"write_request", "write_state", "chain"}
        BY <1>1, <2>2, PrivateMove, PrivateKept
      <3>2. (feedback')[r] = Absent
        BY <1>1, <1>4, <3>1 DEF OwnRound, Idle
      <3>3. QED
        BY <1>3, <3>2
    <2>3. QED
      BY <2>1, <2>2
  <1>5. ASSUME NEW q \in Requests, Start(a), feedback' = [feedback EXCEPT ![q.round] = Absent]
        PROVE  EvidenceInv(r)'
    <2>1. private' = private
      BY <1>5 DEF Start
    <2>2. (feedback')[r] = IF r = q.round THEN Absent ELSE feedback[r]
      BY <1>5 DEF DataInv
    <2>3. QED
      BY <1>2, <1>3, <2>1, <2>2
  <1>6. CASE Publish(a) /\ feedback' = [feedback EXCEPT ![Round(a)] = Feedback(a)]
    <2>1. private' = private
      BY <1>6 DEF Publish
    <2>2. (feedback')[r] = IF r = Round(a) THEN Feedback(a) ELSE feedback[r]
      BY <1>6 DEF DataInv
    <2>3. CASE r = Round(a)
      <3>1. (feedback')[r] = Feedback(a) /\ (private')[r] = private[Round(a)]
        BY <2>1, <2>2, <2>3
      <3> HIDE DEF Feedback
      <3>2. QED
        BY <1>6, <3>1, PublishedEvidence DEF EvidenceInv, RequestFile, StateFile, Completion
    <2>4. QED
      BY <1>2, <2>1, <2>2, <2>3
  <1>7. QED
    BY <1>1, <1>4, <1>5, <1>6, FeedbackStep

(* The invariant, for any move of one adapter.                             *)
LEMMA MoveIInv ==
  ASSUME IInv, NEW a \in Adapters, Move(a), sequential' = sequential
  PROVE  IInv'
  <1>1. /\ DataInv /\ SharedInv /\ SequentialInv
        /\ \A b \in Adapters : AdapterInv(b)
    BY DEF IInv, SharedInv
  <1>2. DataInv'
    BY <1>1, MoveDataInv
  <1>3. \A b \in Adapters : AdapterInv(b)'
    BY <1>1, OwnMoveInv, OtherMoveInv
  <1>4. \A r \in Rounds : FeedbackInv(r)'
    BY <1>1, MoveFeedbackInv
  <1>5. SharedInv'
    BY <1>3, <1>4 DEF SharedInv, Rounds
  <1>6. SequentialInv'
    <2>1. SUFFICES ASSUME sequential
                   PROVE  /\ Alone' /\ ChainAtMostOnce' /\ \A b \in Adapters : OwnRound(b)'
                          /\ \A r \in Rounds : EvidenceInv(r)'
      BY DEF SequentialInv, Rounds
    <2>2. Alone
      BY <1>1, <2>1 DEF SequentialInv
    <2>3. Alone' /\ ChainAtMostOnce'
      BY <1>1, <2>1, <2>2, MoveAlone, MoveChainAtMostOnce
    <2>4. \A b \in Adapters : OwnRound(b)'
      BY <1>1, <2>1, <2>2, MoveOwnRound, MoveOtherRounds
    <2>5. \A r \in Rounds : EvidenceInv(r)'
      BY <1>1, <2>1, MoveEvidenceInv
    <2>6. QED
      BY <2>3, <2>4, <2>5
  <1>7. QED
    BY <1>2, <1>5, <1>6 DEF IInv
-----------------------------------------------------------------------------
(* The GPUs may change at any time: a running chain sees it.               *)
LEMMA GpuIInv ==
  ASSUME IInv, GpuChanges, sequential' = sequential
  PROVE  IInv'
  <1>1. /\ DataInv /\ TypeOK /\ SharedInv /\ SequentialInv
        /\ \A a \in Adapters : AdapterInv(a)
        /\ \A r \in Rounds : FeedbackInv(r)
    BY DEF IInv, SharedInv, DataInv
  <1>2. /\ gpu' \in GpuStates /\ gpu # "drifted"
        /\ pc' = pc /\ exit' = exit /\ request' = request /\ step' = step
        /\ evidence' = evidence /\ private' = private /\ feedback' = feedback
    BY DEF GpuChanges
  <1>3. \A a \in Adapters :
           (seen')[a] = seen[a] \/ (pc[a] = "chain" /\ (seen')[a] = seen[a] \cup {gpu'})
    BY DEF GpuChanges
  <1>4. DataInv'
    <2>1. seen' \in [Adapters -> SUBSET GpuStates]
      <3>1. DOMAIN seen' = Adapters /\ seen' = [a \in Adapters |-> (seen')[a]]
        BY DEF GpuChanges
      <3>2. \A a \in Adapters : (seen')[a] \in SUBSET GpuStates
        BY <1>1, <1>2, <1>3 DEF TypeOK
      <3>3. QED
        BY <3>1, <3>2
    <2>2. TypeOK'
      BY <1>1, <1>2, <2>1, ListFacts DEF TypeOK
    <2>3. QED
      BY <1>1, <1>2, <2>2 DEF DataInv
  <1>5. \A a \in Adapters : AdapterInv(a)'
    <2>1. SUFFICES ASSUME NEW a \in Adapters PROVE AdapterInv(a)'
      OBVIOUS
    <2>2. Round(a)' = Round(a)
      BY <1>2 DEF Round
    <2>3. Translatable(evidence[a], request[a])' <=> Translatable(evidence[a], request[a])
      BY <1>2, ListFacts DEF Translatable, Settled, Completion
    <2>4. AdapterInv(a)
      BY <1>1
    <2>5. QED
      BY <1>2, <1>3, <2>2, <2>3, <2>4 DEF AdapterInv, Executed, Before, Reading
  <1>6. \A r \in Rounds : FeedbackInv(r)'
    <2>1. SUFFICES ASSUME NEW r \in Rounds, feedback[r] # Absent PROVE FeedbackInv(r)'
      BY <1>2 DEF FeedbackInv
    <2>2. FeedbackInv(r) /\ feedback[r].writer \in Adapters
      BY <1>1, <2>1 DEF DataInv, FeedbackType
    <2>3. (seen')[feedback[r].writer] = seen[feedback[r].writer]
      BY <1>3, <2>1, <2>2 DEF FeedbackInv
    <2>4. QED
      BY <1>2, <2>2, <2>3 DEF FeedbackInv
  <1>7. SequentialInv'
    <2>1. SUFFICES ASSUME sequential
                   PROVE  /\ Alone' /\ ChainAtMostOnce' /\ \A b \in Adapters : OwnRound(b)'
                          /\ \A r \in Rounds : EvidenceInv(r)'
      BY DEF SequentialInv, Rounds
    <2>2. /\ Alone /\ ChainAtMostOnce /\ \A b \in Adapters : OwnRound(b)
          /\ \A r \in Rounds : EvidenceInv(r)
      BY <1>1, <2>1 DEF SequentialInv
    <2>3. \A a \in Adapters : Executed(a)' => Executed(a) \/ pc[a] = "chain"
      BY <1>3 DEF Executed
    <2>4. \A a, b \in Adapters : pc[a] = "chain" /\ Executed(b) /\ a # b =>
             request[b].round # request[a].round
      BY <2>2 DEF OwnRound, Working, Round
    <2>5. \A a, b \in Adapters : pc[a] = "chain" /\ pc[b] = "chain" => a = b
      BY <2>2 DEF Alone, Idle
    <2>6. ChainAtMostOnce'
      <3>1. \A x, y \in Adapters :
               Executed(x) /\ Executed(y) /\ request[x].round = request[y].round => x = y
        BY <2>1, <2>2 DEF ChainAtMostOnce
      <3>2. \A x, y \in Adapters :
               Executed(x)' /\ Executed(y)' /\ request[x].round = request[y].round => x = y
        BY <2>3, <2>4, <2>5, <3>1
      <3>3. QED
        BY <1>2, <3>2 DEF ChainAtMostOnce
    <2>7. Alone' /\ \A r \in Rounds : EvidenceInv(r)'
      BY <1>2, <2>2 DEF Alone, Idle, EvidenceInv, RequestFile, StateFile, Completion
    <2>8. ASSUME NEW b \in Adapters PROVE OwnRound(b)'
      <3>1. OwnRound(b)
        BY <2>2
      <3>2. \A x \in Adapters : Round(x)' = Round(x)
        BY <1>2 DEF Round
      <3>3. Read(b)' = Read(b)
        BY <1>2, ListFacts DEF Read, Reading
      <3>4. pc[b] \in Working \cup {"write_request"} => \A x \in Adapters :
               x # b /\ Executed(x)' => Round(x) # Round(b)
        <4>1. pc[b] \in Working \cup {"write_request"} => ~Idle(b)
          BY DEF Working, Reading, Idle
        <4>2. \A x \in Adapters : pc[x] = "chain" => ~Idle(x)
          BY DEF Idle
        <4>3. QED
          BY <2>2, <2>3, <3>1, <4>1, <4>2 DEF Alone, OwnRound
      <3>5. RequestFile(request[b])' = RequestFile(request[b])
        BY <1>2 DEF RequestFile
      <3>6. Idle(b)' <=> Idle(b)
        BY <1>2 DEF Idle
      <3>7. QED
        BY <1>2, <3>1, <3>2, <3>3, <3>4, <3>5, <3>6 DEF OwnRound
    <2>9. QED
      BY <2>6, <2>7, <2>8
  <1>8. SharedInv'
    BY <1>5, <1>6 DEF SharedInv, Rounds
  <1>9. QED
    BY <1>4, <1>7, <1>8 DEF IInv

(* A stutter, with everything the invariant reads.                         *)
LEMMA StutterIInv ==
  ASSUME IInv, UNCHANGED vars
  PROVE  IInv'
  <1>1. /\ sequential' = sequential /\ pc' = pc /\ exit' = exit /\ request' = request
        /\ step' = step /\ evidence' = evidence /\ gpu' = gpu /\ private' = private
        /\ feedback' = feedback /\ seen' = seen
    BY DEF vars
  <1>2. \A a \in Adapters : Read(a)' = Read(a)
    BY <1>1, ListFacts DEF Read
  <1>3. \A a \in Adapters :
           Translatable(evidence[a], request[a])' <=> Translatable(evidence[a], request[a])
    BY <1>1, ListFacts DEF Translatable, Settled, Completion
  <1>4. DataInv'
    BY <1>1, ListFacts DEF IInv, DataInv, TypeOK
  <1>5. SharedInv'
    BY <1>1, <1>3 DEF IInv, SharedInv, AdapterInv, FeedbackInv, Executed, Round
  <1>6. \A a \in Adapters : OwnRound(a)' <=> OwnRound(a)
    BY <1>1, <1>2 DEF OwnRound, Idle, Executed, Round, RequestFile
  <1>7. \A r \in Rounds : EvidenceInv(r)' <=> EvidenceInv(r)
    BY <1>1 DEF EvidenceInv, RequestFile, StateFile, Completion
  <1>8. (Alone' <=> Alone) /\ (ChainAtMostOnce' <=> ChainAtMostOnce)
    BY <1>1 DEF Alone, ChainAtMostOnce, Executed, Idle
  <1>9. SequentialInv'
    BY <1>1, <1>6, <1>7, <1>8 DEF IInv, SequentialInv, Rounds
  <1>10. QED
    BY <1>4, <1>5, <1>9 DEF IInv

(* At the start no adapter has run.                                        *)
LEMMA InitIInv == Init => IInv
  <1> SUFFICES ASSUME Init PROVE IInv
    OBVIOUS
  <1>1. (CHOOSE q \in Requests : TRUE) \in Requests
    BY RequestAssumption
  <1>2. request \in [Adapters -> Requests]
    BY <1>1 DEF Init
  <1>3. /\ \A a \in Adapters : /\ pc[a] = "new" /\ exit[a] = "none" /\ step[a] = 0
                               /\ evidence[a] = Nothing /\ seen[a] = {}
        /\ \A r \in Rounds : private[r] = Nothing /\ feedback[r] = Absent
    BY DEF Init
  <1>4. Nothing \in FilesType /\ \A f \in Files : Nothing[f] = Absent
    BY AbsentIsContent DEF Nothing, FilesType, AnyContent
  <1>5. DataInv
    <2>1. /\ pc \in [Adapters -> Labels] /\ exit \in [Adapters -> Categories]
          /\ step \in [Adapters -> 0 .. Len(Chain)] /\ seen \in [Adapters -> SUBSET GpuStates]
      BY ListFacts DEF Init, Labels, Categories
    <2>2. /\ private \in [Rounds -> FilesType] /\ evidence \in [Adapters -> FilesType]
          /\ feedback \in [Rounds -> {Absent} \cup FeedbackType]
      BY <1>4 DEF Init
    <2>3. sequential \in BOOLEAN /\ gpu \in GpuStates
      BY DEF Init
    <2>4. \A f \in Files : Absent \in ContentType[f] /\ Absent # Unreadable
      BY AbsentIsContent DEF Absent, Unreadable
    <2>5. TypeOK
      BY <1>2, <1>3, <1>4, <2>1, <2>2, <2>3, <2>4 DEF TypeOK
    <2>6. QED
      BY <1>3, <2>2, <2>5 DEF DataInv
  <1>6. SharedInv
    BY <1>3 DEF SharedInv, AdapterInv, FeedbackInv, Executed, Reading
  <1>7. SequentialInv
    BY <1>3 DEF SequentialInv, Alone, Idle, ChainAtMostOnce, OwnRound, Read, Executed,
                Working, Reading, EvidenceInv, Absent
  <1>8. QED
    BY <1>5, <1>6, <1>7 DEF IInv

(* All of it holds of every reachable state, for any adapters, requests    *)
(* and GPU states.                                                         *)
THEOREM Invariance == Spec => []IInv
  <1>1. IInv /\ [Next]_vars => IInv'
    <2>1. SUFFICES ASSUME IInv, [Next]_vars PROVE IInv'
      OBVIOUS
    <2>2. CASE UNCHANGED vars
      BY <2>1, <2>2, StutterIInv
    <2>3. CASE Next
      <3>1. CASE GpuChanges
        BY <2>1, <2>3, <3>1, GpuIInv DEF Next
      <3>2. CASE \E a \in Adapters : Move(a)
        BY <2>1, <2>3, <3>2, MoveIInv DEF Next
      <3>3. QED
        BY <2>3, <3>1, <3>2 DEF Next, Move
    <2>4. QED
      BY <2>1, <2>2, <2>3
  <1>2. QED
    BY <1>1, InitIInv, PTL DEF Spec

(* Every variable keeps its type, whichever adapters overlap.              *)
THEOREM TypeCorrect == Spec => []TypeOK
  <1>1. IInv => TypeOK
    BY DEF IInv, DataInv
  <1>2. QED
    BY <1>1, Invariance, PTL

(* check_private_round_fresh and the sequential controller together: in a  *)
(* history whose adapters never overlap, the chain of a private round is   *)
(* run by one adapter at most, whatever crashed or was started again.      *)
THEOREM ChainRunsOnce == Spec => []ChainAtMostOnce
  <1>1. IInv => ChainAtMostOnce
    BY DEF IInv, SequentialInv, ChainAtMostOnce
  <1>2. QED
    BY <1>1, Invariance, PTL

(* What run_history_measurement_batch publishes answers the request it     *)
(* names, of its own round, even when adapters overlap; when they take     *)
(* turns, it was measured by the adapter that publishes it, its evidence   *)
(* is on disk, and no card was replaced while it was measured.             *)
THEOREM PublishedSoundly == Spec => []PublishedIsSound
  <1>1. IInv => PublishedIsSound
    <2>1. SUFFICES ASSUME IInv PROVE PublishedIsSound
      OBVIOUS
    <2>2. \A r \in Rounds : FeedbackInv(r) /\ (feedback[r].kind = "feedback" => feedback[r] # Absent)
      BY <2>1 DEF IInv, SharedInv, Absent
    <2>3. AnswersOwnRequest
      BY <2>2 DEF AnswersOwnRequest, FeedbackInv
    <2>4. FeedbackHasEvidence
      BY <2>1 DEF IInv, SequentialInv, FeedbackHasEvidence, EvidenceInv
    <2>5. DriftIsNeverPublished
      <3>1. \A r \in Rounds : feedback[r].kind = "feedback" => "drifted" \notin seen[feedback[r].writer]
        BY <2>2 DEF FeedbackInv
      <3>2. QED
        BY <2>4, <3>1 DEF DriftIsNeverPublished, FeedbackHasEvidence
    <2>6. QED
      BY <2>3, <2>4, <2>5 DEF PublishedIsSound
  <1>2. QED
    BY <1>1, Invariance, PTL
===============================================================================
