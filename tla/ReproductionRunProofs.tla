------------------------- MODULE ReproductionRunProofs -------------------------
(***************************************************************************)
(* Proofs about the reproduction driver: for any runs, versions and edits, *)
(* the types; and, for runs that never overlap, that completion is only    *)
(* reported of a whole root, and that no run changes what is not its own.  *)
(*                                                                         *)
(* The inductive invariant is about the disk (what is missing or foreign   *)
(* was left by the caller, a completed manifest is whole), about the one   *)
(* run at work (the root it has claimed holds nothing but its own output,  *)
(* the stages before its own are done, those after it untouched) and about *)
(* its end (what it is about to publish is what is on disk).               *)
(***************************************************************************)
EXTENDS ReproductionRun, TLAPS

ManifestType ==
    [status : {"completed", "unavailable"}, mode : Modes,
     outputs : UNION {[D -> Content] : D \in SUBSET Names}, temps : SUBSET Runs]
DataInv ==
    /\ TypeOK
    /\ manifest \in {NoManifest} \cup ManifestType
    /\ draft \in [Runs -> {NoManifest} \cup ManifestType]
    /\ \A r \in Runs : pc[r] = "publish" => draft[r] # NoManifest

InStage == {"enter", "mark", "check", "temp", "replace", "open", "finish"}
Claimed == {"begin", "completed", "unavailable", "publish"} \cup InStage

(* What is in a root that is not there, and whose work is missing or       *)
(* foreign.                                                                *)
RootInv ==
    root = "absent" => /\ \A s \in Names : file[s] = "absent"
                       /\ temps = {} /\ manifest = NoManifest
AuthorInv ==
    /\ \A s \in Names : file[s] \in {"absent", "foreign"} => author[s] \in {"none", "user"}
    /\ manifest = NoManifest => author["manifest"] \in {"none", "user"}
Whole(m) ==
    /\ m.mode = "smoke" /\ m.temps = {}
    /\ \E v \in Versions : m.outputs = [s \in Names |-> v]
ManifestInv == manifest.status = "completed" => Whole(manifest)
DiskInv == RootInv /\ AuthorInv /\ ManifestInv

OneAtWork == \A q, r \in Runs : ~Over(q) /\ ~Over(r) => q = r
(* A run that has claimed the root finds nothing in it that is not its own.*)
OwnRoot(r) ==
    pc[r] \in Claimed =>
        /\ root = "present" /\ manifest = NoManifest
        /\ \A s \in Names : file[s] # "foreign" /\ author[s] \in {"none", "user", r}
(* The stages before the one it is in are done, those after it untouched.  *)
StageInv(r) ==
    pc[r] \in InStage =>
        /\ mode[r] = "smoke" /\ temps = IF pc[r] = "replace" THEN {r} ELSE {}
        /\ \A i \in 1..6 : /\ i < at[r] => file[Stages[i]] = version[r]
                           /\ i > at[r] => file[Stages[i]] = "absent"
        /\ pc[r] = "enter" => file[Stages[at[r]]] = "absent"
        /\ pc[r] = "mark" => at[r] = 1
        /\ pc[r] \in {"temp", "replace"} => at[r] = 2
        /\ pc[r] \in {"check", "temp", "replace"} => file[Stages[at[r]]] = "dir"
        /\ pc[r] = "open" => file[Stages[at[r]]] \in {"absent", "dir", "marked"}
EndInv(r) ==
    /\ pc[r] \in {"new", "mkdir", "list", "begin"} => at[r] = 1
    /\ pc[r] = "list" => root = "present"
    /\ pc[r] = "begin" => temps = {} /\ \A s \in Names : file[s] = "absent"
    /\ pc[r] = "completed" =>
          mode[r] = "smoke" /\ temps = {} /\ \A s \in Names : file[s] = version[r]
    /\ pc[r] = "publish" /\ draft[r].status = "completed" =>
          mode[r] = "smoke" /\ Whole(draft[r]) /\ draft[r].outputs = file /\ temps = {r}
RunInv(r) == OwnRoot(r) /\ StageInv(r) /\ EndInv(r)
IInv == DataInv /\ DiskInv /\ OneAtWork /\ \A r \in Runs : RunInv(r)

-------------------------------------------------------------------------------
Move(r) == Step(r) \/ Crash(r)
Labels == {"new", "mkdir", "list", "begin", "enter", "mark", "check", "temp",
           "replace", "open", "finish", "completed", "unavailable", "publish", "over"}
Exits == {"none", "completed", "unavailable", "died"}

(* The six stages in their order.                                          *)
LEMMA StageFacts ==
    /\ Len(Stages) = 6 /\ Len(Stages)' = 6 /\ Stages' = Stages
    /\ Names = {"stage2_demo", "demo_contract", "stage4", "stage5", "stage6", "stage7"}
    /\ Names' = Names
    /\ Stages[1] = "stage2_demo" /\ Stages[2] = "demo_contract" /\ Stages[3] = "stage4"
    /\ Stages[4] = "stage5" /\ Stages[5] = "stage6" /\ Stages[6] = "stage7"
  <1>1. Stages = <<"stage2_demo", "demo_contract", "stage4", "stage5", "stage6", "stage7">>
    BY DEF Stages
  <1>2. Len(Stages) = 6 /\ Len(Stages)' = 6
    BY DEF Stages
  <1>3. Stages' = Stages
    BY DEF Stages
  <1>4. Names = {Stages[1], Stages[2], Stages[3], Stages[4], Stages[5], Stages[6]}
    <2>1. \A i : i \in 1 .. Len(Stages) <=> i \in {1, 2, 3, 4, 5, 6}
      BY <1>2
    <2>2. QED
      BY <2>1 DEF Names
  <1>5. Names' = Names
    BY <1>2, <1>3 DEF Names
  <1>6. QED
    BY <1>1, <1>2, <1>3, <1>4, <1>5

(* Every stage has its place. *)
LEMMA StageIndex ==
    /\ \A s \in Names : \E i \in 1 .. 6 : s = Stages[i]
    /\ \A i \in 1 .. 6 : Stages[i] \in Names
    /\ \A i, j \in 1 .. 6 : Stages[i] = Stages[j] => i = j
    /\ \A i \in 1 .. 6 : Stages[i] = "stage2_demo" => i = 1
    /\ \A i \in 1 .. 6 : Stages[i] = "demo_contract" => i = 2
  <1>1. \A i : i \in 1 .. 6 <=> i \in {1, 2, 3, 4, 5, 6}
    OBVIOUS
  <1>2. QED
    BY <1>1, StageFacts

(* Versions are no marks of what is missing, begun or somebody else's. *)
LEMMA VersionFacts ==
    /\ \A v \in Versions : v \notin {"absent", "dir", "marked", "torn", "foreign"} /\ v \in Content
    /\ {"absent", "dir", "marked", "torn", "foreign"} \subseteq Content
  BY RunAssumption DEF Content

(* The outputs on disk are a function from stage names to contents.        *)
LEMMA OutputsType ==
  ASSUME DataInv
  PROVE  \E D \in SUBSET Names : Outputs \in [D -> Content]
  <1> DEFINE D == {s \in Names : file[s] \notin {"absent", "dir"}}
  <1>1. D \in SUBSET Names /\ Outputs = [s \in D |-> file[s]]
    BY DEF Outputs
  <1>2. \A s \in D : file[s] \in Content
    BY DEF DataInv, TypeOK
  <1> HIDE DEF D
  <1>3. QED
    BY <1>1, <1>2

(* A move of one run, variable by variable. *)
LEMMA MoveCases ==
  ASSUME DataInv, NEW r \in Runs, Move(r)
  PROVE  /\ \E l \in Labels : pc' = [pc EXCEPT ![r] = l]
         /\ \E k \in 1 .. 6 : at' = [at EXCEPT ![r] = k]
         /\ mode' = mode /\ version' = version /\ edits' = edits
         /\ writable' = writable \/ writable' = [writable EXCEPT ![r] = TRUE]
         /\ exit' = exit \/ \E c \in Exits : exit' = [exit EXCEPT ![r] = c]
         /\ \/ draft' = draft /\ (pc')[r] # "publish"
            \/ /\ (pc')[r] = "publish"
               /\ \E m \in ManifestType : draft' = [draft EXCEPT ![r] = m]
  <1>1. /\ at[r] \in 1 .. 6 /\ at = [at EXCEPT ![r] = at[r]] /\ pc \in [Runs -> Labels]
        /\ at[r] < 6 => at[r] + 1 \in 1 .. 6
    BY StageFacts DEF DataInv, TypeOK, Labels
  <1> USE DEF Labels, Exits, Goto, Exit, Fail
  <1>2. CASE LookUp(r) \/ MakeRoot(r) \/ Begin(r) \/ Enter(r) \/ Mark(r) \/ MakeTemp(r) \/ Crash(r)
    BY <1>1, <1>2 DEF LookUp, MakeRoot, Begin, Enter, Mark, MakeTemp, Crash, run
  <1>3. CASE List(r)
    <2>1. manifest # NoManifest => manifest.status \in {"completed", "unavailable"}
      BY DEF DataInv, ManifestType
    <2>2. QED
      BY <1>1, <1>3, <2>1 DEF List
  <1>4. CASE Check(r) \/ ReplaceContract(r) \/ Open(r) \/ Finish(r)
    BY <1>1, <1>4, StageFacts DEF Check, ReplaceContract, Open, Finish, NextStage
  <1>5. CASE Conclude(r)
    <2> DEFINE m == [status |-> pc[r], mode |-> mode[r], outputs |-> Outputs, temps |-> temps]
    <2>1. m \in ManifestType
      BY <1>5, OutputsType DEF Conclude, ManifestType, DataInv, TypeOK
    <2>2. draft' = [draft EXCEPT ![r] = m] /\ pc' = [pc EXCEPT ![r] = "publish"]
          /\ UNCHANGED <<at, mode, version, writable, exit, edits>>
      BY <1>5 DEF Conclude
    <2> HIDE DEF m, Labels, Exits
    <2>3. (pc')[r] = "publish" /\ "publish" \in Labels
      BY <1>1, <2>2 DEF Labels
    <2>4. QED
      BY <1>1, <2>1, <2>2, <2>3
  <1>6. CASE Publish(r)
    <2>1. draft[r] \in ManifestType
      BY <1>6 DEF Publish, DataInv
    <2>2. draft[r].status \in {"completed", "unavailable"}
      BY <2>1 DEF ManifestType
    <2>3. QED
      BY <1>1, <1>6, <2>2 DEF Publish
  <1>7. QED
    BY <1>2, <1>3, <1>4, <1>5, <1>6 DEF Move, Step
(* A move of one run on the disk.                                          *)
LEMMA DiskStep ==
  ASSUME DataInv, NEW r \in Runs, Move(r)
  PROVE  /\ \/ root' = root
            \/ pc[r] = "mkdir" /\ root' = "present"
         /\ \/ file' = file /\ \A s \in Names : (author')[s] = author[s]
            \/ /\ pc[r] \in InStage
               /\ \E s \in Names, c \in Versions \cup {"dir", "marked", "torn"} : Put(s, c, r)
         /\ \/ manifest' = manifest /\ (author')["manifest"] = author["manifest"]
            \/ /\ pc[r] = "publish" /\ (pc')[r] = "over" /\ manifest' = draft[r]
               /\ author' = [author EXCEPT !["manifest"] = r]
         /\ temps' \in {temps, temps \cup {r}, temps \ {r}}
         /\ temps' # temps => pc[r] \in Claimed
  <1>1. /\ author \in [Names \cup {"manifest"} -> Runs \cup {"none", "user"}]
        /\ "manifest" \notin Names /\ at[r] \in 1 .. 6 /\ version[r] \in Versions
        /\ Stage(r) \in Names /\ {"stage2_demo", "demo_contract"} \subseteq Names
    BY StageFacts, StageIndex DEF DataInv, TypeOK, Stage
  <1>2. \A s \in Names : \A c : Put(s, c, r) => (author')["manifest"] = author["manifest"]
    BY <1>1 DEF Put
  <1> USE DEF Claimed, InStage
  <1>3. CASE LookUp(r) \/ List(r) \/ Begin(r) \/ Check(r) \/ Crash(r)
    BY <1>3 DEF LookUp, List, Begin, Check, Crash, disk
  <1>4. CASE MakeRoot(r) \/ MakeTemp(r) \/ Conclude(r)
    BY <1>4 DEF MakeRoot, MakeTemp, Conclude
  <1>5. CASE Enter(r)
    <2>1. UNCHANGED disk \/ (Put(Stage(r), "dir", r) /\ UNCHANGED <<root, temps, manifest>>)
      BY <1>5 DEF Enter
    <2>2. QED
      BY <1>1, <1>2, <1>5, <2>1 DEF Enter, disk
  <1>6. CASE Mark(r) \/ ReplaceContract(r)
    BY <1>1, <1>2, <1>6 DEF Mark, ReplaceContract
  <1>7. CASE Open(r)
    <2>1. UNCHANGED disk \/ (Put(Stage(r), "torn", r) /\ UNCHANGED <<root, temps, manifest>>)
      BY <1>7 DEF Open
    <2>2. QED
      BY <1>1, <1>2, <1>7, <2>1 DEF Open, disk
  <1>8. CASE Finish(r)
    <2>1. UNCHANGED disk \/ (Put(Stage(r), version[r], r) /\ UNCHANGED <<root, temps, manifest>>)
      BY <1>8 DEF Finish
    <2>2. QED
      BY <1>1, <1>2, <1>8, <2>1 DEF Finish, disk
  <1>9. CASE Publish(r)
    <2>1. temps' = temps \ {r} /\ pc[r] = "publish" /\ root' = root /\ file' = file
      BY <1>9 DEF Publish
    <2>2. \/ /\ manifest' = draft[r] /\ author' = [author EXCEPT !["manifest"] = r]
             /\ (pc')[r] = "over"
          \/ UNCHANGED <<manifest, author>>
      BY <1>9 DEF Publish, Exit, Goto, DataInv, TypeOK
    <2>3. QED
      BY <1>1, <2>1, <2>2
  <1>10. QED
    BY <1>3, <1>4, <1>5, <1>6, <1>7, <1>8, <1>9 DEF Move, Step

(* The moves of one run leave the others alone. *)
LEMMA MoveOfOne ==
  ASSUME DataInv, NEW r \in Runs, Move(r), NEW q \in Runs, q # r
  PROVE  /\ (pc')[q] = pc[q] /\ (at')[q] = at[q] /\ (draft')[q] = draft[q]
         /\ (exit')[q] = exit[q]
  <1>0. /\ DOMAIN pc = Runs /\ DOMAIN at = Runs /\ DOMAIN exit = Runs /\ DOMAIN draft = Runs
    BY DEF DataInv, TypeOK
  <1>1. (pc')[q] = pc[q] /\ (at')[q] = at[q]
    BY <1>0, MoveCases
  <1>2. (draft')[q] = draft[q]
    BY <1>0, MoveCases
  <1>3. (exit')[q] = exit[q]
    BY <1>0, MoveCases
  <1>4. QED
    BY <1>1, <1>2, <1>3

(* Types, from the parts a step can disturb. *)
LEMMA MoveTypes ==
  ASSUME DataInv, NEW r \in Runs, Move(r)
  PROVE  DataInv'
  <1>0. TypeOK /\ Len(Stages)' = 6 /\ Len(Stages) = 6 /\ Names' = Names
    BY StageFacts DEF DataInv
  <1>1. pc' \in [Runs -> Labels] /\ at' \in [Runs -> 1 .. 6]
    BY <1>0, MoveCases DEF TypeOK, Labels
  <1>2. writable' \in [Runs -> BOOLEAN]
    BY <1>0, MoveCases DEF TypeOK
  <1>3. exit' \in [Runs -> Exits]
    <2>1. exit \in [Runs -> Exits]
      BY <1>0 DEF TypeOK, Exits
    <2>2. exit' = exit \/ \E c \in Exits : exit' = [exit EXCEPT ![r] = c]
      BY MoveCases
    <2>3. QED
      BY <2>1, <2>2
  <1>4. /\ draft' \in [Runs -> {NoManifest} \cup ManifestType]
        /\ \A q \in Runs : (pc')[q] = "publish" => (draft')[q] # NoManifest
    <2>1. draft \in [Runs -> {NoManifest} \cup ManifestType]
      BY DEF DataInv
    <2>2. \/ draft' = draft /\ (pc')[r] # "publish"
          \/ \E m \in ManifestType : draft' = [draft EXCEPT ![r] = m]
      BY MoveCases
    <2>3. draft' \in [Runs -> {NoManifest} \cup ManifestType]
      BY <2>1, <2>2
    <2>4. (pc')[r] = "publish" => (draft')[r] # NoManifest
      BY <2>1, <2>2 DEF ManifestType, NoManifest
    <2>5. \A q \in Runs : q # r /\ (pc')[q] = "publish" => (draft')[q] # NoManifest
      BY MoveOfOne DEF DataInv
    <2>6. QED
      BY <2>3, <2>4, <2>5
  <1>5. manifest' \in {NoManifest} \cup ManifestType
    <2>1. draft[r] \in {NoManifest} \cup ManifestType /\ manifest \in {NoManifest} \cup ManifestType
      BY DEF DataInv
    <2>2. manifest' = manifest \/ manifest' = draft[r]
      BY DiskStep
    <2>3. QED
      BY <2>1, <2>2
  <1>6. root' \in {"absent", "present"} /\ temps' \subseteq Runs
    BY <1>0, DiskStep DEF TypeOK
  <1>7. file' \in [Names -> Content]
    <2>1. file \in [Names -> Content]
      BY <1>0 DEF TypeOK
    <2>2. file' = file \/ \E s \in Names, c \in Content : file' = [file EXCEPT ![s] = c]
      BY DiskStep, VersionFacts DEF Put
    <2>3. QED
      BY <2>1, <2>2
  <1>8. author' \in [Names \cup {"manifest"} -> Runs \cup {"none", "user"}]
    <2>1. author \in [Names \cup {"manifest"} -> Runs \cup {"none", "user"}]
      BY <1>0 DEF TypeOK
    <2>2. author' = author \/ \E s \in Names \cup {"manifest"} : author' = [author EXCEPT ![s] = r]
      <3>1. /\ Stage(r) \in Names /\ {"stage2_demo", "demo_contract"} \subseteq Names
        BY <1>0, StageFacts, StageIndex DEF TypeOK, Stage
      <3>2. CASE Enter(r) \/ Open(r) \/ Finish(r)
        BY <3>1, <3>2 DEF Enter, Open, Finish, Put, disk
      <3>3. CASE Mark(r) \/ ReplaceContract(r) \/ Publish(r)
        BY <3>1, <3>3 DEF Mark, ReplaceContract, Publish, Put
      <3>4. CASE LookUp(r) \/ List(r) \/ Begin(r) \/ Check(r) \/ Crash(r)
        BY <3>4 DEF LookUp, List, Begin, Check, Crash, disk
      <3>5. CASE MakeRoot(r) \/ MakeTemp(r) \/ Conclude(r)
        BY <3>5 DEF MakeRoot, MakeTemp, Conclude
      <3>6. QED
        BY <3>2, <3>3, <3>4, <3>5 DEF Move, Step
    <2>3. QED
      BY <2>1, <2>2
  <1>9. mode' \in [Runs -> Modes] /\ version' \in [Runs -> Versions] /\ edits' \in 0 .. MaxEdits
    BY <1>0, MoveCases DEF TypeOK
  <1>10. \A m \in ManifestType :
            /\ m.status \in {"completed", "unavailable"} /\ m.mode \in Modes
            /\ DOMAIN m.outputs \subseteq Names /\ m.temps \subseteq Runs
    BY DEF ManifestType
  <1>11. TypeOK'
    BY <1>0, <1>1, <1>2, <1>3, <1>4, <1>5, <1>6, <1>7, <1>8, <1>9, <1>10
    DEF TypeOK, Labels, Exits
  <1>12. ManifestType' = ManifestType
    BY <1>0 DEF ManifestType
  <1>13. QED
    BY <1>4, <1>5, <1>11, <1>12 DEF DataInv
-------------------------------------------------------------------------------
(* One run at a time: a run looks up the root when all others are over.    *)
LEMMA OthersAreOver ==
  ASSUME Exclusive, OneAtWork, NEW r \in Runs, Move(r), NEW q \in Runs, q # r
  PROVE  Over(q)
  <1>1. CASE LookUp(r)
    BY <1>1 DEF LookUp
  <1>2. CASE ~LookUp(r)
    <2>1. ~Over(r)
      BY <1>2 DEF Move, Step, Crash, Over, MakeRoot, List, Begin, Enter, Mark, Check, MakeTemp,
                  ReplaceContract, Open, Finish, Conclude, Publish
    <2>2. QED
      BY <2>1 DEF OneAtWork
  <1>3. QED
    BY <1>1, <1>2

(* Runs that do not overlap stay so: a move finds every other run over.    *)
LEMMA MoveOneAtWork ==
  ASSUME Exclusive, DataInv, OneAtWork, NEW r \in Runs, Move(r)
  PROVE  OneAtWork' /\ \A q \in Runs : q # r => Over(q)'
  <1>1. \A q \in Runs : q # r => Over(q)'
    BY OthersAreOver, MoveOfOne DEF Over
  <1>2. QED
    BY <1>1 DEF OneAtWork

(* The runs that are over, or not begun, need nothing. *)
LEMMA MoveOthers ==
  ASSUME Exclusive, DataInv, OneAtWork, NEW r \in Runs, Move(r),
         NEW q \in Runs, q # r, RunInv(q)
  PROVE  RunInv(q)'
  <1>1. (pc')[q] \in {"new", "over"} /\ (pc')[q] = pc[q] /\ (at')[q] = at[q]
    BY MoveOneAtWork, MoveOfOne DEF Over
  <1>2. QED
    BY <1>1 DEF RunInv, OwnRoot, StageInv, EndInv, Claimed, InStage

(* What is on disk stays explained. *)
LEMMA MoveDiskInv ==
  ASSUME DataInv, DiskInv, NEW r \in Runs, RunInv(r), Move(r)
  PROVE  DiskInv'
  <1>1. RootInv /\ AuthorInv /\ ManifestInv /\ OwnRoot(r) /\ EndInv(r)
    BY DEF DiskInv, RunInv
  <1>2. RootInv'
    <2>1. SUFFICES ASSUME root' = "absent"
                   PROVE  /\ \A s \in Names : (file')[s] = "absent"
                          /\ temps' = {} /\ manifest' = NoManifest
      BY StageFacts DEF RootInv, NoManifest
    <2>2. root = "absent" /\ pc[r] \notin Claimed
      BY <1>1, <2>1, DiskStep DEF OwnRoot
    <2>3. file' = file /\ temps' = temps /\ manifest' = manifest
      BY <2>2, DiskStep DEF Claimed
    <2>4. QED
      BY <1>1, <2>2, <2>3 DEF RootInv
  <1>3. \A s \in Names : (file')[s] \in {"absent", "foreign"} => (author')[s] \in {"none", "user"}
    <2>1. CASE file' = file /\ \A s \in Names : (author')[s] = author[s]
      BY <1>1, <2>1 DEF AuthorInv
    <2>2. CASE \E s \in Names, c \in Versions \cup {"dir", "marked", "torn"} : Put(s, c, r)
      <3>1. PICK s \in Names, c \in Versions \cup {"dir", "marked", "torn"} : Put(s, c, r)
        BY <2>2
      <3>2. c \notin {"absent", "foreign"}
        BY VersionFacts
      <3>3. /\ (file')[s] = c
            /\ \A x \in Names : x # s => (file')[x] = file[x] /\ (author')[x] = author[x]
        BY <3>1 DEF Put, DataInv, TypeOK
      <3>4. QED
        BY <1>1, <3>2, <3>3 DEF AuthorInv
    <2>3. QED
      BY <2>1, <2>2, DiskStep
  <1>4. manifest' = NoManifest => (author')["manifest"] \in {"none", "user"}
    <2>1. pc[r] = "publish" => draft[r] # NoManifest
      BY DEF DataInv
    <2>2. QED
      BY <1>1, <2>1, DiskStep DEF AuthorInv
  <1>5. AuthorInv'
    BY <1>3, <1>4, StageFacts DEF AuthorInv, NoManifest
  <1>6. ManifestInv'
    <2>1. CASE manifest' = manifest
      BY <1>1, <2>1, StageFacts DEF ManifestInv, Whole
    <2>2. CASE pc[r] = "publish" /\ manifest' = draft[r]
      BY <1>1, <2>2, StageFacts DEF ManifestInv, EndInv, Whole
    <2>3. QED
      BY <2>1, <2>2, DiskStep
  <1>7. QED
    BY <1>2, <1>5, <1>6 DEF DiskInv

(* A run claims a root in which there is nothing ... *)
LEMMA MoveToClaim ==
  ASSUME DataInv, NEW r \in Runs, Move(r), (pc')[r] \in Claimed
  PROVE  \/ pc[r] \in Claimed
         \/ pc[r] = "mkdir" /\ (pc')[r] = "begin" /\ root = "absent" /\ root' = "present"
         \/ pc[r] = "list" /\ (pc')[r] = "begin" /\ manifest = NoManifest /\ ~Occupied
  <1>1. (pc')[r] # "over" /\ pc \in [Runs -> Labels]
    BY DEF Claimed, InStage, DataInv, TypeOK, Labels
  <1> USE DEF Claimed, InStage, Goto, Exit
  <1>2. CASE LookUp(r)
    BY <1>1, <1>2 DEF LookUp
  <1>3. CASE MakeRoot(r)
    BY <1>1, <1>3 DEF MakeRoot
  <1>4. CASE List(r)
    BY <1>1, <1>4 DEF List
  <1>5. CASE Begin(r) \/ Enter(r) \/ Mark(r) \/ Check(r) \/ MakeTemp(r)
             \/ ReplaceContract(r) \/ Open(r) \/ Finish(r) \/ Conclude(r) \/ Publish(r)
    BY <1>5 DEF Begin, Enter, Mark, Check, MakeTemp, ReplaceContract, Open, Finish,
                Conclude, Publish
  <1>6. CASE Crash(r)
    BY <1>1, <1>6 DEF Crash
  <1>7. QED
    BY <1>2, <1>3, <1>4, <1>5, <1>6 DEF Move, Step

(* ... and leaves nothing in it that is not its own.                       *)
LEMMA MoveOwnRoot ==
  ASSUME DataInv, DiskInv, NEW r \in Runs, RunInv(r), Move(r)
  PROVE  OwnRoot(r)'
  <1>1. RootInv /\ AuthorInv /\ OwnRoot(r) /\ EndInv(r)
    BY DEF DiskInv, RunInv
  <1>2. SUFFICES ASSUME (pc')[r] \in Claimed
                 PROVE  /\ root' = "present" /\ manifest' = NoManifest
                        /\ \A s \in Names : /\ (file')[s] # "foreign"
                                            /\ (author')[s] \in {"none", "user", r}
    BY StageFacts DEF OwnRoot, NoManifest, Claimed, InStage
  <1>3. CASE pc[r] \in Claimed
    <2>1. root' = "present" /\ manifest' = NoManifest
      BY <1>1, <1>2, <1>3, DiskStep DEF OwnRoot, Claimed, InStage
    <2>2. CASE file' = file /\ \A s \in Names : (author')[s] = author[s]
      BY <1>1, <1>3, <2>1, <2>2 DEF OwnRoot
    <2>3. CASE \E s \in Names, c \in Versions \cup {"dir", "marked", "torn"} : Put(s, c, r)
      <3>1. PICK s \in Names, c \in Versions \cup {"dir", "marked", "torn"} : Put(s, c, r)
        BY <2>3
      <3>2. c # "foreign"
        BY VersionFacts
      <3>3. /\ (file')[s] = c /\ (author')[s] = r
            /\ \A x \in Names : x # s => (file')[x] = file[x] /\ (author')[x] = author[x]
        BY <3>1 DEF Put, DataInv, TypeOK
      <3>4. QED
        BY <1>1, <1>3, <2>1, <3>2, <3>3 DEF OwnRoot
    <2>4. QED
      BY <2>2, <2>3, DiskStep
  <1>4. CASE pc[r] \in {"mkdir", "list"} /\ (pc')[r] = "begin"
    <2>1. /\ manifest = NoManifest /\ \A s \in Names : file[s] = "absent"
      BY <1>1, <1>2, <1>4, MoveToClaim DEF RootInv, Occupied, Claimed, InStage
    <2>2. root' = "present"
      BY <1>1, <1>2, <1>4, MoveToClaim, DiskStep DEF EndInv, Claimed, InStage
    <2>3. manifest' = manifest /\ file' = file /\ \A s \in Names : (author')[s] = author[s]
      BY <1>4, DiskStep DEF InStage
    <2>4. QED
      BY <1>1, <2>1, <2>2, <2>3 DEF AuthorInv
  <1>5. QED
    BY <1>2, <1>3, <1>4, MoveToClaim
-------------------------------------------------------------------------------
(* What is said of a run that is in a stage, after a step of its own.      *)
LEMMA StageInvNext ==
  ASSUME NEW r, NEW label \in InStage, NEW k, (pc')[r] = label, (at')[r] = k,
         (mode')[r] = "smoke", temps' = IF label = "replace" THEN {r} ELSE {},
         \A i \in 1..6 : /\ i < k => (file')[Stages[i]] = (version')[r]
                         /\ i > k => (file')[Stages[i]] = "absent",
         label = "enter" => (file')[Stages[k]] = "absent",
         label = "mark" => k = 1,
         label \in {"temp", "replace"} => k = 2,
         label \in {"check", "temp", "replace"} => (file')[Stages[k]] = "dir",
         label = "open" => (file')[Stages[k]] \in {"absent", "dir", "marked"}
  PROVE  StageInv(r)' /\ EndInv(r)'
  <1>1. StageInv(r)'
    BY StageFacts DEF StageInv
  <1>2. EndInv(r)'
    BY DEF EndInv, InStage
  <1>3. QED
    BY <1>1, <1>2

(* A failed run only has its manifest to write. *)
LEMMA FailedInv ==
  ASSUME NEW r, (pc')[r] \in {"unavailable", "over"}
  PROVE  StageInv(r)' /\ EndInv(r)'
  BY DEF StageInv, EndInv, InStage

(* What the run that is in a stage knows. *)
LEMMA InStageFacts ==
  ASSUME DataInv, NEW r \in Runs, StageInv(r), pc[r] \in InStage
  PROVE  /\ at[r] \in 1 .. 6 /\ Stage(r) = Stages[at[r]] /\ Stage(r) \in Names
         /\ version[r] \in Versions /\ file \in [Names -> Content] /\ r \in DOMAIN pc
         /\ r \in DOMAIN at /\ mode[r] = "smoke"
         /\ \A i \in 1 .. 6 : /\ i < at[r] => file[Stages[i]] = version[r]
                              /\ i > at[r] => file[Stages[i]] = "absent"
         /\ temps = IF pc[r] = "replace" THEN {r} ELSE {}
  <1>1. at[r] \in 1 .. 6 /\ Stage(r) = Stages[at[r]]
    BY StageFacts DEF DataInv, TypeOK, Stage
  <1>2. Stage(r) \in Names
    BY <1>1, StageIndex
  <1>3. QED
    BY <1>1, <1>2 DEF DataInv, TypeOK, StageInv

(* The output of the stage a run is in is replaced, no other. *)
LEMMA PutInStage ==
  ASSUME DataInv, NEW r \in Runs, StageInv(r), pc[r] \in InStage, NEW c, Put(Stage(r), c, r)
  PROVE  \A i \in 1 .. 6 : (file')[Stages[i]] = IF i = at[r] THEN c ELSE file[Stages[i]]
  <1>1. file' = [file EXCEPT ![Stages[at[r]]] = c] /\ at[r] \in 1 .. 6 /\ DOMAIN file = Names
    BY InStageFacts DEF Put
  <1>2. QED
    BY <1>1, StageIndex

(* A stage that has put its output there is done. *)
LEMMA StageDone ==
  ASSUME DataInv, NEW r \in Runs, StageInv(r), pc[r] \in InStage,
         NextStage(r), Put(Stage(r), version[r], r), temps' = {}, mode' = mode,
         version' = version
  PROVE  StageInv(r)' /\ EndInv(r)'
  <1>1. /\ at[r] \in 1 .. 6 /\ mode[r] = "smoke" /\ r \in DOMAIN pc /\ r \in DOMAIN at
        /\ \A i \in 1 .. 6 : /\ i < at[r] => file[Stages[i]] = version[r]
                             /\ i > at[r] => file[Stages[i]] = "absent"
    BY InStageFacts
  <1>2. \A i \in 1 .. 6 : (file')[Stages[i]] = IF i = at[r] THEN version[r] ELSE file[Stages[i]]
    BY PutInStage
  <1>3. CASE at[r] < 6
    <2>1. (pc')[r] = "enter" /\ (at')[r] = at[r] + 1 /\ at[r] + 1 \in 1 .. 6
      BY <1>1, <1>3, StageFacts DEF NextStage, Goto
    <2> DEFINE k == at[r] + 1
    <2>2. \A i \in 1..6 : /\ i < k => (file')[Stages[i]] = (version')[r]
                          /\ i > k => (file')[Stages[i]] = "absent"
      BY <1>1, <1>2
    <2>3. (file')[Stages[k]] = "absent"
      BY <1>1, <1>2, <1>3
    <2> HIDE DEF k
    <2>4. (at')[r] = k
      BY <2>1 DEF k
    <2>5. "enter" \in InStage
      BY DEF InStage
    <2>6. QED
      BY <1>1, <2>1, <2>2, <2>3, <2>4, <2>5, StageInvNext
  <1>4. CASE at[r] = 6
    <2>1. (pc')[r] = "completed"
      BY <1>1, <1>4, StageFacts DEF NextStage, Goto
    <2>2. \A i \in 1 .. 6 : (file')[Stages[i]] = version[r]
      BY <1>1, <1>2, <1>4
    <2>3. \A s \in Names : (file')[s] = version[r]
      BY <2>2, StageIndex
    <2>4. StageInv(r)'
      BY <2>1 DEF StageInv, InStage
    <2>5. EndInv(r)'
      BY <1>1, <2>1, <2>3, StageFacts DEF EndInv
    <2>6. QED
      BY <2>4, <2>5
  <1>5. QED
    BY <1>1, <1>3, <1>4
(* A run that stays in its stage, whose output is now c.                   *)
LEMMA SameStage ==
  ASSUME DataInv, NEW r \in Runs, StageInv(r), pc[r] \in InStage,
         NEW label \in InStage, (pc')[r] = label, UNCHANGED <<at, mode, version>>,
         temps' = IF label = "replace" THEN {r} ELSE {},
         NEW c, \/ UNCHANGED file /\ c = file[Stages[at[r]]]
                \/ Put(Stage(r), c, r),
         label = "enter" => c = "absent",
         label = "mark" => at[r] = 1,
         label \in {"temp", "replace"} => at[r] = 2,
         label \in {"check", "temp", "replace"} => c = "dir",
         label = "open" => c \in {"absent", "dir", "marked"}
  PROVE  StageInv(r)' /\ EndInv(r)'
  <1>1. /\ at[r] \in 1 .. 6 /\ mode[r] = "smoke"
        /\ \A i \in 1 .. 6 : /\ i < at[r] => file[Stages[i]] = version[r]
                             /\ i > at[r] => file[Stages[i]] = "absent"
    BY InStageFacts
  <1>2. \A i \in 1 .. 6 : (file')[Stages[i]] = IF i = at[r] THEN c ELSE file[Stages[i]]
    BY <1>1, PutInStage
  <1>3. PICK k : k = at[r]
    OBVIOUS
  <1>4. /\ \A i \in 1..6 : /\ i < k => (file')[Stages[i]] = (version')[r]
                           /\ i > k => (file')[Stages[i]] = "absent"
        /\ (file')[Stages[k]] = c /\ (at')[r] = k /\ (mode')[r] = "smoke"
    BY <1>1, <1>2, <1>3
  <1>5. QED
    BY <1>3, <1>4, StageInvNext

(* A stage is entered when nothing of it is there.                         *)
LEMMA EnterStep ==
  ASSUME DataInv, NEW r \in Runs, StageInv(r), Enter(r)
  PROVE  StageInv(r)' /\ EndInv(r)'
  <1>1. /\ pc[r] = "enter" /\ pc[r] \in InStage /\ file[Stages[at[r]]] = "absent" /\ temps = {}
        /\ Stage(r) = Stages[at[r]] /\ r \in DOMAIN pc /\ UNCHANGED <<at, mode, version>>
        /\ at[r] \in 1 .. 6
    BY InStageFacts DEF Enter, InStage, StageInv
  <1>2. CASE (pc')[r] = "unavailable"
    BY <1>2, FailedInv
  <1>3. CASE Stage(r) = "stage7" /\ (pc')[r] = "open" /\ UNCHANGED disk
    <2>1. temps' = {} /\ file' = file /\ "open" \in InStage
      BY <1>1, <1>3 DEF disk, InStage
    <2>2. QED
      BY <1>1, <1>3, <2>1, SameStage
  <1>4. CASE /\ Put(Stage(r), "dir", r) /\ temps' = temps
             /\ (pc')[r] = IF Stage(r) = "stage2_demo" THEN "mark" ELSE "check"
    <2>1. Stage(r) = "stage2_demo" => at[r] = 1
      BY <1>1, StageIndex
    <2>2. {"mark", "check"} \subseteq InStage
      BY DEF InStage
    <2>3. CASE Stage(r) = "stage2_demo"
      <3>1. (pc')[r] = "mark" /\ temps' = {}
        BY <1>1, <1>4, <2>3
      <3>2. QED
        BY <1>1, <1>4, <2>1, <2>2, <2>3, <3>1, SameStage
    <2>4. CASE Stage(r) # "stage2_demo"
      <3>1. (pc')[r] = "check" /\ temps' = {}
        BY <1>1, <1>4, <2>4
      <3>2. QED
        BY <1>1, <1>4, <2>2, <3>1, SameStage
    <2>5. QED
      BY <2>3, <2>4
  <1>5. QED
    BY <1>1, <1>2, <1>3, <1>4 DEF Enter, Goto, Fail

(* The mark makes the directory of the demo one of its own.                *)
LEMMA MarkStep ==
  ASSUME DataInv, NEW r \in Runs, StageInv(r), Mark(r)
  PROVE  StageInv(r)' /\ EndInv(r)'
  <1>1. /\ pc[r] = "mark" /\ pc[r] \in InStage /\ at[r] = 1 /\ temps' = {}
        /\ UNCHANGED <<at, mode, version>> /\ (pc')[r] = "open"
    BY InStageFacts DEF Mark, InStage, StageInv, Goto
  <1>2. Put(Stage(r), "marked", r) /\ "open" \in InStage
    BY <1>1, StageFacts DEF Mark, Stage, InStage
  <1>3. QED
    BY <1>1, <1>2, SameStage

(* A stage is reused as it is found, or written into its directory.        *)
LEMMA CheckStep ==
  ASSUME DataInv, NEW r \in Runs, StageInv(r), Check(r)
  PROVE  StageInv(r)' /\ EndInv(r)'
  <1>1. /\ pc[r] = "check" /\ pc[r] \in InStage /\ file[Stages[at[r]]] = "dir" /\ temps = {}
        /\ Stage(r) = Stages[at[r]] /\ r \in DOMAIN pc /\ version[r] # "dir" /\ at[r] \in 1 .. 6
    BY InStageFacts, VersionFacts DEF Check, InStage, StageInv
  <1>2. /\ (pc')[r] = IF Stage(r) = "demo_contract" THEN "temp" ELSE "open"
        /\ UNCHANGED <<at, mode, version>> /\ UNCHANGED disk
    BY <1>1 DEF Check, Goto
  <1>3. temps' = {} /\ file' = file /\ {"temp", "open"} \subseteq InStage
    BY <1>1, <1>2 DEF disk, InStage
  <1>4. Stage(r) = "demo_contract" => at[r] = 2
    BY <1>1, StageIndex
  <1>5. CASE (pc')[r] = "temp" /\ at[r] = 2
    BY <1>1, <1>2, <1>3, <1>5, SameStage
  <1>6. CASE (pc')[r] = "open"
    BY <1>1, <1>2, <1>3, <1>6, SameStage
  <1>7. QED
    BY <1>2, <1>4, <1>5, <1>6

(* The contract goes through a temporary sibling.                          *)
LEMMA ContractSteps ==
  ASSUME DataInv, NEW r \in Runs, StageInv(r), MakeTemp(r) \/ ReplaceContract(r)
  PROVE  StageInv(r)' /\ EndInv(r)'
  <1>1. /\ pc[r] \in {"temp", "replace"} /\ pc[r] \in InStage /\ at[r] = 2
        /\ file[Stages[at[r]]] = "dir" /\ r \in DOMAIN pc
        /\ temps = IF pc[r] = "replace" THEN {r} ELSE {}
        /\ UNCHANGED <<mode, version>>
    BY InStageFacts DEF MakeTemp, ReplaceContract, InStage, StageInv
  <1>2. CASE MakeTemp(r)
    <2>1. (pc')[r] = "replace" /\ temps' = {r} /\ file' = file /\ at' = at
      BY <1>1, <1>2 DEF MakeTemp, Goto
    <2>2. "replace" \in InStage
      BY DEF InStage
    <2>3. QED
      BY <1>1, <2>1, <2>2, SameStage
  <1>3. CASE ReplaceContract(r)
    <2>1. temps' = {} /\ Put(Stage(r), version[r], r) /\ NextStage(r)
      BY <1>1, <1>3, StageFacts DEF ReplaceContract, Stage
    <2>2. QED
      BY <1>1, <2>1, StageDone
  <1>4. QED
    BY <1>2, <1>3

(* An output is opened and finished in place.                              *)
LEMMA WriteSteps ==
  ASSUME DataInv, NEW r \in Runs, StageInv(r), Open(r) \/ Finish(r)
  PROVE  StageInv(r)' /\ EndInv(r)'
  <1>1. /\ pc[r] \in {"open", "finish"} /\ pc[r] \in InStage /\ temps = {}
        /\ Stage(r) = Stages[at[r]] /\ r \in DOMAIN pc /\ UNCHANGED <<mode, version>>
        /\ pc[r] = "open" => file[Stages[at[r]]] \in {"absent", "dir", "marked"}
    BY InStageFacts DEF Open, Finish, InStage, StageInv
  <1>2. CASE Open(r)
    <2>1. /\ Put(Stage(r), "torn", r) /\ (pc')[r] = "finish" /\ at' = at /\ temps' = {}
      BY <1>1, <1>2 DEF Open, Goto
    <2>2. "finish" \in InStage
      BY DEF InStage
    <2>3. QED
      BY <1>1, <2>1, <2>2, SameStage
  <1>3. CASE Finish(r)
    <2>1. CASE Put(Stage(r), version[r], r) /\ NextStage(r) /\ temps' = temps
      BY <1>1, <2>1, StageDone
    <2>2. CASE (pc')[r] = "unavailable"
      BY <2>2, FailedInv
    <2>3. QED
      BY <1>1, <1>3, <2>1, <2>2 DEF Finish, Fail, Goto
  <1>4. QED
    BY <1>2, <1>3

(* Before the first stage, and after the last one. *)
LEMMA OtherSteps ==
  ASSUME DataInv, DiskInv, NEW r \in Runs, RunInv(r), Move(r), pc[r] \notin InStage
  PROVE  StageInv(r)' /\ EndInv(r)'
  <1>1. /\ r \in DOMAIN pc /\ at[r] \in 1 .. 6 /\ version[r] \in Versions /\ RootInv
        /\ EndInv(r) /\ StageInv(r) /\ mode[r] \in Modes /\ r \in DOMAIN draft
    BY StageFacts DEF DataInv, TypeOK, DiskInv, RunInv
  <1> USE DEF Goto, Exit, Fail
  <1>2. CASE LookUp(r) \/ MakeRoot(r) \/ List(r)
    <2>1. \/ (pc')[r] = "over"
          \/ /\ (pc')[r] \in {"mkdir", "list"} /\ UNCHANGED disk /\ UNCHANGED at
             /\ (pc')[r] = "list" => root # "absent"
             /\ pc[r] \in {"new", "mkdir", "list"}
          \/ /\ (pc')[r] = "begin" /\ UNCHANGED <<at, file, temps>>
             /\ pc[r] \in {"new", "mkdir", "list"}
             /\ root = "absent" \/ ~Occupied
      BY <1>1, <1>2 DEF LookUp, MakeRoot, List, disk
    <2>2. root \in {"absent", "present"}
      BY DEF DataInv, TypeOK
    <2>3. CASE (pc')[r] = "over"
      BY <2>3, FailedInv
    <2>4. CASE /\ (pc')[r] \in {"mkdir", "list"} /\ UNCHANGED disk /\ UNCHANGED at
               /\ (pc')[r] = "list" => root # "absent"
               /\ pc[r] \in {"new", "mkdir", "list"}
      BY <1>1, <2>2, <2>4 DEF EndInv, StageInv, InStage, disk
    <2>5. CASE /\ (pc')[r] = "begin" /\ UNCHANGED <<at, file, temps>>
               /\ pc[r] \in {"new", "mkdir", "list"}
               /\ root = "absent" \/ ~Occupied
      <3>1. temps' = {} /\ \A s \in Names : (file')[s] = "absent"
        BY <1>1, <2>5 DEF RootInv, Occupied
      <3>2. QED
        BY <1>1, <2>5, <3>1, StageFacts DEF EndInv, StageInv, InStage
    <2>6. QED
      BY <2>1, <2>3, <2>4, <2>5
  <1>3. CASE Begin(r)
    <2>1. CASE (pc')[r] = "unavailable"
      BY <2>1, FailedInv
    <2>2. CASE mode[r] = "smoke" /\ (pc')[r] = "enter"
      <3>1. /\ at[r] = 1 /\ temps = {} /\ \A s \in Names : file[s] = "absent"
            /\ UNCHANGED <<at, mode, version, disk>>
        BY <1>1, <1>3 DEF Begin, EndInv
      <3>2. temps' = {} /\ \A i \in 1 .. 6 : (file')[Stages[i]] = "absent"
        BY <3>1, StageIndex DEF disk
      <3>3. PICK k : k = 1
        OBVIOUS
      <3>4. /\ (at')[r] = k /\ (mode')[r] = "smoke" /\ (file')[Stages[k]] = "absent"
            /\ \A i \in 1..6 : /\ i < k => (file')[Stages[i]] = (version')[r]
                               /\ i > k => (file')[Stages[i]] = "absent"
        BY <2>2, <3>1, <3>2, <3>3
      <3>5. "enter" \in InStage
        BY DEF InStage
      <3>6. QED
        BY <2>2, <3>2, <3>4, <3>5, StageInvNext
    <2>3. mode[r] = "verified" => (pc')[r] = "unavailable"
      BY <1>1, <1>3 DEF Begin, VerifiedContracts
    <2>4. QED
      BY <1>1, <1>3, <2>1, <2>2, <2>3 DEF Begin, Modes
  <1>4. CASE Conclude(r)
    <2>1. /\ (pc')[r] = "publish" /\ file' = file /\ temps' = temps \cup {r}
          /\ (draft')[r] = [status |-> pc[r], mode |-> mode[r], outputs |-> Outputs, temps |-> temps]
      BY <1>1, <1>4 DEF Conclude
    <2>2. CASE pc[r] = "completed"
      <3>1. mode[r] = "smoke" /\ temps = {} /\ \A s \in Names : file[s] = version[r]
        BY <1>1, <2>2 DEF EndInv
      <3>2. {s \in Names : file[s] \notin {"absent", "dir"}} = Names
        BY <1>1, <3>1, VersionFacts
      <3>3. Outputs = [s \in Names |-> file[s]] /\ file = [s \in Names |-> file[s]]
        BY <3>2 DEF Outputs, DataInv, TypeOK
      <3>4. Outputs = file /\ file = [s \in Names |-> version[r]]
        BY <3>1, <3>3
      <3>5. /\ (draft')[r].mode = "smoke" /\ (draft')[r].temps = {}
            /\ (draft')[r].outputs = file /\ temps' = {r}
        BY <2>1, <3>1, <3>4
      <3>6. Whole(draft[r])'
        BY <1>1, <3>4, <3>5, StageFacts DEF Whole
      <3>7. mode' = mode
        BY <1>4 DEF Conclude
      <3>8. QED
        BY <2>1, <3>1, <3>5, <3>6, <3>7 DEF EndInv, StageInv, InStage
    <2>3. CASE pc[r] = "unavailable"
      BY <2>1, <2>3 DEF EndInv, StageInv, InStage
    <2>4. QED
      BY <1>4, <2>2, <2>3 DEF Conclude
  <1>5. CASE Publish(r) \/ Crash(r)
    <2>1. (pc')[r] \in {"unavailable", "over"}
      BY <1>1, <1>5 DEF Publish, Crash
    <2>2. QED
      BY <2>1, FailedInv
  <1>6. QED
    BY <1>2, <1>3, <1>4, <1>5
    DEF Move, Step, InStage, Enter, Mark, Check, MakeTemp, ReplaceContract, Open, Finish

(* Any move of the run at work keeps what is known of it.                  *)
LEMMA MoveRunInv ==
  ASSUME DataInv, DiskInv, NEW r \in Runs, RunInv(r), Move(r)
  PROVE  RunInv(r)'
  <1>1. OwnRoot(r)'
    BY MoveOwnRoot
  <1>2. StageInv(r)' /\ EndInv(r)'
    <2>1. CASE pc[r] \notin InStage
      BY <2>1, OtherSteps
    <2>2. CASE Crash(r)
      <3>1. (pc')[r] = "over"
        BY <2>2 DEF Crash, Exit, Goto, DataInv, TypeOK
      <3>2. QED
        BY <3>1, FailedInv
    <2>3. CASE pc[r] \in InStage /\ ~Crash(r)
      <3>1. StageInv(r)
        BY DEF RunInv
      <3>2. \/ Enter(r) \/ Mark(r) \/ Check(r) \/ MakeTemp(r) \/ ReplaceContract(r)
            \/ Open(r) \/ Finish(r)
        BY <2>3 DEF Move, Step, InStage, LookUp, MakeRoot, List, Begin, Conclude, Publish
      <3>3. QED
        BY <3>1, <3>2, EnterStep, MarkStep, CheckStep, ContractSteps, WriteSteps
    <2>4. QED
      BY <2>1, <2>2, <2>3
  <1>3. QED
    BY <1>1, <1>2 DEF RunInv
-------------------------------------------------------------------------------
(* Between runs a user edits what no run is at work on.                    *)
LEMMA EditTypes ==
  ASSUME DataInv, Edit
  PROVE  DataInv'
  <1>1. /\ TypeOK /\ edits < MaxEdits /\ edits' = edits + 1
        /\ UNCHANGED <<pc, at, mode, version, writable, draft, exit, root, temps>>
    BY DEF DataInv, Edit, run
  <1>2. \/ /\ manifest' = manifest
           /\ \E s \in Names, c \in {"absent", "foreign"} : Put(s, c, "user")
        \/ /\ manifest' = NoManifest /\ file' = file
           /\ author' = [author EXCEPT !["manifest"] = "user"]
    BY DEF Edit
  <1>3. /\ author \in [Names \cup {"manifest"} -> Runs \cup {"none", "user"}]
        /\ "manifest" \notin Names /\ file \in [Names -> Content]
        /\ {"absent", "foreign"} \subseteq Content
    BY <1>1, StageFacts, VersionFacts DEF TypeOK
  <1>4. /\ file' \in [Names -> Content]
        /\ author' \in [Names \cup {"manifest"} -> Runs \cup {"none", "user"}]
    <2>1. file' = file \/ \E s \in Names, c \in Content : file' = [file EXCEPT ![s] = c]
      BY <1>2, <1>3 DEF Put
    <2>2. \E s \in Names \cup {"manifest"} : author' = [author EXCEPT ![s] = "user"]
      BY <1>2 DEF Put
    <2>3. QED
      BY <1>3, <2>1, <2>2
  <1>5. edits' \in 0 .. MaxEdits
    BY <1>1, RunAssumption DEF TypeOK
  <1>6. manifest' \in {NoManifest} \cup ManifestType
    BY <1>2 DEF DataInv
  <1>7. QED
    <2>1. \A m \in ManifestType :
            /\ m.status \in {"completed", "unavailable"} /\ m.mode \in Modes
            /\ DOMAIN m.outputs \subseteq Names /\ m.temps \subseteq Runs
      BY DEF ManifestType
    <2>2. /\ pc \in [Runs -> Labels] /\ at \in [Runs -> 1 .. 6] /\ exit \in [Runs -> Exits]
          /\ mode \in [Runs -> Modes] /\ version \in [Runs -> Versions]
          /\ writable \in [Runs -> BOOLEAN] /\ root \in {"absent", "present"} /\ temps \subseteq Runs
      BY <1>1, StageFacts DEF TypeOK, Labels, Exits
    <2>3. /\ draft \in [Runs -> {NoManifest} \cup ManifestType]
          /\ \A r \in Runs : pc[r] = "publish" => draft[r] # NoManifest
      BY DEF DataInv
    <2>4. /\ Len(Stages)' = 6 /\ Names' = Names
      BY StageFacts
    <2>5. TypeOK'
      BY <1>1, <1>4, <1>5, <1>6, <2>1, <2>2, <2>3, <2>4 DEF TypeOK, Labels, Exits
    <2>6. ManifestType' = ManifestType
      BY <2>4 DEF ManifestType
    <2>7. QED
      BY <1>1, <1>6, <2>3, <2>5, <2>6 DEF DataInv

(* ... and what it removes is missed by nobody.                            *)
LEMMA EditIInv ==
  ASSUME IInv, Edit
  PROVE  IInv'
  <1>1. /\ DataInv /\ TypeOK /\ RootInv /\ AuthorInv /\ ManifestInv /\ \A r \in Runs : EndInv(r)
        /\ UNCHANGED <<pc, at, mode, version, writable, draft, exit, root, temps>>
        /\ root = "present" /\ edits < MaxEdits /\ edits' = edits + 1
        /\ \A r \in Runs : pc[r] \in {"new", "over"}
    BY DEF IInv, DiskInv, DataInv, RunInv, Edit, run, Over
  <1>2. \/ /\ manifest' = manifest
           /\ \E s \in Names, c \in {"absent", "foreign"} : Put(s, c, "user")
        \/ /\ manifest' = NoManifest /\ file' = file
           /\ author' = [author EXCEPT !["manifest"] = "user"]
    BY DEF Edit
  <1>3. /\ author \in [Names \cup {"manifest"} -> Runs \cup {"none", "user"}]
        /\ "manifest" \notin Names /\ file \in [Names -> Content]
    BY <1>1, StageFacts DEF TypeOK
  <1>4. DataInv'
    BY <1>1, EditTypes DEF IInv
  <1>5. RootInv'
    BY <1>1 DEF RootInv
  <1>6. AuthorInv'
    <2>1. \A s \in Names :
             ((author')[s] = author[s] /\ (file')[s] = file[s]) \/ (author')[s] = "user"
      BY <1>2, <1>3 DEF Put
    <2>2. ((author')["manifest"] = author["manifest"] /\ manifest' = manifest)
          \/ (author')["manifest"] = "user"
      BY <1>2, <1>3 DEF Put
    <2>3. QED
      BY <1>1, <2>1, <2>2, StageFacts DEF AuthorInv, NoManifest
  <1>7. ManifestInv'
    BY <1>1, <1>2, StageFacts DEF ManifestInv, Whole, NoManifest
  <1>8. \A r \in Runs : RunInv(r)'
    BY <1>1 DEF RunInv, OwnRoot, StageInv, EndInv, Claimed, InStage
  <1>9. OneAtWork'
    BY <1>1 DEF OneAtWork, Over
  <1>10. QED
    BY <1>4, <1>5, <1>6, <1>7, <1>8, <1>9 DEF IInv, DiskInv

(* At the start no run has looked, and nobody has edited.                  *)
LEMMA InitIInv == Init => IInv
  <1> SUFFICES ASSUME Init PROVE IInv
    OBVIOUS
  <1>1. /\ \A r \in Runs : pc[r] = "new" /\ at[r] = 1 /\ draft[r] = NoManifest
        /\ manifest = NoManifest /\ temps = {} /\ edits = 0
        /\ \A s \in Names \cup {"manifest"} : author[s] = "none"
    BY DEF Init
  <1>2. /\ pc \in [Runs -> Labels] /\ at \in [Runs -> 1 .. 6] /\ exit \in [Runs -> Exits]
        /\ mode \in [Runs -> Modes] /\ version \in [Runs -> Versions]
        /\ writable \in [Runs -> BOOLEAN] /\ draft \in [Runs -> {NoManifest}]
        /\ author \in [Names \cup {"manifest"} -> Runs \cup {"none", "user"}]
    BY DEF Init, Labels, Exits
  <1>3. /\ root \in {"absent", "present"} /\ file \in [Names -> {"absent", "foreign"}]
        /\ root = "absent" => \A s \in Names : file[s] = "absent"
    BY DEF Init
  <1>4. 0 \in 0 .. MaxEdits
    BY RunAssumption
  <1>5. file \in [Names -> Content]
    BY <1>3, VersionFacts
  <1>6. DataInv
    BY <1>1, <1>2, <1>3, <1>4, <1>5, StageFacts DEF DataInv, TypeOK, Labels, Exits
  <1>7. DiskInv
    BY <1>1, <1>3 DEF DiskInv, RootInv, AuthorInv, ManifestInv, NoManifest
  <1>8. OneAtWork
    BY <1>1 DEF OneAtWork, Over
  <1>9. \A r \in Runs : RunInv(r)
    BY <1>1 DEF RunInv, OwnRoot, StageInv, EndInv, Claimed, InStage
  <1>10. QED
    BY <1>6, <1>7, <1>8, <1>9 DEF IInv

(* A stutter keeps the types.                                              *)
LEMMA StutterTypes ==
  ASSUME DataInv, UNCHANGED vars
  PROVE  DataInv'
  <1>1. /\ UNCHANGED <<pc, at, mode, version, writable, draft, exit, root, file, temps, manifest>>
        /\ UNCHANGED <<author, edits>> /\ Len(Stages)' = Len(Stages) /\ Names' = Names
    BY StageFacts DEF vars, run, disk
  <1>2. ManifestType' = ManifestType
    BY <1>1 DEF ManifestType
  <1>3. QED
    BY <1>1, <1>2 DEF DataInv, TypeOK

(* One step of a run or of an editor, or a stutter.                        *)
LEMMA NextIInv ==
  ASSUME Exclusive, IInv, [Next]_vars
  PROVE  IInv'
  <1>1. CASE UNCHANGED vars
    <2>1. /\ UNCHANGED <<pc, at, mode, version, writable, draft, exit, root, file, temps, manifest>>
          /\ UNCHANGED <<author, edits>> /\ Len(Stages)' = Len(Stages) /\ Names' = Names
          /\ Stages' = Stages
      BY <1>1, StageFacts DEF vars, run, disk
    <2>3. DataInv' /\ OneAtWork'
      BY <1>1, <2>1, StutterTypes DEF IInv, OneAtWork, Over
    <2>4. DiskInv'
      BY <2>1 DEF IInv, DiskInv, RootInv, AuthorInv, ManifestInv, Whole, NoManifest
    <2>5. \A r \in Runs : RunInv(r)'
      BY <2>1 DEF IInv, RunInv, OwnRoot, StageInv, EndInv, Whole, NoManifest
    <2>6. QED
      BY <2>3, <2>4, <2>5 DEF IInv
  <1>2. CASE Edit
    BY <1>2, EditIInv
  <1>3. ASSUME NEW r \in Runs, Move(r) PROVE IInv'
    <2>1. DataInv /\ DiskInv /\ OneAtWork /\ \A q \in Runs : RunInv(q)
      BY DEF IInv
    <2>2. DataInv' /\ DiskInv' /\ OneAtWork'
      BY <1>3, <2>1, MoveTypes, MoveDiskInv, MoveOneAtWork
    <2>3. \A q \in Runs : RunInv(q)'
      BY <1>3, <2>1, MoveRunInv, MoveOthers
    <2>4. QED
      BY <2>2, <2>3 DEF IInv
  <1>4. QED
    BY <1>1, <1>2, <1>3 DEF Next, Move

(* Every variable keeps its type, whether or not runs overlap.             *)
THEOREM TypeCorrect == Spec => []TypeOK
  <1>1. Init => DataInv
    BY InitIInv DEF IInv
  <1>2. DataInv /\ [Next]_vars => DataInv'
    BY EditTypes, MoveTypes, StutterTypes DEF Next, Move
  <1>3. DataInv => TypeOK
    BY DEF DataInv
  <1>4. QED
    BY <1>1, <1>2, <1>3, PTL DEF Spec

(* The invariant holds of runs that never overlap.                         *)
THEOREM Invariance == ASSUME Exclusive PROVE Spec => []IInv
  <1>1. IInv /\ [Next]_vars => IInv'
    BY NextIInv
  <1>2. QED
    BY <1>1, InitIInv, PTL DEF Spec

(* A run reports completion, of its own work or of an earlier run's, only  *)
(* of a whole root.                                                        *)
LEMMA CompletionStep ==
  ASSUME Exclusive, IInv, Next, NEW r \in Runs, exit[r] # "completed", (exit')[r] = "completed"
  PROVE  /\ mode[r] = "smoke" /\ manifest'.status = "completed"
         /\ \E v \in Versions : file' = [s \in Names |-> v]
         /\ manifest'.outputs = file' /\ temps' = {}
  <1>1. Move(r)
    <2>1. PICK q \in Runs : Move(q)
      BY DEF Next, Move, Edit, run
    <2>2. q = r
      BY <2>1, MoveOfOne DEF IInv
    <2>3. QED
      BY <2>1, <2>2
  <1>2. /\ DataInv /\ ManifestInv /\ EndInv(r) /\ r \in DOMAIN exit
        /\ file = [s \in Names |-> file[s]]
    BY DEF IInv, DiskInv, RunInv, DataInv, TypeOK
  <1>3. CASE Publish(r)
    <2>1. /\ draft[r].status = "completed" /\ manifest' = draft[r]
          /\ file' = file /\ temps' = temps \ {r} /\ pc[r] = "publish"
      BY <1>2, <1>3 DEF Publish, Exit, Fail
    <2>2. /\ Whole(draft[r]) /\ draft[r].outputs = file /\ temps = {r}
      BY <1>2, <2>1 DEF EndInv
    <2>3. mode[r] = "smoke"
      BY <1>2, <2>1 DEF EndInv
    <2>4. QED
      BY <2>1, <2>2, <2>3 DEF Whole
  <1>4. CASE List(r)
    <2>1. /\ manifest.status = "completed" /\ Reusable(manifest, r) /\ UNCHANGED disk
      BY <1>2, <1>4 DEF List, Exit
    <2>2. Whole(manifest) /\ manifest.outputs = Outputs /\ manifest.temps = temps
          /\ manifest.mode = mode[r]
      BY <1>2, <2>1 DEF ManifestInv, Reusable
    <2>3. PICK v \in Versions : Outputs = [s \in Names |-> v]
      BY <2>2 DEF Whole
    <2>4. DOMAIN Outputs = {s \in Names : file[s] \notin {"absent", "dir"}}
      BY DEF Outputs
    <2>5. \A s \in Names : Outputs[s] = file[s]
      BY <2>3, <2>4 DEF Outputs
    <2>6. file = [s \in Names |-> v]
      BY <1>2, <2>3, <2>5
    <2>7. QED
      BY <2>1, <2>2, <2>3, <2>6 DEF Whole, disk
  <1>5. CASE ~Publish(r) /\ ~List(r)
    BY <1>1, <1>2, <1>5
    DEF Move, Step, LookUp, MakeRoot, Begin, Enter, Mark, Check, MakeTemp, ReplaceContract, Open,
        Finish, Conclude, Crash, Exit
  <1>6. QED
    BY <1>3, <1>4, <1>5

(* A run changes only what it has written itself, or what is not there.    *)
LEMMA ForeignStep ==
  ASSUME Exclusive, IInv, Next, NEW r \in Runs, NEW s \in Names, (pc')[r] # pc[r]
  PROVE  /\ (file')[s] # file[s] => file[s] # "foreign" /\ author[s] \in {"none", r, "user"}
         /\ manifest' # manifest => author["manifest"] \in {"none", r, "user"}
  <1>1. Move(r)
    <2>1. PICK q \in Runs : Move(q)
      BY DEF Next, Move, Edit, run
    <2>2. q = r
      BY <2>1, MoveOfOne DEF IInv
    <2>3. QED
      BY <2>1, <2>2
  <1>2. DataInv /\ AuthorInv /\ OwnRoot(r)
    BY DEF IInv, DiskInv, RunInv
  <1>3. (file')[s] # file[s] => pc[r] \in Claimed
    BY <1>1, <1>2, DiskStep DEF Claimed
  <1>4. manifest' # manifest => pc[r] \in Claimed
    BY <1>1, <1>2, DiskStep DEF Claimed
  <1>5. QED
    BY <1>2, <1>3, <1>4 DEF OwnRoot, AuthorInv

(* reproduce_all.py reports completion only of a root in which all six     *)
(* outputs are there, of one version, and listed by the manifest: for runs *)
(* that never overlap, whatever died or was edited between them.           *)
THEOREM CompletionsAreWhole == ASSUME Exclusive PROVE Spec => CompletionIsWhole
  <1>1. IInv /\ [Next]_vars =>
           [\A r \in Runs : exit[r] # "completed" /\ exit'[r] = "completed" =>
               /\ mode[r] = "smoke" /\ manifest'.status = "completed"
               /\ \E v \in Versions : file' = [s \in Names |-> v]
               /\ manifest'.outputs = file' /\ temps' = {}]_vars
    BY CompletionStep
  <1>2. QED
    BY <1>1, Invariance, PTL DEF Spec, CompletionIsWhole

(* No run changes an output or a manifest of another run or of the caller, *)
(* if the runs never overlap.                                              *)
THEOREM ForeignKept == ASSUME Exclusive PROVE Spec => ForeignIsKept
  <1>1. IInv /\ [Next]_vars =>
           [\A r \in Runs, s \in Names : pc'[r] # pc[r] =>
               /\ file'[s] # file[s] => file[s] # "foreign" /\ author[s] \in {"none", r, "user"}
               /\ manifest' # manifest => author["manifest"] \in {"none", r, "user"}]_vars
    BY ForeignStep
  <1>2. QED
    BY <1>1, Invariance, PTL DEF Spec, ForeignIsKept
===============================================================================
