----------------------------- MODULE ReproductionRun -----------------------------
(***************************************************************************)
(* scripts/reproduce/reproduce_all.py: a run claims an output root, lets   *)
(* six stages write into it, and records what they wrote in a manifest     *)
(* that a later run may reuse.  The stages are scripts of their own; each  *)
(* refuses to overwrite output that differs from its own.                  *)
(*                                                                         *)
(* The outputs of a stage are one file, and its bytes are determined by    *)
(* the version (checkout and installed packages) of the run that computes  *)
(* them.  "dir" is a stage directory without output, "torn" an output that *)
(* is being written or whose writer died.  Validating a root for reuse     *)
(* only reads, and is one step.                                            *)
(***************************************************************************)
EXTENDS Integers, FiniteSets, Sequences

CONSTANTS
    Runs,        \* invocations of the driver on one output root (bound)
    Versions,    \* what checkout and packages can be
    Exclusive,   \* no run starts before the earlier ones are over
    MaxEdits     \* how often somebody edits the root by hand (bound)

ASSUME RunAssumption ==
    /\ IsFiniteSet(Runs) /\ Exclusive \in BOOLEAN /\ MaxEdits \in Nat
    /\ Versions # {} /\ Versions \cap {"absent", "dir", "marked", "torn", "foreign"} = {}

VARIABLES
    pc,         \* statement each run is about to execute
    at,         \* stage a run is in
    mode,       \* "smoke" or "verified"
    version,    \* what the run computes with
    writable,   \* OutputRootClaim.writable
    draft,      \* manifest about to be written
    exit,       \* "none", "completed", "unavailable" or "died"
    root,       \* "absent" or "present"
    file,       \* output of each stage
    temps,      \* .reproduce-* temporaries, by run
    manifest,   \* run_manifest.json
    author,     \* ghost: who wrote each output and the manifest last
    edits

run == <<pc, at, mode, version, writable, draft, exit>>
disk == <<root, file, temps, manifest, author>>
vars == <<run, disk, edits>>

Stages == <<"stage2_demo", "demo_contract", "stage4", "stage5", "stage6", "stage7">>
Names == {Stages[i] : i \in 1..Len(Stages)}
Content == Versions \cup {"absent", "dir", "marked", "torn", "foreign"}
NoManifest == [status |-> "absent"]
Modes == {"smoke", "verified"}
Over(r) == pc[r] \in {"new", "over"}
Stage(r) == Stages[at[r]]

(* The audited artifacts of verified mode: contracts exist for Stage4 only. *)
ArtifactIds == {"stage4-report", "stage4-folds", "stage6-evidence", "stage7-aggregate"}
VerifiedContracts == {"stage4-report", "stage4-folds"}

(* _all_output_hashes: every regular file but the manifest. *)
Outputs == [s \in {s \in Names : file[s] \notin {"absent", "dir"}} |-> file[s]]

(* Entries of the root other than the manifest. *)
Occupied == temps # {} \/ \E s \in Names : file[s] # "absent"

(* Mutated form: the outputs are looked up, their hashes are not compared. *)
ReusablePresent(m, r) ==
    /\ m.mode = mode[r]
    /\ IF m.status = "unavailable" THEN ~Occupied
       ELSE /\ DOMAIN m.outputs = DOMAIN Outputs /\ m.temps = temps
            /\ \A s \in Names : file[s] # "dir"

(* _validate_reusable_manifest. *)
Reusable(m, r) ==
    /\ m.mode = mode[r]
    /\ IF m.status = "unavailable" THEN ~Occupied
       ELSE /\ m.outputs = Outputs /\ m.temps = temps
            /\ \A s \in Names : file[s] # "dir"

Init ==
    /\ pc = [r \in Runs |-> "new"] /\ at = [r \in Runs |-> 1]
    /\ mode \in [Runs -> Modes] /\ version \in [Runs -> Versions]
    /\ writable = [r \in Runs |-> FALSE] /\ draft = [r \in Runs |-> NoManifest]
    /\ exit = [r \in Runs |-> "none"]
    /\ \/ root = "absent" /\ file = [s \in Names |-> "absent"]
       \/ /\ root = "present"
          /\ file \in [Names -> {"absent", "foreign"}]
          /\ Cardinality({s \in Names : file[s] = "foreign"}) <= 1
    /\ temps = {} /\ manifest = NoManifest /\ edits = 0
    /\ author = [f \in Names \cup {"manifest"} |-> "none"]

Goto(r, label) == pc' = [pc EXCEPT ![r] = label]
Exit(r, code) == Goto(r, "over") /\ exit' = [exit EXCEPT ![r] = code]
Put(s, content, r) ==
    file' = [file EXCEPT ![s] = content] /\ author' = [author EXCEPT ![s] = r]

(* Something went wrong after the claim: the manifest will say so. *)
Fail(r) == Goto(r, "unavailable")
(* Mutated form: one stage too many. *)
NextStagePast(r) ==
    IF at[r] <= Len(Stages)
    THEN Goto(r, "enter") /\ at' = [at EXCEPT ![r] = @ + 1]
    ELSE Goto(r, "completed") /\ UNCHANGED at
(* The next stage, or the manifest after the last one. *)
NextStage(r) ==
    IF at[r] < Len(Stages)
    THEN Goto(r, "enter") /\ at' = [at EXCEPT ![r] = @ + 1]
    ELSE Goto(r, "completed") /\ UNCHANGED at

(* _claim_output_root looks whether there is a root at all ... *)
LookUp(r) ==
    /\ pc[r] = "new"
    /\ Exclusive => \A q \in Runs : Over(q)
    /\ Goto(r, IF root = "absent" THEN "mkdir" ELSE "list")
    /\ UNCHANGED <<at, mode, version, writable, draft, exit, disk, edits>>

(* ... creates it, and fails if another process was faster ... *)
MakeRoot(r) ==
    /\ pc[r] = "mkdir"
    /\ IF root = "absent"
       THEN /\ root' = "present" /\ writable' = [writable EXCEPT ![r] = TRUE]
            /\ Goto(r, "begin") /\ UNCHANGED exit
       ELSE Exit(r, "unavailable") /\ UNCHANGED <<root, writable>>
    /\ UNCHANGED <<at, mode, version, draft, file, temps, manifest, author, edits>>

(* Mutated form: a root that holds only an unavailable run, or the rests of *)
(* one, is claimed again.                                                   *)
ListClaimsFailed(r) ==
    /\ pc[r] = "list"
    /\ \/ /\ manifest.status # "completed"
          /\ writable' = [writable EXCEPT ![r] = TRUE]
          /\ Goto(r, "begin") /\ UNCHANGED exit
       \/ /\ manifest.status = "completed" /\ Reusable(manifest, r)
          /\ Exit(r, manifest.status) /\ UNCHANGED writable
       \/ /\ manifest.status = "completed" /\ ~Reusable(manifest, r)
          /\ Exit(r, "unavailable") /\ UNCHANGED writable
    /\ UNCHANGED <<at, mode, version, draft, disk, edits>>

(* ... or lists it: an empty one is claimed, one with a manifest of the same *)
(* mode may be reused, and everything else is refused.                       *)
List(r) ==
    /\ pc[r] = "list"
    /\ \/ /\ manifest = NoManifest /\ ~Occupied
          /\ writable' = [writable EXCEPT ![r] = TRUE]
          /\ Goto(r, "begin") /\ UNCHANGED exit
       \/ /\ manifest # NoManifest /\ Reusable(manifest, r)
          /\ Exit(r, manifest.status) /\ UNCHANGED writable
       \/ /\ \/ manifest = NoManifest /\ Occupied
             \/ manifest # NoManifest /\ ~Reusable(manifest, r)
          /\ Exit(r, "unavailable") /\ UNCHANGED writable
    /\ UNCHANGED <<at, mode, version, draft, disk, edits>>

(* Packages and demo inputs, or the audit of the verified artifacts, which  *)
(* completes only with evidence of Stage6 and of Stage7.                    *)
Begin(r) ==
    /\ pc[r] = "begin"
    /\ \/ mode[r] = "smoke" /\ (Goto(r, "enter") \/ Fail(r))
       \/ /\ mode[r] = "verified"
          /\ \E artifacts \in SUBSET ArtifactIds :
                IF /\ artifacts \subseteq VerifiedContracts
                   /\ {"stage6-evidence", "stage7-aggregate"} \subseteq artifacts
                THEN Goto(r, "completed") ELSE Fail(r)
    /\ UNCHANGED <<at, mode, version, writable, draft, exit, disk, edits>>

(* The directory of a stage.  The demo generator takes a directory of its   *)
(* own only with its marker; the stage itself may fail after this.          *)
Enter(r) ==
    /\ pc[r] = "enter"
    /\ IF Stage(r) = "stage7" THEN (Goto(r, "open") \/ Fail(r)) /\ UNCHANGED disk
       ELSE IF file[Stage(r)] = "absent"
       THEN /\ Put(Stage(r), "dir", r) /\ UNCHANGED <<root, temps, manifest>>
            /\ Goto(r, IF Stage(r) = "stage2_demo" THEN "mark" ELSE "check") \/ Fail(r)
       ELSE /\ UNCHANGED disk
            /\ \/ Fail(r)
               \/ /\ Stage(r) # "stage2_demo" \/ file[Stage(r)] # "dir"
                  /\ Goto(r, IF Stage(r) = "stage2_demo" THEN "open" ELSE "check")
    /\ UNCHANGED <<at, mode, version, writable, draft, exit, edits>>

Mark(r) ==
    /\ pc[r] = "mark"
    /\ Put("stage2_demo", "marked", r) /\ Goto(r, "open")
    /\ UNCHANGED <<at, mode, version, writable, draft, exit, root, temps, manifest, edits>>

(* _preflight_artifacts, and for the contract the first half of _write_new. *)
Check(r) ==
    /\ pc[r] = "check"
    /\ IF file[Stage(r)] = version[r] THEN NextStage(r)
       ELSE /\ IF file[Stage(r)] = "dir"
               THEN Goto(r, IF Stage(r) = "demo_contract" THEN "temp" ELSE "open")
               ELSE Fail(r)
            /\ UNCHANGED at
    /\ UNCHANGED <<mode, version, writable, draft, exit, disk, edits>>

(* The contract is written beside its destination and renamed. *)
MakeTemp(r) ==
    /\ pc[r] = "temp"
    /\ temps' = temps \cup {r} /\ Goto(r, "replace")
    /\ UNCHANGED <<at, mode, version, writable, draft, exit, root, file, manifest, author, edits>>

ReplaceContract(r) ==
    /\ pc[r] = "replace"
    /\ Put("demo_contract", version[r], r) /\ temps' = temps \ {r}
    /\ NextStage(r)
    /\ UNCHANGED <<mode, version, writable, draft, exit, root, manifest, edits>>

(* Opening truncates.  An output that is there by now is compared again, but *)
(* not by Stage5, which takes it as it is.                                   *)
Open(r) ==
    /\ pc[r] = "open"
    /\ IF file[Stage(r)] \in {"absent", "dir", "marked"}
       THEN Put(Stage(r), "torn", r) /\ Goto(r, "finish") /\ UNCHANGED <<at, root, temps, manifest>>
       ELSE /\ UNCHANGED disk
            /\ IF file[Stage(r)] = version[r] \/ Stage(r) = "stage5"
               THEN NextStage(r) ELSE Fail(r) /\ UNCHANGED at
    /\ UNCHANGED <<mode, version, writable, draft, exit, edits>>

(* A failing write leaves what it has written. *)
Finish(r) ==
    /\ pc[r] = "finish"
    /\ \/ /\ Put(Stage(r), version[r], r) /\ NextStage(r)
          /\ UNCHANGED <<root, temps, manifest>>
       \/ Fail(r) /\ UNCHANGED <<at, disk>>
    /\ UNCHANGED <<mode, version, writable, draft, exit, edits>>

(* _manifest lists the outputs, then _atomic_write stages the manifest. *)
Conclude(r) ==
    /\ pc[r] \in {"completed", "unavailable"}
    /\ draft' = [draft EXCEPT ![r] =
           [status |-> pc[r], mode |-> mode[r], outputs |-> Outputs, temps |-> temps]]
    /\ temps' = temps \cup {r} /\ Goto(r, "publish")
    /\ UNCHANGED <<at, mode, version, writable, exit, root, file, manifest, author, edits>>

(* The renaming, or the failure of it, which removes the temporary.  A       *)
(* completed run then becomes unavailable; a failed run dies with it.        *)
Publish(r) ==
    /\ pc[r] = "publish"
    /\ temps' = temps \ {r}
    /\ \/ /\ manifest' = draft[r] /\ author' = [author EXCEPT !["manifest"] = r]
          /\ Exit(r, draft[r].status)
       \/ /\ UNCHANGED <<manifest, author>>
          /\ IF draft[r].status = "completed" THEN Fail(r) /\ UNCHANGED exit
                                              ELSE Exit(r, "died")
    /\ UNCHANGED <<at, mode, version, writable, draft, root, file, edits>>

(* A run and the script it waits for die. *)
Crash(r) ==
    /\ ~Over(r) /\ Exit(r, "died")
    /\ UNCHANGED <<at, mode, version, writable, draft, disk, edits>>

(* Between runs somebody edits or removes an output or removes the manifest. *)
Edit ==
    /\ edits < MaxEdits /\ edits' = edits + 1
    /\ \A r \in Runs : Over(r)
    /\ root = "present"
    /\ \/ \E s \in Names, c \in {"absent", "foreign"} : Put(s, c, "user") /\ UNCHANGED manifest
       \/ /\ manifest' = NoManifest /\ UNCHANGED file
          /\ author' = [author EXCEPT !["manifest"] = "user"]
    /\ UNCHANGED <<run, root, temps>>

Step(r) ==
    \/ LookUp(r) \/ MakeRoot(r) \/ List(r) \/ Begin(r) \/ Enter(r) \/ Mark(r) \/ Check(r)
    \/ MakeTemp(r) \/ ReplaceContract(r) \/ Open(r) \/ Finish(r) \/ Conclude(r) \/ Publish(r)
Next == Edit \/ \E r \in Runs : Step(r) \/ Crash(r)
Spec == Init /\ [][Next]_vars

-------------------------------------------------------------------------------
(* The control states, and the types of all that is on disk. *)
TypeOK ==
    /\ pc \in [Runs -> {"new", "mkdir", "list", "begin", "enter", "mark", "check", "temp",
                        "replace", "open", "finish", "completed", "unavailable", "publish", "over"}]
    /\ at \in [Runs -> 1..Len(Stages)]
    /\ mode \in [Runs -> Modes] /\ version \in [Runs -> Versions]
    /\ writable \in [Runs -> BOOLEAN]
    /\ exit \in [Runs -> {"none", "completed", "unavailable", "died"}]
    /\ root \in {"absent", "present"} /\ file \in [Names -> Content] /\ temps \subseteq Runs
    /\ \A m \in {manifest} \cup {draft[r] : r \in Runs} :
           m # NoManifest =>
               /\ m.status \in {"completed", "unavailable"} /\ m.mode \in Modes
               /\ DOMAIN m.outputs \subseteq Names /\ m.temps \subseteq Runs
    /\ author \in [Names \cup {"manifest"} -> Runs \cup {"none", "user"}]
    /\ edits \in 0..MaxEdits

(* A run reports completion only when all six outputs are there, computed   *)
(* with one and the same version, and the manifest on disk lists exactly    *)
(* them: for a run that did the work and for one that reuses it, whatever   *)
(* died or was edited in the root before.                                   *)
CompletionIsWhole ==
    [][\A r \in Runs : exit[r] # "completed" /\ exit'[r] = "completed" =>
          /\ mode[r] = "smoke" /\ manifest'.status = "completed"
          /\ \E v \in Versions : file' = [s \in Names |-> v]
          /\ manifest'.outputs = file' /\ temps' = {}]_vars

(* No run changes an output or a manifest that another run, or the caller,  *)
(* has left in the root.                                                    *)
ForeignIsKept ==
    [][\A r \in Runs, s \in Names : pc'[r] # pc[r] =>
          /\ file'[s] # file[s] => file[s] # "foreign" /\ author[s] \in {"none", r, "user"}
          /\ manifest' # manifest => author["manifest"] \in {"none", r, "user"}]_vars

(* A completed manifest stays what it is: "A matching completed manifest is *)
(* reused; different existing content is refused."                          *)
CompletedIsKept ==
    [][manifest.status = "completed" => manifest' = manifest]_vars

================================================================================
