------------------------- MODULE ProvisioningProofs -------------------------
(***************************************************************************)
(* Proofs about a provisioning: how a private history is found, checked    *)
(* and bound (HistoryBinding), and how the pair of files that says so is   *)
(* written (BindingPair).                                                  *)
(*                                                                         *)
(* Of the first, for every set of paths, interfaces and registries and any *)
(* number of changes that others make meanwhile: what is bound is proved   *)
(* sound for a tree that nobody touched; that a written binding runs one   *)
(* component of each role, takes one contract and names three devices seen *)
(* idle twice is proved whatever the others do.                            *)
(*                                                                         *)
(* Of the second, for every set of writers and every mix of faults: that   *)
(* no private temporary is left holds for writers that overlap as well;    *)
(* that the pair belongs together and is what a writer reported is proved  *)
(* for writers that take turns. The properties speak of writers that are   *)
(* done or about to clean up. What makes them inductive is what a writer   *)
(* at work knows: WriterInv (how the files differ from what it captured),  *)
(* and what it captured itself, a pair that belongs together (CalmInv) and *)
(* holds no half of a success (WholeInv), because it may be put back.      *)
(***************************************************************************)
EXTENDS BindingPair, HistoryBinding, FiniteSetTheorems, TLAPS


----------------------------------------------------------------------------
(* HistoryBinding: what is bound *)

\* A step and the steps after it
Bound == {"registry", "first", "second", "admit", "validate", "write", "written"}
Contracted == {"first", "second", "admit", "validate", "write", "written"}
LookedOnce == {"second", "admit", "validate", "write", "written"}
LookedTwice == {"admit", "validate", "write", "written"}
Admitted == {"validate", "write", "written"}
Rendered == Bound \cup {"build"}
Complete == Rendered \cup {"interface"}
Private == Complete \cup {"inputs", "roles"}
Steps == Private \cup {"destinations", "failed"}

----------------------------------------------------------------------------
(* The inductive invariant, whatever others change *)

\* A provisioning, with the fields it has
Shaped(j) ==
  /\ j = [route |-> j.route, interface |-> j.interface, private |-> j.private, step |-> j.step,
          found |-> j.found, contract |-> j.contract, first |-> j.first, second |-> j.second, why |-> j.why]
  /\ j.interface \in Interfaces /\ j.route \in {"bootstrap", "legacy"} /\ j.private \in BOOLEAN
  /\ j.step \in Steps /\ (j.step = "failed" <=> j.why # "none")

Numbered(f, n) == \E k \in 1 .. n : \E p \in Paths : f = <<RoleOrder[k], p>>

\* One component for each of the first roles, as many as were found.
OneComponentEach(found) ==
  /\ IsFiniteSet(found) /\ Cardinality(found) \in 0 .. 4
  /\ \A f \in found : Numbered(f, Cardinality(found))
  /\ \A k \in 1 .. Cardinality(found) : \E f \in found : f[1] = RoleOrder[k]
  /\ \A f, g \in found : f[1] = g[1] => f = g

\* A look at the devices holds one device for each index asked for.
Look(j, s) ==
  /\ {x[1] : x \in s} = Indexed(j.interface)
  /\ \A x, y \in s : x[1] = y[1] => x = y

Checked(j) ==
  /\ j.step \in Bound => IndicesValid(j.interface) /\ \A role \in Roles : <<role, j.interface.at[role]>> \in j.found
  /\ j.step \in Contracted => Cardinality(j.contract) = 1
  /\ j.step \in LookedOnce => Look(j, j.first)
  /\ j.step \in LookedTwice => Look(j, j.second)
  /\ j.step \in Admitted => SnapshotValid(j.first) /\ SnapshotValid(j.second) /\ Uuids(j.first) = Uuids(j.second)

JobInv(j) == Shaped(j) /\ OneComponentEach(j.found) /\ Checked(j)

----------------------------------------------------------------------------
(* The inductive invariant while nobody changed anything *)

Untouched ==
  \E home \in SUBSET Paths \ {{}}, r \in Registries :
    tree = [copies |-> [role \in Roles |-> [p \in Paths |-> IF p \in home THEN "exec" ELSE "none"]],
            wrappers |-> home, registry |-> [q \in Registries |-> IF q = r THEN "v1" ELSE "other"],
            stray |-> FALSE, inputs |-> TRUE]

\* The conditions of Sound, in the order they are checked
CheckedSoFar(j) ==
  /\ \A f \in j.found : Copies(f[1]) = {f[2]}
  /\ j.step \in Private => j.private
  /\ j.step \in Complete => Cardinality(j.found) = 4
  /\ j.step \in Rendered /\ j.route = "bootstrap" => ~j.interface.absolute
  /\ j.step \in Bound => j.interface.chain = Stages /\ j.interface.wellFormed /\ j.interface.wrapper \in tree.wrappers
  /\ j.step \in LookedOnce => j.first = Snapshot
  /\ j.step \in LookedTwice => j.second = Snapshot
  /\ j.step \in {"write", "written"} => j.route = "bootstrap"

Refused(j) == j.step = "failed" /\ j.route = "bootstrap" /\ j.why \notin {"gpu_admission", "persistence"} => ~Sound

QuietInv(j) == Untouched /\ CheckedSoFar(j) /\ Refused(j)

BindingInv ==
  /\ edits \in 0 .. Edits
  /\ pair = {} \/ (job.step = "written" /\ pair = {Binding})
  /\ JobInv(job)
  /\ edits = 0 => QuietInv(job)

----------------------------------------------------------------------------
(* The tuples of the code *)

(* The four roles, in their order, are distinct.                           *)
LEMMA RoleFacts ==
  /\ RoleOrder[1] = "controller" /\ RoleOrder[2] = "source_materializer"
  /\ RoleOrder[3] = "performance_plan" /\ RoleOrder[4] = "finalizer"
  /\ \A k, n \in 1 .. 4 : RoleOrder[k] = RoleOrder[n] => k = n
  BY DEF RoleOrder

(* The four roles are the entries of RoleOrder.                            *)
LEMMA RolesAreFour == \A role : role \in Roles <=> \E k \in 1 .. 4 : role = RoleOrder[k]
  BY DEF Roles

\* Where there is one copy, it is the only element.
LEMMA OneCopy ==
  ASSUME NEW role, Cardinality(Copies(role)) = 1
  PROVE \E p \in Paths : Copies(role) = {p}
  <1>1. IsFiniteSet(Copies(role))
    <2>1. Copies(role) \subseteq Paths BY DEF Copies
    <2>2. IsFiniteSet(Paths) BY BoundAssumption
    <2> QED BY <2>1, <2>2, FS_Subset
  <1>2. PICK p : Copies(role) = {p} BY <1>1, FS_Singleton
  <1>3. p \in Paths BY <1>2 DEF Copies
  <1> QED BY <1>2, <1>3

\* Three indices in ascending order
LEMMA ThreeIndices ==
  ASSUME NEW i \in Interfaces
  PROVE IndicesValid(i) <=> \E x, y, z \in Indices : x < y /\ y < z /\ i.gpus = <<x, y, z>>
  <1>1. i.gpus \in Seq(Indices) BY InterfaceAssumption
  <1>2. ASSUME IndicesValid(i) PROVE \E x, y, z \in Indices : x < y /\ y < z /\ i.gpus = <<x, y, z>>
    <2>1. Len(i.gpus) = 3 /\ \A k \in 1 .. 2 : i.gpus[k] < i.gpus[k + 1] BY <1>2 DEF IndicesValid
    <2>2. i.gpus[1] < i.gpus[2] /\ i.gpus[2] < i.gpus[3] BY <2>1
    <2>3. i.gpus[1] \in Indices /\ i.gpus[2] \in Indices /\ i.gpus[3] \in Indices BY <1>1, <2>1
    <2>4. i.gpus = <<i.gpus[1], i.gpus[2], i.gpus[3]>> BY <1>1, <2>1
    <2> QED BY <2>2, <2>3, <2>4
  <1>3. ASSUME NEW x \in Indices, NEW y \in Indices, NEW z \in Indices, x < y, y < z, i.gpus = <<x, y, z>>
        PROVE IndicesValid(i)
    <2>1. Len(i.gpus) = 3 /\ i.gpus[1] = x /\ i.gpus[2] = y /\ i.gpus[3] = z BY <1>3
    <2>2. \A k \in 1 .. 2 : k = 1 \/ k = 2 OBVIOUS
    <2> QED BY <1>3, <2>1, <2>2 DEF IndicesValid
  <1> QED BY <1>2, <1>3

----------------------------------------------------------------------------
(* Steps of the provisioning *)

\* What is said of a provisioning alone does not change with the tree or the devices.
LEMMA JobInvIsRigid == ASSUME NEW j, JobInv(j) PROVE JobInv(j)'
  BY DEF JobInv, Shaped, OneComponentEach, Numbered, Checked, Look, SnapshotValid, Uuids, IndicesValid, Indexed

\* A step of the provisioning replaces its record, and its pair when it is written.
LEMMA JobStep ==
  ASSUME BindingInv, NEW j, job' = j, UNCHANGED <<tree, gpus, edits>>, job.step # "written",
         j.interface = job.interface, j.private = job.private,
         JobInv(j), edits = 0 => QuietInv(j),
         pair' = pair \/ (j.step = "written" /\ pair' = {Binding'})
  PROVE BindingInv'
  <1>1. pair = {} BY DEF BindingInv
  <1>2. pair' = {} \/ (job'.step = "written" /\ pair' = {Binding'}) BY <1>1
  <1>3. JobInv(j)' BY JobInvIsRigid
  <1>4. Snapshot' = Snapshot BY DEF Snapshot, Indexed
  <1>5. \A r : Copies(r)' = Copies(r) BY DEF Copies
  <1>6. Sound' = Sound BY <1>5 DEF Sound
  <1>7. Untouched' = Untouched BY DEF Untouched
  <1>8. CheckedSoFar(j) => CheckedSoFar(j)' BY <1>4, <1>5 DEF CheckedSoFar
  <1>9. edits' = 0 => QuietInv(j)' BY <1>6, <1>7, <1>8 DEF QuietInv, Refused
  <1>10. edits' \in 0 .. Edits BY DEF BindingInv
  <1> QED BY <1>2, <1>3, <1>9, <1>10 DEF BindingInv

\* A refusal needs a reason: of an untouched tree, that the history is not sound.
LEMMA FailStep ==
  ASSUME BindingInv, NEW why, Fail(why), why # "none", job.step # "written",
         edits = 0 /\ job.route = "bootstrap" /\ why \notin {"gpu_admission", "persistence"} => ~Sound
  PROVE BindingInv'
  <1> PICK j : j = [job EXCEPT !.step = "failed", !.why = why] OBVIOUS
  <1>1. job' = j /\ UNCHANGED <<tree, gpus, pair, edits>> BY DEF Fail
  <1>2. Shaped(job) /\ OneComponentEach(job.found) BY DEF BindingInv, JobInv
  <1>3. /\ j.route = job.route /\ j.interface = job.interface /\ j.private = job.private /\ j.found = job.found
        /\ j.step = "failed" /\ j.why = why
    BY <1>2 DEF Shaped
  <1>4. Shaped(j) BY <1>2, <1>3 DEF Shaped, Steps
  <1>5. Checked(j) BY <1>3 DEF Checked, Bound, Contracted, LookedOnce, LookedTwice, Admitted
  <1>6. ASSUME edits = 0 PROVE QuietInv(j)
    <2>1. Untouched /\ \A f \in job.found : Copies(f[1]) = {f[2]} BY <1>6 DEF BindingInv, QuietInv, CheckedSoFar
    <2>2. CheckedSoFar(j)
      BY <2>1, <1>3 DEF CheckedSoFar, Private, Complete, Rendered, Bound, LookedOnce, LookedTwice
    <2>3. Refused(j) BY <1>3, <1>6 DEF Refused
    <2> QED BY <2>1, <2>2, <2>3 DEF QuietInv
  <1>7. JobInv(j) BY <1>2, <1>3, <1>4, <1>5 DEF JobInv
  <1> QED BY <1>1, <1>3, <1>6, <1>7, JobStep

\* A step goes on once what is checked there holds.
LEMMA GotoStep ==
  ASSUME BindingInv, NEW j, NEW to \in Private \ {"written"},
         job' = [j EXCEPT !.step = to], UNCHANGED <<tree, gpus, pair, edits>>,
         job.step \notin {"failed", "written"},
         Shaped(j), j.interface = job.interface, j.private = job.private, j.why = job.why,
         OneComponentEach(j.found), Checked([j EXCEPT !.step = to]),
         edits = 0 => CheckedSoFar([j EXCEPT !.step = to])
  PROVE BindingInv'
  <1> PICK i : i = [j EXCEPT !.step = to] OBVIOUS
  <1>1. /\ i.route = j.route /\ i.interface = j.interface /\ i.private = j.private /\ i.found = j.found
        /\ i.step = to /\ i.why = j.why
    BY DEF Shaped
  <1>2. Shaped(job) BY DEF BindingInv, JobInv
  <1>3. Shaped(i) BY <1>1, <1>2 DEF Shaped, Steps, Private, Complete, Rendered, Bound
  <1>4. JobInv(i) BY <1>1, <1>3 DEF JobInv
  <1>5. ASSUME edits = 0 PROVE QuietInv(i)
    <2>1. Untouched BY <1>5 DEF BindingInv, QuietInv
    <2>2. Refused(i) BY <1>1 DEF Refused, Private, Complete, Rendered, Bound
    <2> QED BY <1>5, <2>1, <2>2 DEF QuietInv
  <1> QED BY <1>1, <1>4, <1>5, JobStep

\* Of a tree nobody touched, what a sound history needs and what can be read
LEMMA UntouchedFacts ==
  ASSUME Untouched
  PROVE /\ tree.inputs /\ ~tree.stray
        /\ \A role \in Roles : \A p \in Copies(role) : tree.copies[role][p] = "exec"
        /\ \A r1, r2 \in Roles : Copies(r1) = Copies(r2)
        /\ \A role \in Roles : tree.wrappers = Copies(role)
        /\ \E r \in Registries : {q \in Registries : tree.registry[q] \in {"v1", "v1_ambiguous", "v0"}} = {r}
                                 /\ tree.registry[r] = "v1"
  <1> PICK home \in SUBSET Paths \ {{}}, r \in Registries :
        tree = [copies |-> [role \in Roles |-> [p \in Paths |-> IF p \in home THEN "exec" ELSE "none"]],
                wrappers |-> home, registry |-> [q \in Registries |-> IF q = r THEN "v1" ELSE "other"],
                stray |-> FALSE, inputs |-> TRUE]
    BY DEF Untouched
  <1>1. \A role \in Roles : Copies(role) = home BY DEF Copies
  <1>2. \A role \in Roles : \A p \in Copies(role) : tree.copies[role][p] = "exec" BY <1>1
  <1>3. {q \in Registries : tree.registry[q] \in {"v1", "v1_ambiguous", "v0"}} = {r} OBVIOUS
  <1>4. tree.inputs /\ ~tree.stray /\ tree.wrappers = home /\ tree.registry[r] = "v1" OBVIOUS
  <1> QED BY <1>1, <1>2, <1>3, <1>4

\* What is sound, in a tree nobody touched, passes every check of the interface.
LEMMA SoundIsValid ==
  ASSUME job.interface \in Interfaces, Untouched, OneComponentEach(job.found),
         Cardinality(job.found) = 4, \A f \in job.found : Copies(f[1]) = {f[2]}, Sound
  PROVE ComponentsValid(job.found) /\ InterfaceValid(job.interface, job.found) /\ IndicesValid(job.interface)
  <1>1. \A f \in job.found : f[1] \in Roles /\ \E p \in Paths : f = <<f[1], p>>
    BY RolesAreFour DEF OneComponentEach, Numbered
  <1>2. ComponentsValid(job.found)
    <2> SUFFICES ASSUME NEW f \in job.found PROVE tree.copies[f[1]][f[2]] = "exec" BY DEF ComponentsValid
    <2>1. f[2] \in Copies(f[1]) OBVIOUS
    <2> QED BY <1>1, <2>1, UntouchedFacts
  <1>3. ASSUME NEW role \in Roles
        PROVE <<role, job.interface.at[role]>> \in job.found /\ tree.copies[role][job.interface.at[role]] = "exec"
    <2>1. PICK k \in 1 .. 4 : role = RoleOrder[k] BY RolesAreFour
    <2>2. PICK f \in job.found : f[1] = role BY <2>1 DEF OneComponentEach
    <2>3. Copies(role) = {job.interface.at[role]} BY DEF Sound
    <2>4. f[2] = job.interface.at[role] BY <2>2, <2>3
    <2>5. f = <<f[1], f[2]>> BY <1>1
    <2>6. job.interface.at[role] \in Copies(role) BY <2>3
    <2> QED BY <2>2, <2>4, <2>5, <2>6, UntouchedFacts
  <1>4. InterfaceValid(job.interface, job.found) BY <1>3 DEF Sound, InterfaceValid
  <1>5. IndicesValid(job.interface) BY ThreeIndices DEF Sound
  <1> QED BY <1>2, <1>4, <1>5

(* Destinations: nothing is known yet.                                     *)
LEMMA CheckDestinationsStep == ASSUME BindingInv, CheckDestinations PROVE BindingInv'
  <1>1. job.step = "destinations" BY DEF CheckDestinations
  <1>2. Shaped(job) /\ OneComponentEach(job.found) BY DEF BindingInv, JobInv
  <1>3. CASE job.private
    <2> PICK i : i = [job EXCEPT !.step = "inputs"] OBVIOUS
    <2>1. Advance("inputs", job) BY <1>3 DEF CheckDestinations
    <2>2. i.step = "inputs" /\ i.found = job.found /\ i.private = job.private BY <1>2 DEF Shaped
    <2>3. Checked(i) BY <2>2 DEF Checked, Bound, Contracted, LookedOnce, LookedTwice, Admitted
    <2>4. edits = 0 => CheckedSoFar(i)
      BY <1>3, <2>2 DEF BindingInv, QuietInv, CheckedSoFar, Complete, Rendered, Bound, LookedOnce, LookedTwice
    <2> QED BY <1>1, <1>2, <2>1, <2>3, <2>4, GotoStep DEF Advance, Private
  <1>4. CASE ~job.private
    <2>1. Fail("unsafe_destination") BY <1>4 DEF CheckDestinations
    <2>2. ~Sound BY <1>4 DEF Sound
    <2> QED BY <1>1, <2>1, <2>2, FailStep
  <1> QED BY <1>3, <1>4

(* Inputs: nothing is known yet.                                           *)
LEMMA LocateInputsStep == ASSUME BindingInv, LocateInputs PROVE BindingInv'
  <1>1. job.step = "inputs" BY DEF LocateInputs
  <1>2. Shaped(job) /\ OneComponentEach(job.found) BY DEF BindingInv, JobInv
  <1>3. CASE job.route = "legacy" \/ tree.inputs
    <2> PICK i : i = [job EXCEPT !.step = "roles"] OBVIOUS
    <2>1. Advance("roles", job) BY <1>3 DEF LocateInputs
    <2>2. i.step = "roles" /\ i.found = job.found /\ i.private = job.private BY <1>2 DEF Shaped
    <2>3. Checked(i) BY <2>2 DEF Checked, Bound, Contracted, LookedOnce, LookedTwice, Admitted
    <2>4. edits = 0 => CheckedSoFar(i)
      BY <1>1, <2>2 DEF BindingInv, QuietInv, CheckedSoFar, Private, Complete, Rendered, Bound, LookedOnce, LookedTwice
    <2> QED BY <1>1, <1>2, <2>1, <2>3, <2>4, GotoStep DEF Advance, Private
  <1>4. CASE ~(job.route = "legacy" \/ tree.inputs)
    <2>1. Fail("legacy_locator_invalid") BY <1>4 DEF LocateInputs
    <2>2. edits # 0 BY <1>4, UntouchedFacts DEF BindingInv, QuietInv
    <2> QED BY <1>1, <2>1, <2>2, FailStep
  <1> QED BY <1>3, <1>4

\* Components are found in the order of the roles, each in one place.
LEMMA FindComponentStep == ASSUME BindingInv, FindComponent PROVE BindingInv'
  <1>1. job.step = "roles" /\ Cardinality(job.found) < 4 BY DEF FindComponent
  <1>2. Shaped(job) /\ OneComponentEach(job.found) BY DEF BindingInv, JobInv
  <1> DEFINE n == Cardinality(job.found)
             role == RoleOrder[n + 1]
  <1>3. n \in 0 .. 3 /\ n + 1 \in 1 .. 4 BY <1>1, <1>2 DEF OneComponentEach
  <1>4. role \in Roles BY <1>3, RolesAreFour
  <1> DEFINE good == /\ Cardinality(Copies(role)) = 1
                     /\ job.route = "bootstrap" => \A p \in Copies(role) : tree.copies[role][p] = "exec"
             why == IF job.route = "bootstrap" THEN "history_root_ambiguous" ELSE "component_discovery"
  <1>5. IF good THEN Advance("roles", [job EXCEPT !.found = @ \cup ({role} \X Copies(role))]) ELSE Fail(why)
    BY DEF FindComponent
  <1>6. CASE good
    <2>1. PICK p \in Paths : Copies(role) = {p} BY <1>6, OneCopy
    <2> PICK g : g = <<role, p>> OBVIOUS
    <2>2. {role} \X Copies(role) = {g} BY <2>1
    <2> PICK found : found = job.found \cup {g} OBVIOUS
    <2> PICK j : j = [job EXCEPT !.found = found] OBVIOUS
    <2>3. Advance("roles", j)
      <3>1. j = [job EXCEPT !.found = @ \cup ({role} \X Copies(role))] BY <2>2
      <3> QED BY <1>5, <1>6, <3>1
    <2>4. g[1] = role /\ g[2] = p OBVIOUS
    <2>5. \A f \in job.found : f[1] # role
      <3> SUFFICES ASSUME NEW f \in job.found PROVE f[1] # role OBVIOUS
      <3>1. PICK k \in 1 .. n : \E q \in Paths : f = <<RoleOrder[k], q>> BY <1>2 DEF OneComponentEach, Numbered
      <3>2. f[1] = RoleOrder[k] BY <3>1
      <3>3. k \in 1 .. 4 /\ k # n + 1 BY <1>3, <3>1
      <3> QED BY <1>3, <3>2, <3>3, RoleFacts
    <2>6. g \notin job.found BY <2>4, <2>5
    <2>7. IsFiniteSet(found) /\ Cardinality(found) = n + 1 BY <1>2, <2>6, FS_AddElement DEF OneComponentEach
    <2>8. OneComponentEach(found)
      <3>1. ASSUME NEW f \in found PROVE Numbered(f, n + 1)
        <4>1. CASE f = g BY <4>1, <1>3 DEF Numbered
        <4>2. CASE f \in job.found BY <4>2, <1>2, <1>3 DEF OneComponentEach, Numbered
        <4> QED BY <4>1, <4>2
      <3>2. ASSUME NEW k \in 1 .. n + 1 PROVE \E f \in found : f[1] = RoleOrder[k]
        <4>1. CASE k = n + 1 BY <4>1, <2>4
        <4>2. CASE k # n + 1
          <5>1. k \in 1 .. n BY <4>2, <1>3
          <5> QED BY <5>1, <1>2 DEF OneComponentEach
        <4> QED BY <4>1, <4>2
      <3>3. \A f, h \in found : f[1] = h[1] => f = h BY <1>2, <2>4, <2>5 DEF OneComponentEach
      <3>4. \A f \in found : Numbered(f, Cardinality(found)) BY <2>7, <3>1
      <3>5. \A k \in 1 .. Cardinality(found) : \E f \in found : f[1] = RoleOrder[k] BY <2>7, <3>2
      <3>6. Cardinality(found) \in 0 .. 4 BY <1>3, <2>7
      <3> QED BY <2>7, <3>3, <3>4, <3>5, <3>6 DEF OneComponentEach
    <2> PICK i : i = [j EXCEPT !.step = "roles"] OBVIOUS
    <2>9. Shaped(j) /\ j.interface = job.interface /\ j.private = job.private /\ j.why = job.why /\ j.found = found
      BY <1>2 DEF Shaped
    <2>10. i.step = "roles" /\ i.found = found /\ i.private = job.private BY <2>9 DEF Shaped
    <2>11. Checked(i) BY <2>10 DEF Checked, Bound, Contracted, LookedOnce, LookedTwice, Admitted
    <2>12. ASSUME edits = 0 PROVE CheckedSoFar(i)
      <3>1. job.private /\ \A f \in job.found : Copies(f[1]) = {f[2]}
        BY <1>1, <2>12 DEF BindingInv, QuietInv, CheckedSoFar, Private
      <3>2. \A f \in found : Copies(f[1]) = {f[2]} BY <3>1, <2>1, <2>4
      <3> QED BY <2>10, <3>1, <3>2 DEF CheckedSoFar, Complete, Rendered, Bound, LookedOnce, LookedTwice
    <2> QED BY <1>1, <2>3, <2>8, <2>9, <2>11, <2>12, GotoStep DEF Advance, Private
  <1>7. CASE ~good
    <2>1. Fail(why) BY <1>5, <1>7
    <2>2. why # "none" OBVIOUS
    <2>3. ASSUME edits = 0, job.route = "bootstrap" PROVE ~Sound
      <3>1. Untouched BY <2>3 DEF BindingInv, QuietInv
      <3>2. Cardinality(Copies(role)) # 1 BY <1>4, <1>7, <3>1, UntouchedFacts
      <3>3. SUFFICES ASSUME Copies(role) = {job.interface.at[role]} PROVE FALSE BY <1>4 DEF Sound
      <3> QED BY <3>2, <3>3, FS_Singleton
    <2> PICK w : w = why OBVIOUS
    <2> HIDE DEF why
    <2> QED BY <1>1, <2>1, <2>2, <2>3, FailStep
  <1> QED BY <1>6, <1>7

(* Components: four were found, one of each role.                          *)
LEMMA ComponentsFoundStep == ASSUME BindingInv, ComponentsFound PROVE BindingInv'
  <1>1. job.step = "roles" /\ Cardinality(job.found) = 4 BY DEF ComponentsFound
  <1>2. Shaped(job) /\ OneComponentEach(job.found) BY DEF BindingInv, JobInv
  <1> PICK i : i = [job EXCEPT !.step = "interface"] OBVIOUS
  <1>3. Advance("interface", job) BY DEF ComponentsFound
  <1>4. i.step = "interface" /\ i.found = job.found /\ i.private = job.private BY <1>2 DEF Shaped
  <1>5. Checked(i) BY <1>4 DEF Checked, Bound, Contracted, LookedOnce, LookedTwice, Admitted
  <1>6. edits = 0 => CheckedSoFar(i)
    BY <1>1, <1>4 DEF BindingInv, QuietInv, CheckedSoFar, Private, Complete, Rendered, Bound, LookedOnce, LookedTwice
  <1> QED BY <1>1, <1>2, <1>3, <1>5, <1>6, GotoStep DEF Advance, Private, Complete

(* Interface: found in the tree, or compared with the components.          *)
LEMMA TakeInterfaceStep == ASSUME BindingInv, TakeInterface PROVE BindingInv'
  <1>1. job.step = "interface" BY DEF TakeInterface
  <1>2. Shaped(job) /\ OneComponentEach(job.found) BY DEF BindingInv, JobInv
  <1> DEFINE good == IF job.route = "bootstrap"
                     THEN /\ ~job.interface.absolute /\ job.interface.wrapper \in tree.wrappers
                          /\ \A role \in Roles : tree.copies[role][job.interface.at[role]] = "exec"
                     ELSE job.interface.absolute /\ ~tree.stray /\ InterfaceValid(job.interface, job.found)
             why == IF job.route = "legacy" /\ tree.stray THEN "path_escape" ELSE "execution_interface"
  <1>3. IF good THEN Advance("build", job) ELSE Fail(why) BY DEF TakeInterface
  <1>4. CASE good
    <2> PICK i : i = [job EXCEPT !.step = "build"] OBVIOUS
    <2>1. Advance("build", job) BY <1>3, <1>4
    <2>2. /\ i.step = "build" /\ i.found = job.found /\ i.private = job.private /\ i.route = job.route
          /\ i.interface = job.interface
      BY <1>2 DEF Shaped
    <2>3. Checked(i) BY <2>2 DEF Checked, Bound, Contracted, LookedOnce, LookedTwice, Admitted
    <2>4. job.route = "bootstrap" => ~job.interface.absolute BY <1>4
    <2> HIDE DEF good, why
    <2>5. edits = 0 => CheckedSoFar(i)
      BY <1>1, <2>2, <2>4 DEF BindingInv, QuietInv, CheckedSoFar, Private, Complete, Rendered, Bound, LookedOnce, LookedTwice
    <2> QED BY <1>1, <1>2, <2>1, <2>3, <2>5, GotoStep DEF Advance, Private, Complete, Rendered
  <1>5. CASE ~good
    <2>1. Fail(why) BY <1>3, <1>5
    <2>2. why # "none" OBVIOUS
    <2>3. ASSUME edits = 0, job.route = "bootstrap", Sound PROVE FALSE
      <3>1. Untouched BY <2>3 DEF BindingInv, QuietInv
      <3>2. ASSUME NEW role \in Roles PROVE tree.copies[role][job.interface.at[role]] = "exec"
        <4>1. job.interface.at[role] \in Copies(role) BY <2>3 DEF Sound
        <4> QED BY <4>1, <3>1, UntouchedFacts
      <3>3. ~job.interface.absolute /\ job.interface.wrapper \in tree.wrappers BY <2>3 DEF Sound
      <3> QED BY <1>5, <2>3, <3>2, <3>3
    <2> PICK w : w = why OBVIOUS
    <2> HIDE DEF why, good
    <2> QED BY <1>1, <2>1, <2>2, <2>3, FailStep
  <1> QED BY <1>4, <1>5

\* Of an untouched tree with all components, what does not pass the checks is not sound.
LEMMA InvalidIsUnsound ==
  ASSUME BindingInv, edits = 0, job.step \in Complete,
         ~(ComponentsValid(job.found) /\ InterfaceValid(job.interface, job.found) /\ IndicesValid(job.interface))
  PROVE ~Sound
  <1>1. job.interface \in Interfaces /\ OneComponentEach(job.found) BY DEF BindingInv, JobInv, Shaped
  <1>2. Untouched /\ CheckedSoFar(job) BY DEF BindingInv, QuietInv
  <1>3. Cardinality(job.found) = 4 /\ \A f \in job.found : Copies(f[1]) = {f[2]} BY <1>2 DEF CheckedSoFar
  <1> QED BY <1>1, <1>2, <1>3, SoundIsValid

(* Build: from here on components and interface are valid.                 *)
LEMMA BuildStep == ASSUME BindingInv, Build PROVE BindingInv'
  <1>1. job.step = "build" BY DEF Build
  <1>2. Shaped(job) /\ OneComponentEach(job.found) BY DEF BindingInv, JobInv
  <1> DEFINE good == ComponentsValid(job.found) /\ InterfaceValid(job.interface, job.found) /\ IndicesValid(job.interface)
  <1>3. CASE ~tree.inputs
    <2>1. Fail("local_inputs") BY <1>3 DEF Build
    <2>2. edits # 0 BY <1>3, UntouchedFacts DEF BindingInv, QuietInv
    <2> QED BY <1>1, <2>1, <2>2, FailStep
  <1>4. CASE tree.inputs /\ good
    <2> PICK i : i = [job EXCEPT !.step = "registry"] OBVIOUS
    <2>1. Advance("registry", job) BY <1>4 DEF Build
    <2>2. /\ i.step = "registry" /\ i.found = job.found /\ i.private = job.private /\ i.route = job.route
          /\ i.interface = job.interface
      BY <1>2 DEF Shaped
    <2>3. \A role \in Roles : <<role, job.interface.at[role]>> \in job.found BY <1>4 DEF InterfaceValid
    <2>4. Checked(i) BY <1>4, <2>2, <2>3 DEF Checked, Contracted, LookedOnce, LookedTwice, Admitted
    <2>5. job.interface.chain = Stages /\ job.interface.wellFormed /\ job.interface.wrapper \in tree.wrappers
      BY <1>4 DEF InterfaceValid
    <2> HIDE DEF good
    <2>6. edits = 0 => CheckedSoFar(i)
      BY <1>1, <2>2, <2>5 DEF BindingInv, QuietInv, CheckedSoFar, Private, Complete, Rendered, LookedOnce, LookedTwice
    <2> QED BY <1>1, <1>2, <2>1, <2>4, <2>6, GotoStep DEF Advance, Private, Complete, Rendered, Bound
  <1>5. CASE tree.inputs /\ ~good
    <2>1. Fail("execution_interface") BY <1>5 DEF Build
    <2>2. edits = 0 => ~Sound BY <1>1, <1>5, InvalidIsUnsound DEF Complete, Rendered
    <2> QED BY <1>1, <2>1, <2>2, FailStep
  <1> QED BY <1>3, <1>4, <1>5

(* Registry: exactly one contract is found.                                *)
LEMMA FindContractStep == ASSUME BindingInv, FindContract PROVE BindingInv'
  <1>1. job.step = "registry" BY DEF FindContract
  <1>2. Shaped(job) /\ OneComponentEach(job.found) /\ Checked(job) BY DEF BindingInv, JobInv
  <1> DEFINE candidates == {r \in Registries : tree.registry[r] \in {"v1", "v1_ambiguous", "v0"}}
             good == Cardinality(candidates) = 1 /\ \A r \in candidates : tree.registry[r] = "v1"
  <1>3. IF tree.stray THEN Fail("path_escape")
        ELSE IF good THEN Advance("first", [job EXCEPT !.contract = candidates]) ELSE Fail("source_registry")
    BY DEF FindContract
  <1>4. edits = 0 => ~tree.stray /\ good
    <2> SUFFICES ASSUME edits = 0 PROVE ~tree.stray /\ good OBVIOUS
    <2>1. Untouched BY DEF BindingInv, QuietInv
    <2>2. PICK r \in Registries : candidates = {r} /\ tree.registry[r] = "v1" BY <2>1, UntouchedFacts
    <2>3. Cardinality({r}) = 1 BY FS_Singleton
    <2> QED BY <2>1, <2>2, <2>3, UntouchedFacts
  <1>5. CASE ~tree.stray /\ good
    <2> PICK contract : contract = candidates OBVIOUS
    <2> PICK j : j = [job EXCEPT !.contract = contract] OBVIOUS
    <2> PICK i : i = [j EXCEPT !.step = "first"] OBVIOUS
    <2>1. Advance("first", j) BY <1>3, <1>5
    <2>2. Cardinality(contract) = 1 BY <1>5
    <2> HIDE DEF candidates
    <2>3. Shaped(j) /\ j.interface = job.interface /\ j.private = job.private /\ j.why = job.why /\ j.found = job.found
          /\ j.contract = contract /\ j.route = job.route
      BY <1>2 DEF Shaped
    <2>4. /\ i.step = "first" /\ i.found = job.found /\ i.private = job.private /\ i.route = job.route
          /\ i.interface = job.interface /\ i.contract = contract
      BY <2>3 DEF Shaped
    <2>5. Checked(i) BY <1>1, <1>2, <2>2, <2>4 DEF Checked, Bound, LookedOnce, LookedTwice, Admitted
    <2>6. edits = 0 => CheckedSoFar(i)
      BY <1>1, <2>4 DEF BindingInv, QuietInv, CheckedSoFar, Private, Complete, Rendered, Bound, LookedOnce, LookedTwice
    <2> QED BY <1>1, <1>2, <2>1, <2>3, <2>5, <2>6, GotoStep DEF Advance, Private, Complete, Rendered, Bound
  <1>6. CASE tree.stray BY <1>1, <1>3, <1>4, <1>6, FailStep
  <1>7. CASE ~tree.stray /\ ~good BY <1>1, <1>3, <1>4, <1>7, FailStep
  <1> QED BY <1>5, <1>6, <1>7

\* A snapshot holds one device for each index asked for.
LEMMA SnapshotLook == Look(job, Snapshot)
  <1>1. {x[1] : x \in Snapshot} = Indexed(job.interface)
    <2>1. ASSUME NEW k \in Indexed(job.interface) PROVE \E x \in Snapshot : x[1] = k
      <3>1. <<k, gpus[k]>> \in Snapshot BY DEF Snapshot
      <3>2. <<k, gpus[k]>>[1] = k OBVIOUS
      <3> QED BY <3>1, <3>2
    <2>2. ASSUME NEW x \in Snapshot PROVE x[1] \in Indexed(job.interface) BY DEF Snapshot
    <2> QED BY <2>1, <2>2
  <1>2. \A x, y \in Snapshot : x[1] = y[1] => x = y BY DEF Snapshot
  <1> QED BY <1>1, <1>2 DEF Look

(* First look: the snapshot is kept as it was taken.                       *)
LEMMA TakeFirstStep == ASSUME BindingInv, TakeFirst PROVE BindingInv'
  <1>1. job.step = "first" BY DEF TakeFirst
  <1>2. Shaped(job) /\ OneComponentEach(job.found) /\ Checked(job) BY DEF BindingInv, JobInv
  <1>3. CASE Advance("second", [job EXCEPT !.first = Snapshot])
    <2> PICK s : s = Snapshot OBVIOUS
    <2> PICK j : j = [job EXCEPT !.first = s] OBVIOUS
    <2> PICK i : i = [j EXCEPT !.step = "second"] OBVIOUS
    <2>1. Advance("second", j) BY <1>3
    <2>2. Shaped(j) /\ j.interface = job.interface /\ j.private = job.private /\ j.why = job.why /\ j.found = job.found
          /\ j.contract = job.contract /\ j.route = job.route /\ j.first = s
      BY <1>2 DEF Shaped
    <2>3. /\ i.step = "second" /\ i.found = job.found /\ i.private = job.private /\ i.route = job.route
          /\ i.interface = job.interface /\ i.contract = job.contract /\ i.first = s
      BY <2>2 DEF Shaped
    <2>4. Look(i, s) BY <2>3, SnapshotLook DEF Look
    <2>5. Checked(i) BY <1>1, <1>2, <2>3, <2>4 DEF Checked, Bound, Contracted, LookedTwice, Admitted
    <2>6. edits = 0 => CheckedSoFar(i)
      BY <1>1, <2>3 DEF BindingInv, QuietInv, CheckedSoFar, Private, Complete, Rendered, Bound, LookedTwice
    <2> QED BY <1>1, <1>2, <2>1, <2>2, <2>5, <2>6, GotoStep DEF Advance, Private, Complete, Rendered, Bound
  <1>4. CASE Fail("gpu_admission") BY <1>1, <1>4, FailStep
  <1> QED BY <1>3, <1>4 DEF TakeFirst

(* Second look: likewise.                                                  *)
LEMMA TakeSecondStep == ASSUME BindingInv, TakeSecond PROVE BindingInv'
  <1>1. job.step = "second" BY DEF TakeSecond
  <1>2. Shaped(job) /\ OneComponentEach(job.found) /\ Checked(job) BY DEF BindingInv, JobInv
  <1>3. CASE Advance("admit", [job EXCEPT !.second = Snapshot])
    <2> PICK s : s = Snapshot OBVIOUS
    <2> PICK j : j = [job EXCEPT !.second = s] OBVIOUS
    <2> PICK i : i = [j EXCEPT !.step = "admit"] OBVIOUS
    <2>1. Advance("admit", j) BY <1>3
    <2>2. Shaped(j) /\ j.interface = job.interface /\ j.private = job.private /\ j.why = job.why /\ j.found = job.found
          /\ j.contract = job.contract /\ j.route = job.route /\ j.first = job.first /\ j.second = s
      BY <1>2 DEF Shaped
    <2>3. /\ i.step = "admit" /\ i.found = job.found /\ i.private = job.private /\ i.route = job.route
          /\ i.interface = job.interface /\ i.contract = job.contract /\ i.first = job.first /\ i.second = s
      BY <2>2 DEF Shaped
    <2>4. Look(i, s) BY <2>3, SnapshotLook DEF Look
    <2>5. Look(i, i.first) BY <1>1, <1>2, <2>3 DEF Checked, Look, LookedOnce
    <2>6. Checked(i) BY <1>1, <1>2, <2>3, <2>4, <2>5 DEF Checked, Bound, Contracted, Admitted
    <2>7. edits = 0 => CheckedSoFar(i)
      BY <1>1, <2>3 DEF BindingInv, QuietInv, CheckedSoFar, Private, Complete, Rendered, Bound, LookedOnce
    <2> QED BY <1>1, <1>2, <2>1, <2>2, <2>6, <2>7, GotoStep DEF Advance, Private, Complete, Rendered, Bound
  <1>4. CASE Fail("gpu_admission") BY <1>1, <1>4, FailStep
  <1> QED BY <1>3, <1>4 DEF TakeSecond

\* The devices are admitted if both looks find them idle, and the same.
LEMMA AdmitStep == ASSUME BindingInv, Admit PROVE BindingInv'
  <1>1. job.step = "admit" BY DEF Admit
  <1>2. Shaped(job) /\ OneComponentEach(job.found) /\ Checked(job) BY DEF BindingInv, JobInv
  <1> DEFINE idle == SnapshotValid(job.first) /\ SnapshotValid(job.second)
             same == Uuids(job.first) = Uuids(job.second)
  <1>3. CASE ~idle
    <2>1. Fail("gpu_admission") BY <1>3 DEF Admit
    <2> QED BY <1>1, <2>1, FailStep
  <1>4. CASE idle /\ ~same
    <2>1. Fail("gpu_drift") BY <1>4 DEF Admit
    <2>2. edits = 0 => job.first = job.second
      BY <1>1 DEF BindingInv, QuietInv, CheckedSoFar, LookedOnce, LookedTwice
    <2>3. edits # 0 BY <1>4, <2>2
    <2> QED BY <1>1, <2>1, <2>3, FailStep
  <1>5. CASE idle /\ same
    <2>1. Advance("validate", job) BY <1>5 DEF Admit
    <2> HIDE DEF idle, same
    <2> PICK i : i = [job EXCEPT !.step = "validate"] OBVIOUS
    <2>2. /\ i.step = "validate" /\ i.found = job.found /\ i.private = job.private /\ i.route = job.route
          /\ i.interface = job.interface /\ i.contract = job.contract /\ i.first = job.first /\ i.second = job.second
      BY <1>2 DEF Shaped
    <2>3. Look(i, i.first) /\ Look(i, i.second)
      BY <1>1, <1>2, <2>2 DEF Checked, Look, LookedOnce, LookedTwice
    <2>4. Checked(i) BY <1>1, <1>2, <1>5, <2>2, <2>3 DEF Checked, Bound, Contracted, idle, same
    <2>5. edits = 0 => CheckedSoFar(i)
      BY <1>1, <2>2 DEF BindingInv, QuietInv, CheckedSoFar, Private, Complete, Rendered, Bound, LookedOnce, LookedTwice
    <2> QED BY <1>1, <1>2, <2>1, <2>4, <2>5, GotoStep DEF Advance, Private, Complete, Rendered, Bound
  <1> QED BY <1>3, <1>4, <1>5

(* Validation: the pair is checked against what was found.                 *)
LEMMA ValidatePairStep == ASSUME BindingInv, ValidatePair PROVE BindingInv'
  <1>1. job.step = "validate" BY DEF ValidatePair
  <1>2. Shaped(job) /\ OneComponentEach(job.found) /\ Checked(job) BY DEF BindingInv, JobInv
  <1> DEFINE good == ComponentsValid(job.found) /\ InterfaceValid(job.interface, job.found) /\ IndicesValid(job.interface)
  <1>3. CASE job.route = "legacy"
    <2>1. Fail("stage1_scan_unavailable") BY <1>3 DEF ValidatePair
    <2> QED BY <1>1, <1>3, <2>1, FailStep
  <1>4. CASE job.route # "legacy" /\ good
    <2> PICK i : i = [job EXCEPT !.step = "write"] OBVIOUS
    <2>1. Advance("write", job) BY <1>4 DEF ValidatePair
    <2>2. job.route = "bootstrap" BY <1>2, <1>4 DEF Shaped
    <2> HIDE DEF good
    <2>3. /\ i.step = "write" /\ i.found = job.found /\ i.private = job.private /\ i.route = job.route
          /\ i.interface = job.interface /\ i.contract = job.contract /\ i.first = job.first /\ i.second = job.second
      BY <1>2 DEF Shaped
    <2>4. Look(i, i.first) /\ Look(i, i.second)
      BY <1>1, <1>2, <2>3 DEF Checked, Look, LookedOnce, LookedTwice
    <2>5. Checked(i) BY <1>1, <1>2, <2>3, <2>4 DEF Checked, Bound, Contracted, Admitted
    <2>6. edits = 0 => CheckedSoFar(i)
      BY <1>1, <2>2, <2>3 DEF BindingInv, QuietInv, CheckedSoFar, Private, Complete, Rendered, Bound, LookedOnce, LookedTwice
    <2> QED BY <1>1, <1>2, <2>1, <2>5, <2>6, GotoStep DEF Advance, Private, Complete, Rendered, Bound
  <1>5. CASE job.route # "legacy" /\ ~good
    <2>1. Fail("execution_interface") BY <1>5 DEF ValidatePair
    <2>2. edits = 0 => ~Sound BY <1>1, <1>5, InvalidIsUnsound DEF Complete, Rendered, Bound
    <2> QED BY <1>1, <2>1, <2>2, FailStep
  <1> QED BY <1>3, <1>4, <1>5

(* Write: the binding is made of what was checked.                         *)
LEMMA WritePairStep == ASSUME BindingInv, WritePair PROVE BindingInv'
  <1>1. job.step = "write" BY DEF WritePair
  <1>2. Shaped(job) /\ OneComponentEach(job.found) /\ Checked(job) BY DEF BindingInv, JobInv
  <1>3. CASE Fail("persistence") BY <1>1, <1>3, FailStep
  <1>4. ASSUME pair' = {Binding}, job' = [job EXCEPT !.step = "written"], UNCHANGED <<tree, gpus, edits>>
        PROVE BindingInv'
    <2> PICK i : i = [job EXCEPT !.step = "written"] OBVIOUS
    <2>1. job' = i BY <1>4
    <2>2. /\ i.step = "written" /\ i.found = job.found /\ i.private = job.private /\ i.route = job.route
          /\ i.interface = job.interface /\ i.contract = job.contract /\ i.first = job.first /\ i.second = job.second
          /\ i.why = job.why
      BY <1>2 DEF Shaped
    <2>3. Look(i, i.first) /\ Look(i, i.second)
      BY <1>1, <1>2, <2>2 DEF Checked, Look, LookedOnce, LookedTwice
    <2>4. Checked(i) BY <1>1, <1>2, <2>2, <2>3 DEF Checked, Bound, Contracted, Admitted
    <2>5. Shaped(i) BY <1>1, <1>2, <2>2 DEF Shaped, Steps, Private, Complete, Rendered, Bound
    <2>6. edits = 0 => CheckedSoFar(i)
      BY <1>1, <2>2 DEF BindingInv, QuietInv, CheckedSoFar, Private, Complete, Rendered, Bound, LookedOnce, LookedTwice
    <2>7. edits = 0 => QuietInv(i) BY <2>2, <2>6 DEF BindingInv, QuietInv, Refused
    <2>8. JobInv(i) BY <1>2, <2>2, <2>4, <2>5 DEF JobInv
    <2>9. Binding' = Binding BY <2>1, <2>2 DEF Binding, Uuids
    <2> QED BY <1>1, <1>4, <2>1, <2>2, <2>7, <2>8, <2>9, JobStep
  <1> QED BY <1>3, <1>4 DEF WritePair

\* After a change nothing is promised but what was looked at.
LEMMA EditStep == ASSUME BindingInv, Edit PROVE BindingInv'
  <1>1. edits < Edits /\ edits' = edits + 1 /\ UNCHANGED <<job, pair>> BY DEF Edit
  <1>2. edits' \in 0 .. Edits /\ edits' # 0 BY <1>1, BoundAssumption DEF BindingInv
  <1>3. JobInv(job)'
    <2> PICK j : j = job OBVIOUS
    <2>1. JobInv(j) BY DEF BindingInv
    <2>2. JobInv(j)' BY <2>1, JobInvIsRigid
    <2> QED BY <2>2, <1>1
  <1>4. Binding' = Binding BY <1>1 DEF Binding, Uuids
  <1>5. pair' = {} \/ (job'.step = "written" /\ pair' = {Binding'}) BY <1>1, <1>4 DEF BindingInv
  <1> QED BY <1>2, <1>3, <1>5 DEF BindingInv

(* A stutter changes nothing the invariant reads.                          *)
LEMMA StutterStep == ASSUME BindingInv, UNCHANGED bindingVars PROVE BindingInv'
  <1>1. UNCHANGED <<tree, gpus, job, pair, edits>> BY DEF bindingVars
  <1>2. JobInv(job)'
    <2> PICK j : j = job OBVIOUS
    <2>1. JobInv(j) BY DEF BindingInv
    <2>2. JobInv(j)' BY <2>1, JobInvIsRigid
    <2> QED BY <2>2, <1>1
  <1>3. Binding' = Binding BY <1>1 DEF Binding, Uuids
  <1>4. Snapshot' = Snapshot BY <1>1 DEF Snapshot, Indexed
  <1>5. \A r : Copies(r)' = Copies(r) BY <1>1 DEF Copies
  <1>6. Sound' = Sound BY <1>1, <1>5 DEF Sound
  <1>7. Untouched' = Untouched BY <1>1 DEF Untouched
  <1>8. CheckedSoFar(job) => CheckedSoFar(job)' BY <1>1, <1>4, <1>5 DEF CheckedSoFar
  <1>9. QuietInv(job) => QuietInv(job)' BY <1>1, <1>6, <1>7, <1>8 DEF QuietInv, Refused
  <1> QED BY <1>1, <1>2, <1>3, <1>9 DEF BindingInv

(* A provisioning starts with nothing found.                               *)
LEMMA BindingStart == BindingInit => BindingInv
  <1> SUFFICES ASSUME BindingInit PROVE BindingInv OBVIOUS
  <1>1. PICK route \in {"bootstrap", "legacy"}, i \in Interfaces, private \in BOOLEAN :
          job = [route |-> route, interface |-> i, private |-> private, step |-> "destinations",
                 found |-> {}, contract |-> {}, first |-> {}, second |-> {}, why |-> "none"]
    BY DEF BindingInit
  <1>2. job.step = "destinations" /\ job.found = {} /\ job.why = "none" BY <1>1
  <1>3. Shaped(job) BY <1>1 DEF Shaped, Steps
  <1>4. OneComponentEach(job.found)
    <2>1. IsFiniteSet({}) /\ Cardinality({}) = 0 BY FS_EmptySet
    <2> QED BY <1>2, <2>1 DEF OneComponentEach
  <1>5. Checked(job) BY <1>2 DEF Checked, Bound, Contracted, LookedOnce, LookedTwice, Admitted
  <1>6. CheckedSoFar(job)
    BY <1>2 DEF CheckedSoFar, Private, Complete, Rendered, Bound, LookedOnce, LookedTwice
  <1>7. Untouched BY DEF BindingInit, Untouched
  <1>8. Refused(job) BY <1>2 DEF Refused
  <1>9. edits \in 0 .. Edits /\ pair = {} BY BoundAssumption DEF BindingInit
  <1> QED BY <1>3, <1>4, <1>5, <1>6, <1>7, <1>8, <1>9 DEF BindingInv, JobInv, QuietInv

(* One step of the provisioning or of an editor, or a stutter.             *)
LEMMA StepInv == BindingInv /\ [BindingNext]_bindingVars => BindingInv'
  <1> SUFFICES ASSUME BindingInv, [BindingNext]_bindingVars PROVE BindingInv' OBVIOUS
  <1>1. CASE Provision
    BY <1>1, CheckDestinationsStep, LocateInputsStep, FindComponentStep, ComponentsFoundStep, TakeInterfaceStep,
       BuildStep, FindContractStep, TakeFirstStep, TakeSecondStep, AdmitStep, ValidatePairStep, WritePairStep
       DEF Provision
  <1> QED BY <1>1, EditStep, StutterStep DEF BindingNext

\* The inductive invariant of a provisioning, for every tree and any number of changes to it.
THEOREM BindingInvariance == BindingSpec => []BindingInv
  <1>1. BindingInit => BindingInv BY BindingStart
  <1>2. BindingInv /\ [BindingNext]_bindingVars => BindingInv' BY StepInv
  <1> QED BY <1>1, <1>2, PTL DEF BindingSpec

----------------------------------------------------------------------------
(* What follows from it *)

\* BindingTypeOK: a step, a failure and a binding of the kinds the code has.
THEOREM BindingTypeCorrect == BindingSpec => []BindingTypeOK
  <1>1. BindingInv => BindingTypeOK
    <2> SUFFICES ASSUME BindingInv PROVE BindingTypeOK OBVIOUS
    <2>1. Shaped(job) /\ OneComponentEach(job.found) BY DEF BindingInv, JobInv
    <2>2. job.step \in {Order[k] : k \in DOMAIN Order} \cup {"failed"}
      <3>1. DOMAIN Order = 1 .. 12 BY DEF Order
      <3>2. /\ Order[1] = "destinations" /\ Order[2] = "inputs" /\ Order[3] = "roles" /\ Order[4] = "interface"
            /\ Order[5] = "build" /\ Order[6] = "registry" /\ Order[7] = "first" /\ Order[8] = "second"
            /\ Order[9] = "admit" /\ Order[10] = "validate" /\ Order[11] = "write" /\ Order[12] = "written"
        BY DEF Order
      <3>3. \A k \in 1 .. 12 : Order[k] \in {Order[n] : n \in DOMAIN Order} BY <3>1
      <3>4. job.step \in {Order[1], Order[2], Order[3], Order[4], Order[5], Order[6], Order[7], Order[8], Order[9],
                          Order[10], Order[11], Order[12], "failed"}
        BY <2>1, <3>2 DEF Shaped, Steps, Private, Complete, Rendered, Bound
      <3> QED BY <3>3, <3>4
    <2>3. (job.step = "failed") = (job.why # "none") BY <2>1 DEF Shaped
    <2>4. \A f \in job.found : f \in Roles \X Paths
      <3> SUFFICES ASSUME NEW f \in job.found PROVE f \in Roles \X Paths OBVIOUS
      <3>1. PICK k \in 1 .. Cardinality(job.found) : \E p \in Paths : f = <<RoleOrder[k], p>>
        BY <2>1 DEF OneComponentEach, Numbered
      <3>2. k \in 1 .. 4 BY <2>1, <3>1 DEF OneComponentEach
      <3> QED BY <3>1, <3>2, RolesAreFour
    <2>5. Cardinality(pair) <= 1
      <3>1. Cardinality({}) = 0 /\ \A b : Cardinality({b}) = 1 BY FS_EmptySet, FS_Singleton
      <3>2. pair = {} \/ pair = {Binding} BY DEF BindingInv
      <3>3. CASE pair = {} BY <3>1, <3>3
      <3>4. CASE pair = {Binding}
        <4>1. Cardinality(pair) = 1 BY <3>1, <3>4
        <4> QED BY <4>1
      <3> QED BY <3>2, <3>3, <3>4
    <2> QED BY <2>2, <2>3, <2>4, <2>5 DEF BindingInv, BindingTypeOK
  <1> QED BY <1>1, BindingInvariance, PTL

\* While nobody changes anything: what is bound is sound, and what is refused is not.
LEMMA BoundIsSound == ASSUME BindingInv PROVE OnlyTheSoundIsBound
  <1> SUFFICES ASSUME edits = 0 PROVE /\ pair # {} => Sound /\ job.route = "bootstrap"
                                      /\ Refused(job)
    BY DEF OnlyTheSoundIsBound, Refused
  <1>1. CheckedSoFar(job) /\ Refused(job) /\ Shaped(job) /\ Checked(job) BY DEF BindingInv, QuietInv, JobInv
  <1>2. ASSUME pair # {} PROVE Sound /\ job.route = "bootstrap"
    <2>1. job.step = "written" BY <1>2 DEF BindingInv
    <2>2. job.route = "bootstrap" BY <1>1, <2>1 DEF CheckedSoFar
    <2>3. job.private BY <1>1, <2>1 DEF CheckedSoFar, Private, Complete, Rendered, Bound
    <2>4. ~job.interface.absolute BY <1>1, <2>1, <2>2 DEF CheckedSoFar, Rendered, Bound
    <2>5. job.interface.chain = Stages /\ job.interface.wellFormed /\ job.interface.wrapper \in tree.wrappers
      BY <1>1, <2>1 DEF CheckedSoFar, Bound
    <2>6. IndicesValid(job.interface) /\ \A role \in Roles : <<role, job.interface.at[role]>> \in job.found
      BY <1>1, <2>1 DEF Checked, Bound
    <2>7. ASSUME NEW role \in Roles PROVE Copies(role) = {job.interface.at[role]}
      <3>1. PICK f \in job.found : f = <<role, job.interface.at[role]>> BY <2>6
      <3>2. Copies(f[1]) = {f[2]} BY <1>1 DEF CheckedSoFar
      <3>3. f[1] = role /\ f[2] = job.interface.at[role] BY <3>1
      <3> QED BY <3>2, <3>3
    <2>8. \E x, y, z \in Indices : x < y /\ y < z /\ job.interface.gpus = <<x, y, z>>
      BY <1>1, <2>6, ThreeIndices DEF Shaped
    <2> QED BY <2>2, <2>3, <2>4, <2>5, <2>7, <2>8 DEF Sound
  <1> QED BY <1>1, <1>2

\* Whatever others change: one component of each role, and one registry.
LEMMA BoundIsOneOfEach == ASSUME BindingInv PROVE OneOfEach
  <1> SUFFICES ASSUME pair # {} PROVE OneOfEach BY DEF OneOfEach
  <1>1. job.step = "written" /\ pair = {Binding} BY DEF BindingInv
  <1>2. OneComponentEach(job.found) /\ Checked(job) BY DEF BindingInv, JobInv
  <1>3. Binding.found = job.found /\ Binding.interface = job.interface /\ Binding.contract = job.contract
    BY DEF Binding
  <1>4. ASSUME NEW role \in Roles PROVE {f[2] : f \in {g \in job.found : g[1] = role}} = {job.interface.at[role]}
    <2>1. <<role, job.interface.at[role]>> \in job.found BY <1>1, <1>2 DEF Checked, Bound
    <2>2. PICK f \in job.found : f[1] = role /\ f[2] = job.interface.at[role]
      <3>1. <<role, job.interface.at[role]>>[1] = role /\ <<role, job.interface.at[role]>>[2] = job.interface.at[role]
        OBVIOUS
      <3> QED BY <2>1, <3>1
    <2>3. {g \in job.found : g[1] = role} = {f} BY <1>2, <2>2 DEF OneComponentEach
    <2> QED BY <2>2, <2>3
  <1>5. Cardinality(job.contract) = 1 BY <1>1, <1>2 DEF Checked, Contracted
  <1> QED BY <1>1, <1>3, <1>4, <1>5 DEF OneOfEach

(* Three different elements are three.                                     *)
LEMMA ThreeElements ==
  \A t, u, v, w : t = {u, v, w} /\ u # v /\ v # w /\ u # w => Cardinality(t) = 3
  <1> SUFFICES ASSUME NEW t, NEW u, NEW v, NEW w, t = {u, v, w}, u # v, v # w, u # w
               PROVE  Cardinality(t) = 3
    OBVIOUS
  <1> PICK one : one = {u} OBVIOUS
  <1> PICK two : two = one \cup {v} OBVIOUS
  <1>1. IsFiniteSet(one) /\ Cardinality(one) = 1 /\ v \notin one BY FS_Singleton
  <1>2. IsFiniteSet(two) /\ Cardinality(two) = Cardinality(one) + 1 BY <1>1, FS_AddElement
  <1>3. w \notin two OBVIOUS
  <1>4. Cardinality(two \cup {w}) = Cardinality(two) + 1 BY <1>2, <1>3, FS_AddElement
  <1>5. two \cup {w} = t OBVIOUS
  <1> QED BY <1>1, <1>2, <1>4, <1>5

\* Three indices that two valid looks hold are three devices.
LEMMA LookedAtThree ==
  ASSUME NEW j, j.interface \in Interfaces, IndicesValid(j.interface),
         NEW s, Look(j, s), SnapshotValid(s)
  PROVE Cardinality({x[2] : x \in Uuids(s)}) = 3
  <1>1. PICK a, b, c \in Indices : a < b /\ b < c /\ j.interface.gpus = <<a, b, c>> BY ThreeIndices
  <1>2. a # b /\ b # c /\ a # c BY <1>1 DEF Indices
  <1>3. Indexed(j.interface) = {a, b, c}
    <2> DEFINE t == <<a, b, c>>
    <2>1. DOMAIN t = {1, 2, 3} /\ t[1] = a /\ t[2] = b /\ t[3] = c OBVIOUS
    <2>2. {t[k] : k \in DOMAIN t} = {a, b, c} BY <2>1
    <2> QED BY <1>1, <2>2 DEF Indexed
  <1>4. PICK xa, xb, xc \in s : xa[1] = a /\ xb[1] = b /\ xc[1] = c
    <2>1. {x[1] : x \in s} = {a, b, c} BY <1>3 DEF Look
    <2>2. a \in {x[1] : x \in s} /\ b \in {x[1] : x \in s} /\ c \in {x[1] : x \in s} BY <2>1
    <2> QED BY <2>2
  <1>5. s = {xa, xb, xc}
    <2> SUFFICES ASSUME NEW x \in s PROVE x \in {xa, xb, xc} OBVIOUS
    <2>1. x[1] \in {a, b, c} BY <1>3 DEF Look
    <2> QED BY <1>4, <2>1 DEF Look
  <1>6. xa # xb /\ xb # xc /\ xa # xc BY <1>2, <1>4
  <1>7. xa[2].uuid # xb[2].uuid /\ xb[2].uuid # xc[2].uuid /\ xa[2].uuid # xc[2].uuid BY <1>6 DEF SnapshotValid
  <1>8. \A u : u \in {x[2] : x \in Uuids(s)} <=> \E x \in s : u = x[2].uuid
    <2>1. ASSUME NEW x \in s PROVE x[2].uuid \in {y[2] : y \in Uuids(s)}
      <3>1. <<x[1], x[2].uuid>> \in Uuids(s) BY DEF Uuids
      <3>2. <<x[1], x[2].uuid>>[2] = x[2].uuid OBVIOUS
      <3> QED BY <3>1, <3>2
    <2>2. ASSUME NEW y \in Uuids(s) PROVE \E x \in s : y[2] = x[2].uuid BY DEF Uuids
    <2> QED BY <2>1, <2>2
  <1>9. {x[2] : x \in Uuids(s)} = {xa[2].uuid, xb[2].uuid, xc[2].uuid} BY <1>5, <1>8
  <1>10. PICK t, u, v, w : t = {x[2] : x \in Uuids(s)} /\ u = xa[2].uuid /\ v = xb[2].uuid /\ w = xc[2].uuid
    OBVIOUS
  <1>11. u # v /\ v # w /\ u # w BY <1>7, <1>10
  <1>12. t = {u, v, w} BY <1>9, <1>10
  <1>13. Cardinality(t) = 3 BY <1>11, <1>12, ThreeElements
  <1> QED BY <1>10, <1>13

\* Whatever others change: three different devices, the same and idle in both looks.
LEMMA BoundIsSeenTwice == ASSUME BindingInv PROVE DevicesSeenTwice
  <1> SUFFICES ASSUME pair # {} PROVE DevicesSeenTwice BY DEF DevicesSeenTwice
  <1>1. job.step = "written" /\ pair = {Binding} BY DEF BindingInv
  <1>2. Checked(job) /\ job.interface \in Interfaces BY DEF BindingInv, JobInv, Shaped
  <1>3. Binding.uuids = Uuids(job.first) BY DEF Binding
  <1>4. /\ IndicesValid(job.interface) /\ Look(job, job.first)
        /\ SnapshotValid(job.first) /\ SnapshotValid(job.second) /\ Uuids(job.first) = Uuids(job.second)
    BY <1>1, <1>2 DEF Checked, Bound, LookedOnce, Admitted
  <1>5. Cardinality({x[2] : x \in Binding.uuids}) = 3 BY <1>2, <1>3, <1>4, LookedAtThree
  <1>6. ASSUME NEW s, SnapshotValid(s) PROVE {<<x[1], x[2].uuid>> : x \in {y \in s : y[2].idle}} = Uuids(s)
    <2>1. {y \in s : y[2].idle} = s BY <1>6 DEF SnapshotValid
    <2> QED BY <2>1 DEF Uuids
  <1> QED BY <1>1, <1>3, <1>4, <1>5, <1>6 DEF DevicesSeenTwice

\* WhatIsBoundWasSound: while nobody changes the tree, the bootstrap binds exactly the sound
\* histories; whatever others change, a binding names one component of each role, one registry and
\* three devices that were idle and the same in two looks.
THEOREM BoundWasSound == BindingSpec => []WhatIsBoundWasSound
  <1>1. BindingInv => WhatIsBoundWasSound
    BY BoundIsSound, BoundIsOneOfEach, BoundIsSeenTwice DEF WhatIsBoundWasSound
  <1> QED BY <1>1, BindingInvariance, PTL

----------------------------------------------------------------------------
(* BindingPair: the two files *)

(* A step of one writer. *)
Step(w) ==
    \/ Capture(w) \/ Stage(w) \/ Replace(w) \/ Clean(w)
    \/ Prevalidate(w) \/ Compare(w) \/ Restore(w) \/ Sync(w) \/ Crash(w)

(* Only one writer is at work. *)
Alone == \A v, w \in Writers : ~Over(v) /\ ~Over(w) => v = w

All(w) == [f \in Files |-> w]
(* Between the two renames, and until that is undone. *)
Half(w) == pc[w] \in {"compare", "restore"} \/ (pc[w] = "replace" /\ next[w] = 2)
(* Both payloads are captured and may be put back. *)
Captured(w) == pc[w] \in {"stage", "replace", "compare", "restore"}

(* How the files differ from what a writer captured, at each of its steps. *)
WriterInv(w) ==
    /\ pc[w] = "capture" /\ next[w] = 2 => original[w]["binding"] = file["binding"]
    /\ Captured(w) /\ ~Half(w) => original[w] = file
    /\ Half(w) => file["binding"] = w /\ file["config"] = original[w]["config"]
    /\ pc[w] = "sync" => file = All(w)
    /\ pc[w] = "clean" =>
          /\ result[w] \in {"ok", "persistence"}
          /\ result[w] = "ok" => file = All(w)
          /\ result[w] = "persistence" /\ "restore" \notin faults =>
                file \in {original[w], All(w)}
    /\ pc[w] \notin {"clean", "over"} => result[w] = "none"

(* As long as nobody dies and every compensation works, both files belong  *)
(* together except between two renames, and so do those captured.          *)
Calm == "restore" \notin faults /\ \A v \in Writers : result[v] # "crashed"
CalmInv ==
    Calm => /\ (\A w \in Writers : ~Half(w)) => file["binding"] = file["config"]
            /\ \A w \in Writers : Captured(w) =>
                  original[w]["binding"] = original[w]["config"]

(* What may be put back is not half of a success either. *)
WholeInv ==
    /\ SuccessIsWhole
    /\ \A v, w \in Writers : Captured(v) /\ result[w] = "ok" /\ original[v]["binding"] = w =>
          original[v]["config"] = w

(* The temporaries a writer can have, at each of its steps. *)
StagedOf(w) ==
    /\ Over(w) /\ result[w] # "crashed" /\ "unlink" \notin faults =>
          \A f \in Files : w \notin staged[f]
    /\ pc[w] \in {"new", "capture"} => \A f \in Files : w \notin staged[f]
    /\ pc[w] = "clean" /\ next[w] = 2 /\ "unlink" \notin faults => w \notin staged["binding"]

TurnsInv == Alone /\ (\A w \in Writers : WriterInv(w)) /\ CalmInv /\ WholeInv

-----------------------------------------------------------------------------
(* The pair has two members, binding first.                                *)
LEMMA PairFacts ==
    /\ Len(Pair) = 2 /\ Len(Pair)' = 2
    /\ Pair[1] = "binding" /\ Pair[2] = "config" /\ 1 .. 2 = {1, 2}
  BY DEF Pair

(* A turn of a loop handles the binding first and the configuration last.  *)
LEMMA LoopCases ==
  ASSUME TypeOK, NEW w \in Writers, NEW label, NEW after, Loop(w, label, after)
  PROVE  \/ /\ next[w] = 1 /\ Pair[next[w]] = "binding"
            /\ pc' = [pc EXCEPT ![w] = label] /\ next' = [next EXCEPT ![w] = 2]
         \/ /\ next[w] = 2 /\ Pair[next[w]] = "config"
            /\ pc' = [pc EXCEPT ![w] = after] /\ next' = [next EXCEPT ![w] = 1]
  <1>1. next[w] \in {1, 2}
    BY PairFacts DEF TypeOK
  <1>2. QED
    BY <1>1, PairFacts DEF Loop, Goto

(* The outcomes of the four loops, turn by turn. *)
LEMMA CaptureCases ==
  ASSUME TypeOK, NEW w \in Writers, Capture(w)
  PROVE  /\ pc[w] = "capture" /\ UNCHANGED <<file, staged>>
         /\ \/ /\ next[w] = 1 /\ UNCHANGED result
               /\ original' = [original EXCEPT ![w]["binding"] = file["binding"]]
               /\ pc' = [pc EXCEPT ![w] = "capture"] /\ next' = [next EXCEPT ![w] = 2]
            \/ /\ next[w] = 2 /\ UNCHANGED result
               /\ original' = [original EXCEPT ![w]["config"] = file["config"]]
               /\ pc' = [pc EXCEPT ![w] = "stage"] /\ next' = [next EXCEPT ![w] = 1]
            \/ /\ UNCHANGED original
               /\ pc' = [pc EXCEPT ![w] = "over"] /\ next' = [next EXCEPT ![w] = 1]
               /\ result' = [result EXCEPT ![w] = "unsafe_destination"]
  <1>1. CASE Loop(w, "capture", "stage") /\ UNCHANGED result
             /\ original' = [original EXCEPT ![w][Pair[next[w]]] = file[Pair[next[w]]]]
    <2>1. \/ /\ next[w] = 1 /\ Pair[next[w]] = "binding"
             /\ pc' = [pc EXCEPT ![w] = "capture"] /\ next' = [next EXCEPT ![w] = 2]
          \/ /\ next[w] = 2 /\ Pair[next[w]] = "config"
             /\ pc' = [pc EXCEPT ![w] = "stage"] /\ next' = [next EXCEPT ![w] = 1]
      BY <1>1, LoopCases
    <2>2. QED
      BY <1>1, <2>1 DEF Capture
  <1>2. CASE UNCHANGED original
             /\ Goto(w, "over", 1) /\ result' = [result EXCEPT ![w] = "unsafe_destination"]
    BY <1>2 DEF Capture, Goto
  <1>3. QED
    BY <1>1, <1>2 DEF Capture

(* Both members are staged, and a failure goes to the cleaning.            *)
LEMMA StageCases ==
  ASSUME TypeOK, NEW w \in Writers, Stage(w)
  PROVE  /\ pc[w] = "stage" /\ UNCHANGED <<original, file>>
         /\ \/ /\ next[w] = 1 /\ UNCHANGED result
               /\ staged' = [staged EXCEPT !["binding"] = @ \cup {w}]
               /\ pc' = [pc EXCEPT ![w] = "stage"] /\ next' = [next EXCEPT ![w] = 2]
            \/ /\ next[w] = 2 /\ UNCHANGED result
               /\ staged' = [staged EXCEPT !["config"] = @ \cup {w}]
               /\ pc' = [pc EXCEPT ![w] = "replace"] /\ next' = [next EXCEPT ![w] = 1]
            \/ /\ UNCHANGED staged
               /\ pc' = [pc EXCEPT ![w] = "clean"] /\ next' = [next EXCEPT ![w] = 1]
               /\ result' = [result EXCEPT ![w] = "persistence"]
  <1>1. CASE Loop(w, "stage", "replace") /\ UNCHANGED result
             /\ staged' = [staged EXCEPT ![Pair[next[w]]] = @ \cup {w}]
    <2>1. \/ /\ next[w] = 1 /\ Pair[next[w]] = "binding"
             /\ pc' = [pc EXCEPT ![w] = "stage"] /\ next' = [next EXCEPT ![w] = 2]
          \/ /\ next[w] = 2 /\ Pair[next[w]] = "config"
             /\ pc' = [pc EXCEPT ![w] = "replace"] /\ next' = [next EXCEPT ![w] = 1]
      BY <1>1, LoopCases
    <2>2. QED
      BY <1>1, <2>1 DEF Stage
  <1>2. CASE Leave(w, "persistence") /\ UNCHANGED staged
    BY <1>2 DEF Stage, Leave, Goto
  <1>3. QED
    BY <1>1, <1>2 DEF Stage

(* A failure of the second replacement leads to the comparison.            *)
LEMMA ReplaceCases ==
  ASSUME TypeOK, NEW w \in Writers, Replace(w)
  PROVE  /\ pc[w] = "replace" /\ UNCHANGED original
         /\ \/ /\ next[w] = 1 /\ UNCHANGED result
               /\ file' = [file EXCEPT !["binding"] = w]
               /\ staged' = [staged EXCEPT !["binding"] = @ \ {w}]
               /\ pc' = [pc EXCEPT ![w] = "replace"] /\ next' = [next EXCEPT ![w] = 2]
            \/ /\ next[w] = 2 /\ UNCHANGED result
               /\ file' = [file EXCEPT !["config"] = w]
               /\ staged' = [staged EXCEPT !["config"] = @ \ {w}]
               /\ pc' = [pc EXCEPT ![w] = "sync"] /\ next' = [next EXCEPT ![w] = 1]
            \/ /\ next[w] = 1 /\ UNCHANGED <<file, staged>>
               /\ pc' = [pc EXCEPT ![w] = "clean"] /\ next' = [next EXCEPT ![w] = 1]
               /\ result' = [result EXCEPT ![w] = "persistence"]
            \/ /\ next[w] = 2 /\ UNCHANGED <<file, staged, result>>
               /\ pc' = [pc EXCEPT ![w] = "compare"] /\ next' = [next EXCEPT ![w] = 1]
  <1>1. CASE Loop(w, "replace", "sync") /\ UNCHANGED result
             /\ file' = [file EXCEPT ![Pair[next[w]]] = w]
             /\ staged' = [staged EXCEPT ![Pair[next[w]]] = @ \ {w}]
    <2>1. \/ /\ next[w] = 1 /\ Pair[next[w]] = "binding"
             /\ pc' = [pc EXCEPT ![w] = "replace"] /\ next' = [next EXCEPT ![w] = 2]
          \/ /\ next[w] = 2 /\ Pair[next[w]] = "config"
             /\ pc' = [pc EXCEPT ![w] = "sync"] /\ next' = [next EXCEPT ![w] = 1]
      BY <1>1, LoopCases
    <2>2. QED
      BY <1>1, <2>1 DEF Replace
  <1>2. CASE /\ UNCHANGED <<file, staged>>
             /\ IF next[w] = 1 THEN Leave(w, "persistence")
                               ELSE Goto(w, "compare", 1) /\ UNCHANGED result
    <2>1. next[w] \in {1, 2}
      BY PairFacts DEF TypeOK
    <2>2. QED
      BY <1>2, <2>1 DEF Replace, Leave, Goto
  <1>3. QED
    BY <1>1, <1>2 DEF Replace

(* Cleaning ends the work, whether or not a file resists.                  *)
LEMMA CleanCases ==
  ASSUME TypeOK, NEW w \in Writers, Clean(w)
  PROVE  /\ pc[w] = "clean" /\ UNCHANGED <<original, file, result>>
         /\ \/ /\ next[w] = 1
               /\ pc' = [pc EXCEPT ![w] = "clean"] /\ next' = [next EXCEPT ![w] = 2]
               /\ \/ staged' = [staged EXCEPT !["binding"] = @ \ {w}]
                  \/ "unlink" \in faults /\ UNCHANGED staged
            \/ /\ next[w] = 2
               /\ pc' = [pc EXCEPT ![w] = "over"] /\ next' = [next EXCEPT ![w] = 1]
               /\ \/ staged' = [staged EXCEPT !["config"] = @ \ {w}]
                  \/ "unlink" \in faults /\ UNCHANGED staged
  <1>1. Loop(w, "clean", "over")
    BY DEF Clean
  <1>2. QED
    BY <1>1, LoopCases DEF Clean

(* The steps outside the loops. *)
LEMMA OtherCases ==
  ASSUME TypeOK, NEW w \in Writers,
         Prevalidate(w) \/ Compare(w) \/ Restore(w) \/ Sync(w) \/ Crash(w)
  PROVE  /\ next' = [next EXCEPT ![w] = 1] /\ UNCHANGED <<original, staged>>
         /\ \/ /\ pc[w] = "new" /\ pc' = [pc EXCEPT ![w] = "capture"]
               /\ UNCHANGED <<file, result>>
            \/ /\ pc[w] = "new" /\ pc' = [pc EXCEPT ![w] = "over"] /\ UNCHANGED file
               /\ result' = [result EXCEPT ![w] = "unsafe_destination"]
            \/ /\ pc[w] = "compare" /\ pc' = [pc EXCEPT ![w] = "restore"]
               /\ UNCHANGED <<file, result>>
            \/ /\ pc[w] = "compare" /\ pc' = [pc EXCEPT ![w] = "clean"] /\ UNCHANGED file
               /\ file["binding"] # w /\ result' = [result EXCEPT ![w] = "persistence"]
            \/ /\ pc[w] = "restore" /\ pc' = [pc EXCEPT ![w] = "clean"]
               /\ \/ file' = [file EXCEPT !["binding"] = original[w]["binding"]]
                  \/ "restore" \in faults /\ UNCHANGED file
               /\ result' = [result EXCEPT ![w] = "persistence"]
            \/ /\ pc[w] = "sync" /\ pc' = [pc EXCEPT ![w] = "clean"] /\ UNCHANGED file
               /\ \/ result' = [result EXCEPT ![w] = "ok"]
                  \/ result' = [result EXCEPT ![w] = "persistence"]
            \/ /\ ~Over(w) /\ pc' = [pc EXCEPT ![w] = "over"] /\ UNCHANGED file
               /\ result' = [result EXCEPT ![w] = "crashed"]
  <1>1. CASE Prevalidate(w)
    BY <1>1 DEF Prevalidate, Goto
  <1>2. CASE Compare(w)
    BY <1>2 DEF Compare, Goto, Leave
  <1>3. CASE Restore(w)
    BY <1>3 DEF Restore, Goto, Leave
  <1>4. CASE Sync(w)
    BY <1>4 DEF Sync, Goto, Leave
  <1>5. CASE Crash(w)
    BY <1>5 DEF Crash, Goto
  <1>6. QED
    BY <1>1, <1>2, <1>3, <1>4, <1>5

-----------------------------------------------------------------------------
(* Types, step by step of one writer.                                      *)
LEMMA StepTypeOK ==
  ASSUME TypeOK, NEW w \in Writers, Step(w), faults' = faults
  PROVE  TypeOK'
  <1>1. /\ \E step \in {"capture", "stage", "replace", "compare", "restore", "sync",
                        "clean", "over"} : pc' = [pc EXCEPT ![w] = step]
        /\ \E k \in {1, 2} : next' = [next EXCEPT ![w] = k]
        /\ \/ result' = result
           \/ \E r \in {"ok", "unsafe_destination", "persistence", "crashed"} :
                 result' = [result EXCEPT ![w] = r]
    BY CaptureCases, StageCases, ReplaceCases, CleanCases, OtherCases DEF Step
  <1>2. original' \in [Writers -> [Files -> Payloads]]
    <2>1. \A f \in {"binding", "config"} :
             [original EXCEPT ![w][f] = file[f]] \in [Writers -> [Files -> Payloads]]
      BY DEF TypeOK, Files
    <2>2. \/ original' = original
          \/ original' = [original EXCEPT ![w]["binding"] = file["binding"]]
          \/ original' = [original EXCEPT ![w]["config"] = file["config"]]
      BY CaptureCases, StageCases, ReplaceCases, CleanCases, OtherCases DEF Step
    <2>3. QED
      BY <2>1, <2>2 DEF TypeOK
  <1>3. \/ file' = file
        \/ \E f \in Files, p \in Writers \cup {original[w]["binding"]} :
              file' = [file EXCEPT ![f] = p]
    BY CaptureCases, StageCases, ReplaceCases, CleanCases, OtherCases DEF Step, Files
  <1>4. \/ staged' = staged
        \/ \E f \in Files : \/ staged' = [staged EXCEPT ![f] = @ \cup {w}]
                           \/ staged' = [staged EXCEPT ![f] = @ \ {w}]
    BY CaptureCases, StageCases, ReplaceCases, CleanCases, OtherCases DEF Step, Files
  <1>5. original[w]["binding"] \in Payloads
    BY DEF TypeOK, Files
  <1>6. file' \in [Files -> Payloads]
    BY <1>3, <1>5 DEF TypeOK, Payloads
  <1>7. staged' \in [Files -> SUBSET Writers]
    BY <1>4 DEF TypeOK
  <1>8. next' \in [Writers -> 1 .. 2]
    BY <1>1, PairFacts DEF TypeOK
  <1>9. QED
    BY <1>1, <1>2, <1>6, <1>7, <1>8, PairFacts DEF TypeOK

(* A step is a step of one writer: the others stay where they are. *)
LEMMA StepOfOne ==
  ASSUME TypeOK, NEW w \in Writers, Step(w), NEW v \in Writers, v # w
  PROVE  /\ (pc')[v] = pc[v] /\ (next')[v] = next[v] /\ (result')[v] = result[v]
         /\ (original')[v] = original[v]
         /\ \A f \in Files : v \in (staged')[f] => v \in staged[f]
  <1>1. CASE Capture(w)
    BY <1>1, CaptureCases DEF TypeOK
  <1>2. CASE Stage(w)
    BY <1>2, StageCases DEF TypeOK
  <1>3. CASE Replace(w)
    BY <1>3, ReplaceCases DEF TypeOK
  <1>4. CASE Clean(w)
    <2>1. (pc')[v] = pc[v] /\ (next')[v] = next[v]
      BY <1>4, CleanCases DEF TypeOK
    <2>2. \A f \in Files : v \in (staged')[f] => v \in staged[f]
      BY <1>4, CleanCases DEF TypeOK, Files
    <2>3. QED
      BY <1>4, <2>1, <2>2, CleanCases
  <1>5. CASE Prevalidate(w) \/ Compare(w) \/ Restore(w) \/ Sync(w) \/ Crash(w)
    BY <1>5, OtherCases DEF TypeOK
  <1>6. QED
    BY <1>1, <1>2, <1>3, <1>4, <1>5 DEF Step

(* Every step of a writer keeps the account of its temporaries. *)
LEMMA StepStaged ==
  ASSUME TypeOK, NEW w \in Writers, StagedOf(w), Step(w), faults' = faults
  PROVE  StagedOf(w)'
  <1> USE DEF TypeOK, StagedOf, Over
  <1>1. CASE Capture(w)
    BY <1>1, CaptureCases
  <1>2. CASE Stage(w)
    BY <1>2, StageCases
  <1>3. CASE Replace(w)
    BY <1>3, ReplaceCases
  <1>4. CASE Clean(w)
    BY <1>4, CleanCases DEF Files
  <1>5. CASE Prevalidate(w) \/ Compare(w) \/ Restore(w) \/ Sync(w) \/ Crash(w)
    BY <1>5, OtherCases
  <1>6. QED
    BY <1>1, <1>2, <1>3, <1>4, <1>5 DEF Step

-----------------------------------------------------------------------------
(* When writers take turns, the one that steps is the only one at work. *)
LEMMA OthersAreOver ==
  ASSUME TypeOK, Exclusive, Alone, NEW w \in Writers, Step(w), NEW v \in Writers, v # w
  PROVE  Over(v)
  <1>1. CASE Prevalidate(w)
    BY <1>1 DEF Prevalidate
  <1>2. CASE ~Prevalidate(w)
    <2>1. ~Over(w)
      BY <1>2 DEF Step, Over, Capture, Stage, Replace, Clean, Compare, Restore, Sync, Crash
    <2>2. QED
      BY <2>1 DEF Alone
  <1>3. QED
    BY <1>1, <1>2

(* In turns, every other writer is over before and after a step.           *)
LEMMA StepAlone ==
  ASSUME TypeOK, Exclusive, Alone, NEW w \in Writers, Step(w)
  PROVE  Alone'
  <1>1. \A v \in Writers : v # w => Over(v)'
    BY OthersAreOver, StepOfOne DEF Over
  <1>2. QED
    BY <1>1 DEF Alone

(* What a writer knows of the files, when nobody else is at work. *)
LEMMA StepWriterInv ==
  ASSUME TypeOK, NEW w \in Writers, WriterInv(w), Step(w), faults' = faults
  PROVE  WriterInv(w)'
  <1> USE DEF TypeOK, WriterInv, Half, Captured, All, Files
  <1>1. CASE Capture(w)
    <2>1. pc[w] = "capture" /\ file' = file
      BY <1>1, CaptureCases
    <2>2. \/ /\ (pc')[w] = "capture" /\ (original')[w]["binding"] = file["binding"]
             /\ (result')[w] = result[w]
          \/ /\ (pc')[w] = "stage" /\ (next')[w] = 1 /\ next[w] = 2
             /\ (original')[w]["binding"] = original[w]["binding"]
             /\ (original')[w]["config"] = file["config"]
             /\ (result')[w] = result[w]
          \/ (pc')[w] = "over"
      BY <1>1, CaptureCases
    <2>3. original' \in [Writers -> [Files -> Payloads]]
      BY <1>1, StepTypeOK DEF Step
    <2>4. (pc')[w] = "stage" => (original')[w] = file
      BY <2>1, <2>2, <2>3
    <2>5. QED
      BY <2>1, <2>2, <2>4
  <1>2. CASE Stage(w)
    BY <1>2, StageCases
  <1>3. CASE Replace(w)
    BY <1>3, ReplaceCases
  <1>4. CASE Clean(w)
    BY <1>4, CleanCases
  <1>5. CASE Restore(w)
    <2>1. /\ pc[w] = "restore" /\ original' = original
          /\ (pc')[w] = "clean" /\ (result')[w] = "persistence"
      BY <1>5 DEF Restore, Leave, Goto
    <2>2. "restore" \notin faults => file' = [file EXCEPT !["binding"] = original[w]["binding"]]
      BY <1>5 DEF Restore
    <2>3. "restore" \notin faults => file' = original[w]
      BY <2>1, <2>2
    <2>4. QED
      BY <2>1, <2>3
  <1>6. CASE Prevalidate(w) \/ Compare(w) \/ Sync(w) \/ Crash(w)
    <2>1. file' = file /\ original' = original
      BY <1>6 DEF Prevalidate, Compare, Sync, Crash, Leave, Goto
    <2>2. \/ pc[w] = "new" /\ (pc')[w] = "capture" /\ (next')[w] = 1 /\ result' = result
          \/ pc[w] = "compare" /\ (pc')[w] = "restore" /\ result' = result
          \/ pc[w] = "compare" /\ file["binding"] # w
          \/ pc[w] = "sync" /\ (pc')[w] = "clean" /\ (result')[w] \in {"ok", "persistence"}
          \/ (pc')[w] = "over"
      BY <1>6 DEF Prevalidate, Compare, Sync, Crash, Leave, Goto
    <2>3. QED
      BY <2>1, <2>2
  <1>7. QED
    BY <1>1, <1>2, <1>3, <1>4, <1>5, <1>6 DEF Step

(* What a step does to the two files, and to what was captured of them. *)
LEMMA StepFiles ==
  ASSUME TypeOK, NEW w \in Writers, WriterInv(w), Step(w), faults' = faults
  PROVE  \/ /\ file' = file
            /\ Captured(w)' => \/ Captured(w) /\ (original')[w] = original[w]
                               \/ ~Captured(w) /\ (original')[w] = file
            /\ Half(w)' <=> Half(w)
         \/ /\ pc[w] = "replace" /\ next[w] = 1 /\ Half(w)' /\ UNCHANGED <<original, result>>
            /\ (file')["binding"] = w /\ (file')["config"] = file["config"]
         \/ /\ pc[w] = "replace" /\ next[w] = 2 /\ (pc')[w] = "sync" /\ UNCHANGED result
            /\ file' = All(w)
         \/ /\ pc[w] = "restore" /\ (pc')[w] = "clean" /\ file' = original[w]
            /\ (result')[w] = "persistence"
         \/ /\ Half(w) /\ file' = file /\ (pc')[w] \in {"clean", "over"}
            /\ \/ "restore" \in faults /\ (result')[w] = "persistence"
               \/ (result')[w] = "crashed"
  <1> USE DEF Half, Captured
  <1>1. CASE Capture(w)
    <2>1. (pc')[w] \in {"capture", "stage", "over"} /\ file' = file /\ pc[w] = "capture"
      BY <1>1, CaptureCases DEF TypeOK
    <2>2. WriterInv(w)'
      BY StepWriterInv
    <2>3. (pc')[w] = "stage" => (original')[w] = file
      BY <2>1, <2>2 DEF WriterInv
    <2>4. QED
      BY <2>1, <2>3
  <1>2. CASE Stage(w)
    BY <1>2, StageCases DEF TypeOK
  <1>3. CASE Replace(w)
    BY <1>3, ReplaceCases DEF TypeOK, WriterInv, All, Files
  <1>4. CASE Clean(w)
    BY <1>4, CleanCases DEF TypeOK
  <1>5. CASE Restore(w)
    <2>1. /\ pc[w] = "restore" /\ original' = original
          /\ (pc')[w] = "clean" /\ (result')[w] = "persistence"
      BY <1>5 DEF Restore, Leave, Goto, TypeOK
    <2>2. \/ file' = [file EXCEPT !["binding"] = original[w]["binding"]]
          \/ "restore" \in faults /\ file' = file
      BY <1>5 DEF Restore
    <2>3. [file EXCEPT !["binding"] = original[w]["binding"]] = original[w]
      BY <2>1 DEF TypeOK, WriterInv, Files
    <2>4. QED
      BY <2>1, <2>2, <2>3
  <1>6. CASE Prevalidate(w) \/ Compare(w) \/ Sync(w)
    BY <1>6 DEF Prevalidate, Compare, Sync, Leave, Goto, TypeOK, WriterInv
  <1>7. CASE Crash(w)
    BY <1>7 DEF Crash, Goto, TypeOK
  <1>8. QED
    BY <1>1, <1>2, <1>3, <1>4, <1>5, <1>6, <1>7 DEF Step

(* The pair stays together, and so does what may be put back. *)
LEMMA StepCalmInv ==
  ASSUME TypeOK, Exclusive, TurnsInv, NEW w \in Writers, Step(w), faults' = faults
  PROVE  CalmInv'
  <1>1. \A v \in Writers : v # w =>
           /\ ~Captured(v) /\ ~Half(v) /\ ~Captured(v)' /\ ~Half(v)'
           /\ (result')[v] = result[v]
    BY OthersAreOver, StepOfOne DEF TurnsInv, Over, Captured, Half
  <1>2. WriterInv(w) /\ CalmInv
    BY DEF TurnsInv
  <1>3. Calm' => Calm
    BY <1>1, <1>2 DEF Calm, WriterInv, Step, Capture, Stage, Replace, Clean, Prevalidate,
                      Compare, Restore, Sync, Crash, Over
  <1>4. SUFFICES ASSUME Calm' PROVE CalmInv'
    BY DEF CalmInv
  <1>5. /\ ~Half(w) => file["binding"] = file["config"]
        /\ Captured(w) => original[w]["binding"] = original[w]["config"]
        /\ Half(w) => Captured(w)
    BY <1>1, <1>2, <1>3, <1>4 DEF CalmInv, Captured, Half
  <1>6. /\ Captured(w)' => (original')[w]["binding"] = (original')[w]["config"]
        /\ ~Half(w)' => (file')["binding"] = (file')["config"]
    <2>1. "restore" \notin faults /\ (result')[w] # "crashed"
      BY <1>4 DEF Calm
    <2>2. All(w)["binding"] = All(w)["config"]
      BY DEF All, Files
    <2>3. (pc')[w] \in {"sync", "clean", "over"} => ~Captured(w)'
      BY DEF Captured
    <2>4. pc[w] \in {"replace", "restore"} => Captured(w)
      BY DEF Captured
    <2>5. QED
      BY <1>2, <1>5, <2>1, <2>2, <2>3, <2>4, StepFiles
  <1>7. QED
    BY <1>1, <1>6 DEF CalmInv

(* No step makes half a pair of a success, or gets ready to. *)
LEMMA StepWholeInv ==
  ASSUME TypeOK, Exclusive, TurnsInv, NEW w \in Writers, Step(w), faults' = faults
  PROVE  WholeInv'
  <1>1. \A v \in Writers : v # w => ~Captured(v)' /\ (result')[v] = result[v]
    BY OthersAreOver, StepOfOne DEF TurnsInv, Over, Captured
  <1>2. WriterInv(w) /\ WholeInv
    BY DEF TurnsInv
  <1>3. WriterInv(w)'
    BY <1>2, StepWriterInv
  <1>4. Captured(w)' => (result')[w] = "none"
    BY <1>3 DEF WriterInv, Captured
  <1>5. (result')[w] = "ok" => file' = All(w)
    <2>1. CASE (pc')[w] = "over" /\ (result')[w] = "ok"
      <3>1. Clean(w)
        BY <2>1, CaptureCases, StageCases, ReplaceCases, OtherCases DEF Step, TypeOK
      <3>2. QED
        BY <1>2, <2>1, <3>1, CleanCases DEF WriterInv, All
    <2>2. CASE (pc')[w] # "over"
      BY <1>3, <2>2 DEF WriterInv, All
    <2>3. QED
      BY <2>1, <2>2
  <1>6. \A u \in Writers : All(u)["binding"] = u /\ All(u)["config"] = u
    BY DEF All, Files
  <1>7. pc[w] \in {"replace", "restore"} => Captured(w)
    BY DEF Captured
  <1>8. (pc')[w] \in {"sync", "clean", "over"} => ~Captured(w)'
    BY DEF Captured
  <1>9. ASSUME NEW u \in Writers, (result')[u] = "ok"
        PROVE  /\ (file')["binding"] = u => (file')["config"] = u
               /\ Captured(w)' => ((original')[w]["binding"] = u => (original')[w]["config"] = u)
    <2>1. CASE u = w
      BY <1>4, <1>5, <1>6, <1>9, <2>1
    <2>2. CASE u # w
      <3>1. result[u] = "ok"
        BY <1>1, <1>9, <2>2
      <3>2. file["binding"] = u => file["config"] = u
        BY <1>2, <3>1 DEF WholeInv, SuccessIsWhole
      <3>3. Captured(w) => (original[w]["binding"] = u => original[w]["config"] = u)
        BY <1>2, <3>1 DEF WholeInv
      <3>4. QED
        BY <1>2, <1>6, <1>7, <1>8, <2>2, <3>2, <3>3, StepFiles
    <2>3. QED
      BY <2>1, <2>2
  <1>10. QED
    BY <1>1, <1>9 DEF WholeInv, SuccessIsWhole

(* Together they are kept by every step of writers that take turns. *)
LEMMA NextTurnsInv == Exclusive /\ TypeOK /\ TurnsInv /\ [Next]_vars => TurnsInv'
  <1> SUFFICES ASSUME Exclusive, TypeOK, TurnsInv, [Next]_vars PROVE TurnsInv'
    OBVIOUS
  <1>1. ASSUME NEW w \in Writers, Step(w), faults' = faults PROVE TurnsInv'
    <2>1. Alone'
      BY <1>1, StepAlone DEF TurnsInv
    <2>2. ASSUME NEW v \in Writers PROVE WriterInv(v)'
      <3>1. CASE v = w
        BY <1>1, <3>1, StepWriterInv DEF TurnsInv
      <3>2. CASE v # w
        <4>1. /\ (pc')[v] = pc[v] /\ (result')[v] = result[v]
              /\ pc[v] \in {"new", "over"} /\ WriterInv(v)
          BY <1>1, <3>2, OthersAreOver, StepOfOne DEF TurnsInv, Over
        <4>2. QED
          BY <4>1 DEF WriterInv, Captured, Half
      <3>3. QED
        BY <3>1, <3>2
    <2>3. CalmInv' /\ WholeInv'
      BY <1>1, StepCalmInv, StepWholeInv
    <2>4. QED
      BY <2>1, <2>2, <2>3 DEF TurnsInv
  <1>2. CASE UNCHANGED vars
    BY <1>2 DEF vars, TurnsInv, Alone, WriterInv, CalmInv, Calm, WholeInv, SuccessIsWhole,
                Over, Half, Captured, All
  <1>3. QED
    BY <1>1, <1>2 DEF Next, Step

-----------------------------------------------------------------------------
(* Types need no turns: writers may overlap.                               *)
LEMMA NextTypeOK == TypeOK /\ [Next]_vars => TypeOK'
  <1>1. TypeOK /\ UNCHANGED vars => TypeOK'
    BY DEF TypeOK, vars
  <1>2. QED
    BY <1>1, StepTypeOK DEF Next, Step

(* So the account is kept by all of them, however they overlap. *)
LEMMA NextStaged ==
  TypeOK /\ (\A w \in Writers : StagedOf(w)) /\ [Next]_vars => (\A w \in Writers : StagedOf(w))'
  <1> SUFFICES ASSUME TypeOK, \A w \in Writers : StagedOf(w), [Next]_vars,
                      NEW v \in Writers
               PROVE  StagedOf(v)'
    OBVIOUS
  <1>1. ASSUME NEW w \in Writers, Step(w), faults' = faults PROVE StagedOf(v)'
    <2>1. CASE v = w
      BY <1>1, <2>1, StepStaged
    <2>2. CASE v # w
      BY <1>1, <2>2, StepOfOne DEF StagedOf, Over, Files
    <2>3. QED
      BY <2>1, <2>2
  <1>2. CASE UNCHANGED vars
    BY <1>2 DEF vars, StagedOf, Over
  <1>3. QED
    BY <1>1, <1>2 DEF Next, Step

(* At the start nobody has written.                                        *)
LEMMA PairStart == Init => TypeOK /\ TurnsInv /\ \A w \in Writers : StagedOf(w)
  <1> SUFFICES ASSUME Init PROVE TypeOK /\ TurnsInv /\ \A w \in Writers : StagedOf(w)
    OBVIOUS
  <1>1. TypeOK
    BY PairFacts DEF Init, TypeOK, Payloads
  <1>2. file["binding"] = file["config"] /\ \A w \in Writers : pc[w] = "new" /\ result[w] = "none"
    BY DEF Init, Files
  <1>3. TurnsInv
    BY <1>2 DEF TurnsInv, Alone, WriterInv, CalmInv, WholeInv, SuccessIsWhole, Over, Half, Captured
  <1>4. QED
    BY <1>1, <1>3 DEF Init, StagedOf

(* Every variable keeps its type. *)
THEOREM PairTypeCorrect == Spec => []TypeOK
  BY PairStart, NextTypeOK, PTL DEF Spec

(* No writer leaves a temporary file with private content behind, however  *)
(* many run at once, unless it died or could not remove it.                *)
THEOREM NothingIsLeft == Spec => []NoLeftovers
  <1>1. (\A w \in Writers : StagedOf(w)) => NoLeftovers
    BY DEF StagedOf, NoLeftovers
  <1>2. QED
    BY <1>1, PairStart, NextTypeOK, NextStaged, PTL DEF Spec

(* The invariant of writers that take turns. *)
THEOREM TurnsInvariance == ASSUME Exclusive PROVE Spec => []TurnsInv
  <1>1. TypeOK /\ TurnsInv /\ [Next]_vars => TurnsInv'
    BY NextTurnsInv
  <1>2. QED
    BY <1>1, PairStart, PairTypeCorrect, PTL DEF Spec

(* Writers that take turns tell the truth: the two files belong together   *)
(* whatever fails, a reported success or failure is what is on disk, and   *)
(* nothing private is left beside them.                                    *)
THEOREM TurnsTellTheTruth == ASSUME Exclusive PROVE Spec => []WritersTellTheTruth
  <1>1. TurnsInv => PairNeverDisagrees /\ OutcomeIsTrue /\ SuccessIsWhole
    <2> SUFFICES ASSUME TurnsInv PROVE PairNeverDisagrees /\ OutcomeIsTrue /\ SuccessIsWhole
      OBVIOUS
    <2>1. PairNeverDisagrees
      BY DEF TurnsInv, CalmInv, Calm, PairNeverDisagrees, Over, Half
    <2>2. OutcomeIsTrue
      <3> SUFFICES ASSUME "restore" \notin faults, NEW w \in Writers, pc[w] = "clean"
                   PROVE  CASE result[w] = "ok" -> \A f \in Files : file[f] = w
                            [] result[w] = "persistence" ->
                                  file \in {original[w], [f \in Files |-> w]}
        BY Zenon DEF OutcomeIsTrue
      <3>1. CASE result[w] = "ok"
        <4>1. \A f \in Files : file[f] = w
          BY <3>1 DEF TurnsInv, WriterInv, All
        <4>2. QED
          BY <3>1, <4>1
      <3>2. CASE result[w] = "persistence"
        <4>1. file \in {original[w], [f \in Files |-> w]}
          BY <3>2 DEF TurnsInv, WriterInv, All
        <4>2. QED
          BY <3>2, <4>1
      <3>3. QED
        BY <3>1, <3>2 DEF TurnsInv, WriterInv
    <2>3. QED
      BY <2>1, <2>2 DEF TurnsInv, WholeInv
  <1>2. QED
    BY <1>1, TurnsInvariance, NothingIsLeft, PTL DEF WritersTellTheTruth
=============================================================================
