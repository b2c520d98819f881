---------------------------- MODULE HistoryBinding ----------------------------
(***************************************************************************)
(* How the private history of a search is found, checked and bound.  The   *)
(* full-chain bootstrap (p6_full_chain_bootstrap_v1.py) starts from an old *)
(* local configuration and a runner template, the older provisioning tool  *)
(* discovers both in the tree; both end in build_history_binding           *)
(* (p6_history_binding_v1.py), and the bootstrap writes what it returns.   *)
(* The adapters check the binding again, with the same operators.        *)
(*                                                                         *)
(* The tree and the devices belong to others, who may change them between  *)
(* any two steps.  A path stands for the whole place of a file; a file is  *)
(* "exec", "plain" (not executable) or "link" (a symlink).                 *)
(***************************************************************************)
EXTENDS Integers, Sequences, FiniteSets

CONSTANTS
  Paths,       \* where copies of a component may lie
  Interfaces,  \* runner templates and discovered interfaces
  Devices,     \* uuids of the devices there are
  Installed,   \* the device at each index when the provisioning begins
  Registries,  \* JSON files that may be candidate source registries
  Edits        \* bound: changes others make

Stages == <<"source_materialization", "quantization", "performance", "ap", "finalization">>
\* the component a stage must run; the others run a wrapper of their own
ComponentOf == [source_materialization |-> "source_materializer",
                performance |-> "performance_plan", finalization |-> "finalizer"]
RoleOrder == <<"controller", "source_materializer", "performance_plan", "finalizer">>
Roles == {RoleOrder[k] : k \in 1 .. 4}
Indices == 0 .. 3

\* chain: the stages; at: the path each role's argv names; wrapper: that of the
\* other stages; gpus: CUDA_VISIBLE_DEVICES; wellFormed: keys, placeholders,
\* layout and feedback schema as required, no shell token in an argument
ASSUME InterfaceAssumption ==
  \A i \in Interfaces :
    /\ i.chain \in Seq({Stages[k] : k \in 1 .. 5})
    /\ i.at \in [Roles -> Paths] /\ i.wrapper \in Paths
    /\ i.gpus \in Seq(Indices)
    /\ i.absolute \in BOOLEAN /\ i.wellFormed \in BOOLEAN

ASSUME BoundAssumption ==
  /\ IsFiniteSet(Paths) /\ Edits \in Nat /\ Installed \in [Indices -> Devices]
  /\ \A i, j \in Indices : Installed[i] = Installed[j] => i = j

VARIABLES
  tree,   \* what the private root holds
  gpus,   \* the device at each index: its uuid and whether it is idle
  job,    \* the provisioning: its route, its step and what it has found
  pair,   \* the binding and the configuration on disk, or {}
  edits   \* changes made by others since the provisioning began

bindingVars == <<tree, gpus, job, pair, edits>>

Kinds == {"none", "exec", "plain", "link"}
RegistryKinds == {"other", "v1", "v1_ambiguous", "v0"}

BindingInit ==
  /\ \E home \in SUBSET Paths \ {{}}, r \in Registries :
       tree = [copies |-> [role \in Roles |-> [p \in Paths |-> IF p \in home THEN "exec" ELSE "none"]],
               wrappers |-> home, registry |-> [q \in Registries |-> IF q = r THEN "v1" ELSE "other"],
               stray |-> FALSE, inputs |-> TRUE]
  /\ gpus = [i \in Indices |-> [uuid |-> Installed[i], idle |-> TRUE]]
  /\ \E route \in {"bootstrap", "legacy"}, i \in Interfaces, private \in BOOLEAN :
       job = [route |-> route, interface |-> i, private |-> private, step |-> "destinations",
              found |-> {}, contract |-> {}, first |-> {}, second |-> {}, why |-> "none"]
  /\ pair = {} /\ edits = 0

----------------------------------------------------------------------------
(* Steps of the provisioning *)

Order == <<"destinations", "inputs", "roles", "interface", "build", "registry",
           "first", "second", "admit", "validate", "write", "written">>

Fail(why) ==
  /\ job' = [job EXCEPT !.step = "failed", !.why = why]
  /\ UNCHANGED <<tree, gpus, pair, edits>>

Advance(step, found) ==
  /\ job' = [found EXCEPT !.step = step]
  /\ UNCHANGED <<tree, gpus, pair, edits>>

\* both outputs beneath the private output root, apart from each other, from
\* the reserved manifest and from symlinks, and ignored by the repository
CheckDestinations ==
  /\ job.step = "destinations"
  /\ IF job.private THEN Advance("inputs", job) ELSE Fail("unsafe_destination")

\* the local inputs of the old configuration; the older tool looks for its own
\* just before it builds
LocateInputs ==
  /\ job.step = "inputs"
  /\ IF job.route = "legacy" \/ tree.inputs THEN Advance("roles", job) ELSE Fail("legacy_locator_invalid")

Copies(role) == {p \in Paths : tree.copies[role][p] # "none"}

\* one lookup for each role; the older tool follows a link and finds out later
FindComponent ==
  /\ job.step = "roles" /\ Cardinality(job.found) < 4
  /\ LET role == RoleOrder[Cardinality(job.found) + 1]
         copies == Copies(role)
         good == /\ Cardinality(copies) = 1
                 /\ job.route = "bootstrap" => \A p \in copies : tree.copies[role][p] = "exec"
     IN  IF good THEN Advance("roles", [job EXCEPT !.found = @ \cup ({role} \X copies)])
         ELSE Fail(IF job.route = "bootstrap" THEN "history_root_ambiguous" ELSE "component_discovery")

ComponentsFound ==
  /\ job.step = "roles" /\ Cardinality(job.found) = 4
  /\ Advance("interface", job)

\* what makes an interface executable with the components bound
InterfaceValid(i, found) ==
  /\ i.chain = Stages /\ i.wellFormed
  /\ \A role \in Roles : /\ <<role, i.at[role]>> \in found
                         /\ tree.copies[role][i.at[role]] = "exec"
  /\ i.wrapper \in tree.wrappers

\* three indices in ascending order
IndicesValid(i) ==
  /\ Len(i.gpus) = 3 /\ \A k \in 1 .. Len(i.gpus) - 1 : i.gpus[k] < i.gpus[k + 1]

ComponentsValid(found) == \A f \in found : tree.copies[f[1]][f[2]] = "exec"

\* A template names its executables relative to the root and is rendered; an
\* interface found in the tree names them absolutely and is validated.
TakeInterface ==
  /\ job.step = "interface"
  /\ LET i == job.interface
         good == IF job.route = "bootstrap"
                 THEN /\ ~i.absolute /\ i.wrapper \in tree.wrappers
                      /\ \A role \in Roles : tree.copies[role][i.at[role]] = "exec"
                 ELSE i.absolute /\ ~tree.stray /\ InterfaceValid(i, job.found)
     IN  IF good THEN Advance("build", job)
         ELSE Fail(IF job.route = "legacy" /\ tree.stray THEN "path_escape" ELSE "execution_interface")

\* build_history_binding starts over with what it is given
Build ==
  /\ job.step = "build"
  /\ IF ~tree.inputs THEN Fail("local_inputs")
     ELSE IF ComponentsValid(job.found) /\ InterfaceValid(job.interface, job.found)
             /\ IndicesValid(job.interface)
          THEN Advance("registry", job)
          ELSE Fail("execution_interface")

\* every JSON file of the tree is read; any that leads out of it is fatal
FindContract ==
  /\ job.step = "registry"
  /\ LET candidates == {r \in Registries : tree.registry[r] \in {"v1", "v1_ambiguous", "v0"}}
     IN  IF tree.stray THEN Fail("path_escape")
         ELSE IF Cardinality(candidates) = 1 /\ \A r \in candidates : tree.registry[r] = "v1"
              THEN Advance("first", [job EXCEPT !.contract = candidates])
              ELSE Fail("source_registry")

Indexed(i) == {i.gpus[k] : k \in DOMAIN i.gpus}
\* a snapshot: <<index, device>> of each index asked for
Snapshot == {<<k, gpus[k]>> : k \in Indexed(job.interface)}

TakeFirst ==
  /\ job.step = "first"
  /\ \/ Advance("second", [job EXCEPT !.first = Snapshot])
     \/ Fail("gpu_admission")
TakeSecond ==
  /\ job.step = "second"
  /\ \/ Advance("admit", [job EXCEPT !.second = Snapshot])
     \/ Fail("gpu_admission")

SnapshotValid(s) ==
  /\ \A x \in s : x[2].idle
  /\ \A x, y \in s : x[2].uuid = y[2].uuid => x = y
Uuids(s) == {<<x[1], x[2].uuid>> : x \in s}

\* Mutated form: the second snapshot is only compared by its indices.
AdmitFirst ==
  /\ job.step = "admit"
  /\ IF SnapshotValid(job.first) THEN Advance("validate", job) ELSE Fail("gpu_admission")

\* both are judged once both are taken
Admit ==
  /\ job.step = "admit"
  /\ IF ~(SnapshotValid(job.first) /\ SnapshotValid(job.second)) THEN Fail("gpu_admission")
     ELSE IF Uuids(job.first) # Uuids(job.second) THEN Fail("gpu_drift")
     ELSE Advance("validate", job)

Binding == [found |-> job.found, interface |-> job.interface, contract |-> job.contract,
            uuids |-> Uuids(job.first)]

\* The older tool ends here, having no Stage1 scan step to offer.
ValidatePair ==
  /\ job.step = "validate"
  /\ IF job.route = "legacy" THEN Fail("stage1_scan_unavailable")
     ELSE IF ComponentsValid(job.found) /\ InterfaceValid(job.interface, job.found)
             /\ IndicesValid(job.interface)
          THEN Advance("write", job)
          ELSE Fail("execution_interface")

WritePair ==
  /\ job.step = "write"
  /\ \/ /\ pair' = {Binding}
        /\ job' = [job EXCEPT !.step = "written"]
        /\ UNCHANGED <<tree, gpus, edits>>
     \/ Fail("persistence")

Provision ==
  \/ CheckDestinations \/ LocateInputs \/ FindComponent \/ ComponentsFound \/ TakeInterface
  \/ Build \/ FindContract \/ TakeFirst \/ TakeSecond \/ Admit \/ ValidatePair \/ WritePair

----------------------------------------------------------------------------
(* What others do meanwhile *)

Edit ==
  /\ edits < Edits /\ job.step \notin {"failed", "written"}
  /\ edits' = edits + 1
  /\ \/ \E role \in Roles, p \in Paths, kind \in Kinds :
          /\ tree' = [tree EXCEPT !.copies[role][p] = kind]
          /\ UNCHANGED gpus
     \/ \E r \in Registries, kind \in RegistryKinds :
          tree' = [tree EXCEPT !.registry[r] = kind] /\ UNCHANGED gpus
     \/ tree' = [tree EXCEPT !.stray = ~@] /\ UNCHANGED gpus
     \/ tree' = [tree EXCEPT !.inputs = ~@] /\ UNCHANGED gpus
     \/ \E w \in SUBSET Paths : tree' = [tree EXCEPT !.wrappers = w] /\ UNCHANGED gpus
     \/ \E k \in Indices, u \in Devices, idle \in BOOLEAN :
          /\ \A other \in Indices \ {k} : gpus[other].uuid # u
          /\ gpus' = [gpus EXCEPT ![k] = [uuid |-> u, idle |-> idle]]
          /\ UNCHANGED tree
  /\ <<tree, gpus>>' # <<tree, gpus>>
  /\ UNCHANGED <<job, pair>>

BindingNext == Provision \/ Edit

BindingSpec == BindingInit /\ [][BindingNext]_bindingVars

----------------------------------------------------------------------------
(* Properties *)

\* A step, a failure and a binding of the kinds the code has.
BindingTypeOK ==
  /\ job.step \in {Order[k] : k \in DOMAIN Order} \cup {"failed"}
  /\ (job.step = "failed") = (job.why # "none")
  /\ \A f \in job.found : f \in Roles \X Paths
  /\ Cardinality(pair) <= 1 /\ edits \in 0 .. Edits

\* A history that can be searched: one copy of each component, and a template
\* that runs them in order on three devices.
Sound ==
  /\ job.private
  /\ \A role \in Roles : Copies(role) = {job.interface.at[role]}
  /\ job.interface.wrapper \in tree.wrappers
  /\ job.interface.chain = Stages /\ job.interface.wellFormed /\ ~job.interface.absolute
  /\ \E x, y, z \in Indices : x < y /\ y < z /\ job.interface.gpus = <<x, y, z>>

\* While nobody changes anything, the bootstrap binds a sound history unless
\* the probe or the disk fails, and refuses any other; the older tool binds none.
OnlyTheSoundIsBound ==
  edits = 0 =>
    /\ pair # {} => Sound /\ job.route = "bootstrap"
    /\ job.step = "failed" /\ job.route = "bootstrap"
         /\ job.why \notin {"gpu_admission", "persistence"} => ~Sound

\* Whatever others change meanwhile, a written binding runs the components it
\* names, one of each role, and takes its contract from one registry.
OneOfEach ==
  \A b \in pair :
    /\ \A role \in Roles : {f[2] : f \in {g \in b.found : g[1] = role}} = {b.interface.at[role]}
    /\ Cardinality(b.contract) = 1

\* Whatever others change meanwhile, three different devices were idle, and the
\* same, in two looks at them.
DevicesSeenTwice ==
  \A b \in pair :
    /\ Cardinality({x[2] : x \in b.uuids}) = 3
    /\ \A s \in {job.first, job.second} :
         b.uuids = {<<x[1], x[2].uuid>> : x \in {y \in s : y[2].idle}}

\* What is bound was sound when it was looked at: a history that can be searched, one of each
\* component and of the contract, and devices that were idle in both looks.
WhatIsBoundWasSound == OnlyTheSoundIsBound /\ OneOfEach /\ DevicesSeenTwice
=============================================================================
