------------------------- MODULE RegistryMaterialization -------------------------
(* Materialization of a dynamic candidate plan into a source registry        *)
(* (framework/stage6/p6_history_registry_v1.py, run by                        *)
(* tools/release/build_p6_history_registry.py): the plan is checked, its      *)
(* candidates are grouped by width, names and output paths are rendered from  *)
(* the templates of a recipe, the registry is compared with the plan and put  *)
(* in place of the old one.  Builders may overlap and die.                    *)
(*                                                                           *)
(* A template is a literal and the fields it names; it renders to the literal *)
(* and the values of those fields, so templates that name too few fields      *)
(* render different candidates alike.                                         *)
EXTENDS Integers, FiniteSets, Sequences, SequencesExt

CONSTANTS
    Plans,      \* plans: entries [width, q, points] and the two counts they claim
    Recipes,    \* recipes: group and artifact templates, output templates per mode
    Builders    \* runs of the tool

VARIABLES
    registry,   \* the registry file: absent, or a plan and its groups
    temp,       \* temporary siblings: builder -> BOOLEAN
    builder     \* what each builder is doing

registryVars == <<registry, temp, builder>>

-------------------------------------------------------------------------------
Keys == {"training", "checkpoint", "onnx", "calibration"}
StageFields == {"s1", "s2", "s3"}
Idle == [pc |-> "idle"]
NoRegistry == [kind |-> "absent"]

Identity(e) == <<e.width, e.q>>
Lexicographic(a, b) ==
    \E i \in 1..3 : a[i] < b[i] /\ \A j \in 1..(i - 1) : a[j] = b[j]
(* Types of a plan that was read: _validate_plan refuses other JSON first.   *)
ASSUME PlanAssumption ==
    \A p \in Plans :
        /\ p.entries \in Seq(ToSet(p.entries))
        /\ \A e \in ToSet(p.entries) :
              e.q \in {"fp16", "int8"} /\ \A i \in 1..3 : e.width[i] \in Int
(* Order of the plan: widths, then modes ("fp16" before "int8"). *)
ComesBefore(d, e) ==
    \/ Lexicographic(d.width, e.width)
    \/ d.width = e.width /\ d.q = "fp16" /\ e.q = "int8"

(* The dictionary built from the entries: the last one of an identity stays. *)
Mapping(p) ==
    {p.entries[i] : i \in {i \in 1..Len(p.entries) :
        \A j \in (i + 1)..Len(p.entries) : Identity(p.entries[j]) # Identity(p.entries[i])}}
(* _validate_plan: distinct identities, canonical order, true counts. *)
PlanAdmitted(p) ==
    /\ Len(p.entries) > 0
    /\ \A i, j \in 1..Len(p.entries) : i < j => ComesBefore(p.entries[i], p.entries[j])
    /\ p.candidates = Len(p.entries)
    /\ p.structures = Cardinality({e.width : e \in ToSet(p.entries)})

(* _validate_format_template: at least one field, and only known ones. *)
TemplateAdmitted(t, allowed) == t.fields # {} /\ t.fields \subseteq allowed
(* _validate_recipe, and of _validate_template what depends on the recipe.    *)
RecipeAdmitted(r) ==
    /\ TemplateAdmitted(r.group, StageFields) /\ TemplateAdmitted(r.artifact, StageFields)
    /\ DOMAIN r.outputs # {}
    /\ \A q \in DOMAIN r.outputs, k \in Keys :
          TemplateAdmitted(r.outputs[q][k], StageFields \cup {"group_id", "artifact_id", "q_mode"})

Render(t, values) == [literal |-> t.literal, values |-> [f \in t.fields |-> values[f]]]
WidthValues(w) == [f \in StageFields |-> CASE f = "s1" -> w[1] [] f = "s2" -> w[2] [] f = "s3" -> w[3]]
(* canonical_group_id: the model and all widths. *)
CanonicalGroup(w) == [literal |-> "pyramid|", values |-> WidthValues(w)]
Inside(path) == path.literal # "../"
RegistryPath == [literal |-> "source_registry", values |-> [f \in {"s1"} |-> 2]]

-------------------------------------------------------------------------------
Fail(b) == builder' = [builder EXCEPT ![b] = [pc |-> "failed"]]

RegistryInit ==
    /\ registry = NoRegistry
    /\ temp = [b \in Builders |-> FALSE]
    /\ builder = [b \in Builders |-> Idle]

(* Destination, plan and binding; the binding may be refused for itself. *)
Validate(b) ==
    /\ builder[b] = Idle
    /\ \/ Fail(b)
       \/ \E p \in Plans, r \in Recipes :
             IF PlanAdmitted(p) /\ RecipeAdmitted(r)
             THEN builder' = [builder EXCEPT ![b] =
                      [pc |-> "materialize", plan |-> p, recipe |-> r, groups |-> {}]]
             ELSE Fail(b)
    /\ UNCHANGED <<registry, temp>>

Artifacts(G) == {g.artifact : g \in G}
Outputs(g) == {g.outputs[q][k] : q \in DOMAIN g.outputs, k \in Keys}
OutputCount(g) == Cardinality(DOMAIN g.outputs) * Cardinality(Keys)
Taken(G) == {RegistryPath} \cup UNION {Outputs(g) : g \in G}

(* The group of width w: all modes the plan has for it.  *)
GroupOf(p, r, w) ==
    LET entries == {e \in Mapping(p) : e.width = w}
        modes == {e.q : e \in entries}
        artifact == Render(r.artifact, WidthValues(w))
        values(q) == [f \in StageFields \cup {"group_id", "artifact_id", "q_mode"} |->
                         CASE f = "group_id" -> CanonicalGroup(w) [] f = "artifact_id" -> artifact
                           [] f = "q_mode" -> q [] OTHER -> WidthValues(w)[f]]
    IN  [width |-> w, artifact |-> artifact,
         points |-> [q \in modes |-> (CHOOSE e \in entries : e.q = q).points],
         outputs |-> [q \in modes |-> [k \in Keys |-> Render(r.outputs[q][k], values(q))]]]

(* Mutated form: paths may meet those of other groups. *)
FitsAlone(g, G) ==
    /\ g.artifact \notin Artifacts(G)
    /\ \A path \in Outputs(g) : Inside(path)
    /\ Cardinality(Outputs(g)) = OutputCount(g) /\ RegistryPath \notin Outputs(g)
(* Names and paths of the group are new, and stay inside the root. *)
Fits(g, G) ==
    /\ g.artifact \notin Artifacts(G)
    /\ \A path \in Outputs(g) : Inside(path)
    /\ Cardinality(Outputs(g)) = OutputCount(g) /\ Outputs(g) \cap Taken(G) = {}

Remaining(b) == {e.width : e \in ToSet(builder[b].plan.entries)} \ {g.width : g \in builder[b].groups}
(* One round of the loop of _materialize_groups, in the order of the widths. *)
Materialize(b) ==
    /\ builder[b].pc = "materialize" /\ Remaining(b) # {}
    /\ \E w \in Remaining(b) :
          /\ \A v \in Remaining(b) \ {w} : Lexicographic(w, v)
          /\ LET p == builder[b].plan
                 r == builder[b].recipe
                 modes == {e.q : e \in {x \in ToSet(p.entries) : x.width = w}}
             IN  IF /\ Render(r.group, WidthValues(w)) = CanonicalGroup(w)
                    /\ modes \subseteq DOMAIN r.outputs
                    /\ Fits(GroupOf(p, r, w), builder[b].groups)
                 THEN builder' = [builder EXCEPT ![b].groups = @ \cup {GroupOf(p, r, w)}]
                 ELSE Fail(b)
    /\ UNCHANGED <<registry, temp>>

(* _registry_identity_map: what a reader of the registry expands. *)
Expansion(G) == UNION {{[width |-> g.width, q |-> q, points |-> g.points[q]] :
                            q \in DOMAIN g.points} : g \in G}
Compare(b) ==
    /\ builder[b].pc = "materialize" /\ Remaining(b) = {}
    /\ IF Expansion(builder[b].groups) = Mapping(builder[b].plan)
       THEN builder' = [builder EXCEPT ![b].pc = "stage"]
       ELSE Fail(b)
    /\ UNCHANGED <<registry, temp>>

(* The finally of _atomic_write_registry; its unlink is assumed to work (the *)
(* code swallows the error of one that does not).                            *)
CleanUp(b) == Fail(b) /\ temp' = [temp EXCEPT ![b] = FALSE]

(* _atomic_write_registry: temporary sibling, rename, directory. *)
Stage(b) ==
    /\ builder[b].pc = "stage"
    /\ temp' = [temp EXCEPT ![b] = TRUE]
    /\ builder' = [builder EXCEPT ![b].pc = "replace"] /\ UNCHANGED registry
Replace(b) ==
    /\ builder[b].pc = "replace"
    /\ \/ /\ registry' = [kind |-> "registry", plan |-> builder[b].plan, groups |-> builder[b].groups]
          /\ temp' = [temp EXCEPT ![b] = FALSE]
          /\ builder' = [builder EXCEPT ![b].pc = "sync"]
       \/ CleanUp(b) /\ UNCHANGED registry
Sync(b) ==
    /\ builder[b].pc = "sync"
    /\ \/ builder' = [builder EXCEPT ![b] = [pc |-> "done"]]
       \/ Fail(b)
    /\ UNCHANGED <<registry, temp>>
Crash(b) ==
    /\ builder[b].pc \in {"materialize", "stage", "replace", "sync"}
    /\ builder' = [builder EXCEPT ![b] = [pc |-> "dead"]] /\ UNCHANGED <<registry, temp>>

RegistryNext == \E b \in Builders :
    \/ Validate(b) \/ Materialize(b) \/ Compare(b) \/ Stage(b) \/ Replace(b) \/ Sync(b)
    \/ Crash(b)
RegistrySpec == RegistryInit /\ [][RegistryNext]_registryVars

-------------------------------------------------------------------------------
(* A published registry expands to the candidates of its plan, each with its *)
(* own provenance: none is lost when candidates share a width, none added.    *)
RegistryIsThePlan ==
    registry # NoRegistry =>
        /\ Expansion(registry.groups) = ToSet(registry.plan.entries)
        /\ Cardinality(Expansion(registry.groups)) = Len(registry.plan.entries)

(* No two candidates of a published registry are materialized into the same  *)
(* artifact or file, none into the registry itself, none outside the root.    *)
NothingIsShared ==
    registry # NoRegistry =>
        /\ \A g, h \in registry.groups : g # h =>
              g.artifact # h.artifact /\ Outputs(g) \cap Outputs(h) = {}
        /\ \A g \in registry.groups :
              /\ Cardinality(Outputs(g)) = OutputCount(g)
              /\ RegistryPath \notin Outputs(g) /\ \A path \in Outputs(g) : Inside(path)

(* Only builders that write, or died while they wrote, have left a file that *)
(* holds private paths; one that reports its failure has not.                *)
OnlyTheDeadLeaveFiles ==
    \A b \in Builders : temp[b] => builder[b].pc \in {"replace", "dead"}

(* A published registry is the plan, with nothing shared and nothing left     *)
(* beside it.                                                                 *)
RegistryIsSound == RegistryIsThePlan /\ NothingIsShared /\ OnlyTheDeadLeaveFiles
================================================================================
