---------------------------- MODULE MCProvisioning ----------------------------
(* The provisioning of a search on small instances.  A history looks at one *)
(* half of it: how the binding is found (HistoryBinding, which writes the   *)
(* pair in one step), or how the pair is written (BindingPair).             *)
EXTENDS BindingPair, HistoryBinding, TLC

CONSTANTS w1, w2, w3, here, there, r1, r2, u0, u1, u2, u3, u4

VARIABLE half   \* "found" or "written"

MCFaultSets == {{}, {"crash"}, {"unlink"}, {"crash", "restore", "unlink"}}

Chain == <<"source_materialization", "quantization", "performance", "ap", "finalization">>
Template ==
    [chain |-> Chain, wrapper |-> here, gpus |-> <<0, 1, 3>>, absolute |-> FALSE,
     at |-> [role \in {"controller", "source_materializer", "performance_plan", "finalizer"} |-> here],
     wellFormed |-> TRUE]
Edited == {Template, [Template EXCEPT !.absolute = TRUE], [Template EXCEPT !.at["finalizer"] = there]}
(* The faults a template or an interface can have, one at a time *)
MCInterfaces == Edited \cup
    {[Template EXCEPT !.chain = <<Chain[1], Chain[3], Chain[2], Chain[4], Chain[5]>>],
     [Template EXCEPT !.chain = SubSeq(Chain, 1, 4)],
     [Template EXCEPT !.gpus = <<1, 0, 2>>], [Template EXCEPT !.gpus = <<0, 1>>],
     [Template EXCEPT !.wellFormed = FALSE]}
InThisOrder == [i \in 0 .. 3 |-> CASE i = 0 -> u0 [] i = 1 -> u1 [] i = 2 -> u2 [] i = 3 -> u3]

(* Others change something under the templates in Edited, and leave r2 alone. *)
Small == edits = 0 \/ (job.interface \in Edited /\ tree.registry[r2] = "other")

NoBinding ==
    /\ tree = {} /\ gpus = {} /\ pair = {} /\ edits = 0
    /\ job = [step |-> "written"]
NoPair ==
    /\ faults = {} /\ pc = [w \in Writers |-> "new"] /\ next = [w \in Writers |-> 1]
    /\ original = [w \in Writers |-> [f \in Files |-> "absent"]]
    /\ file = [f \in Files |-> "absent"] /\ staged = [f \in Files |-> {}]
    /\ result = [w \in Writers |-> "none"]

MCInit == \/ half = "found" /\ BindingInit /\ NoPair
          \/ half = "written" /\ Init /\ NoBinding
MCNext == \/ half = "found" /\ Provision /\ UNCHANGED <<half, vars>>
          \/ half = "found" /\ Edit /\ Small' /\ UNCHANGED <<half, vars>>
          \/ half = "written" /\ Next /\ UNCHANGED <<half, bindingVars>>
MCSpec == MCInit /\ [][MCNext]_<<half, vars, bindingVars>>

(* The types of both halves. *)
TypesOK == TypeOK /\ (half = "found" => BindingTypeOK)
=============================================================================
