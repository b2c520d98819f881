---------------------------- MODULE BudgetedSearch ----------------------------
(***************************************************************************)
(* What one P6 search promises to whoever reads its result: candidates are *)
(* measured in whole batches of the same size, no candidate twice, none    *)
(* from the frozen holdout, never more than the budget, and a search is    *)
(* reported complete only when the whole budget was spent.  How a round    *)
(* obtains its batch, what is on disk, and how it fails are not visible.   *)
(***************************************************************************)
EXTENDS Integers, FiniteSets

CONSTANTS
    Genome,     \* the genomes a search may measure
    Batch,      \* genomes per round
    RoundLimit  \* rounds per search

VARIABLES
    measured,   \* genomes whose feedback the current search has released
    completed,  \* rounds released so far
    phase       \* "off", "searching", "completed" or "stopped"

vars == <<measured, completed, phase>>

Init == measured = {} /\ completed = 0 /\ phase = "off"

(* A search begins with nothing measured, whatever an earlier one did. *)
Begin ==
    /\ phase # "searching"
    /\ measured' = {} /\ completed' = 0 /\ phase' = "searching"

(* One round releases its whole batch of genomes not measured before. *)
ReleaseBatch ==
    /\ phase = "searching" /\ completed < RoundLimit
    /\ \E rows \in SUBSET (Genome \ measured) :
          /\ Cardinality(rows) = Batch
          /\ measured' = measured \cup rows
    /\ completed' = completed + 1
    /\ UNCHANGED phase

Complete ==
    /\ phase = "searching" /\ completed = RoundLimit
    /\ phase' = "completed"
    /\ UNCHANGED <<measured, completed>>

(* A search may stop at any point, keeping the batches released so far. *)
Stop ==
    /\ phase = "searching"
    /\ phase' = "stopped"
    /\ UNCHANGED <<measured, completed>>

Next == Begin \/ ReleaseBatch \/ Complete \/ Stop

Spec == Init /\ [][Next]_vars
===============================================================================
