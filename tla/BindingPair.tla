------------------------------ MODULE BindingPair ------------------------------
(***************************************************************************)
(* write_private_binding_pair: how the provisioning of a search persists   *)
(* the private binding and the controller configuration, two files that    *)
(* only make sense together.  Both are staged beside their destinations    *)
(* and renamed into place one after the other; when the second renaming    *)
(* fails the first is compensated, and nothing else is.                    *)
(*                                                                         *)
(* Payloads are named after the writer that brings them, and differ from   *)
(* writer to writer.  Power loss is left out: what a rename has done stays *)
(* done.                                                                   *)
(***************************************************************************)
EXTENDS Integers, FiniteSets, Sequences

CONSTANTS
    Writers,     \* provisioning processes that may be started (bound)
    Exclusive,   \* no writer starts before the earlier ones are over
    FaultSets    \* what may go wrong, a set of "crash": a writer dies;
                 \* "unlink": a clean-up fails; "restore": so does a compensation

ASSUME WriterAssumption ==
    /\ IsFiniteSet(Writers) /\ "absent" \notin Writers /\ "old" \notin Writers
    /\ Exclusive \in BOOLEAN
    /\ FaultSets \subseteq SUBSET {"crash", "restore", "unlink"}

VARIABLES
    faults,    \* what may go wrong in this history, fixed at its start
    pc,        \* step of each writer
    next,      \* index of the file a loop is at
    original,  \* payloads captured before anything is replaced
    file,      \* payload at each destination
    staged,    \* temporary siblings of each destination, by writer
    result     \* "none", "ok", "unsafe_destination", "persistence" or "crashed"

vars == <<faults, pc, next, original, file, staged, result>>

Pair == <<"binding", "config">>
Files == {"binding", "config"}
Payloads == Writers \cup {"absent", "old"}
Over(w) == pc[w] \in {"new", "over"}

Init ==
    /\ faults \in FaultSets
    /\ pc = [w \in Writers |-> "new"] /\ next = [w \in Writers |-> 1]
    /\ original = [w \in Writers |-> [f \in Files |-> "absent"]]
    /\ \E p \in {"absent", "old"} : file = [f \in Files |-> p]
    /\ staged = [f \in Files |-> {}]
    /\ result = [w \in Writers |-> "none"]

Goto(w, label, index) ==
    pc' = [pc EXCEPT ![w] = label] /\ next' = [next EXCEPT ![w] = index]
(* Mutated form: one turn too many. *)
LoopOnce(w, label, after) ==
    IF next[w] <= Len(Pair) THEN Goto(w, label, next[w] + 1) ELSE Goto(w, after, 1)
(* The next turn of a loop over the pair, or what follows the loop. *)
Loop(w, label, after) ==
    IF next[w] < Len(Pair) THEN Goto(w, label, next[w] + 1) ELSE Goto(w, after, 1)
(* The temporaries are removed whatever happens, then the result is out. *)
Leave(w, outcome) == Goto(w, "clean", 1) /\ result' = [result EXCEPT ![w] = outcome]

(* Serialization and the checks of both destinations touch nothing. *)
Prevalidate(w) ==
    /\ pc[w] = "new"
    /\ Exclusive => \A v \in Writers : Over(v)
    /\ \/ Goto(w, "capture", 1) /\ UNCHANGED result
       \/ Goto(w, "over", 1) /\ result' = [result EXCEPT ![w] = "unsafe_destination"]
    /\ UNCHANGED <<original, file, staged>>

(* A destination that cannot be read, or has become a symlink, ends it.    *)
Capture(w) ==
    /\ pc[w] = "capture"
    /\ \/ /\ original' = [original EXCEPT ![w][Pair[next[w]]] = file[Pair[next[w]]]]
          /\ Loop(w, "capture", "stage") /\ UNCHANGED result
       \/ /\ Goto(w, "over", 1) /\ result' = [result EXCEPT ![w] = "unsafe_destination"]
          /\ UNCHANGED original
    /\ UNCHANGED <<file, staged>>

Stage(w) ==
    /\ pc[w] = "stage"
    /\ \/ /\ staged' = [staged EXCEPT ![Pair[next[w]]] = @ \cup {w}]
          /\ Loop(w, "stage", "replace") /\ UNCHANGED result
       \/ Leave(w, "persistence") /\ UNCHANGED staged
    /\ UNCHANGED <<original, file>>

(* Renaming consumes the temporary.  A failure is compensated, and the     *)
(* compensation has something to do only at the second file.               *)
Replace(w) ==
    LET f == Pair[next[w]]
    IN  /\ pc[w] = "replace"
        /\ \/ /\ file' = [file EXCEPT ![f] = w]
              /\ staged' = [staged EXCEPT ![f] = @ \ {w}]
              /\ Loop(w, "replace", "sync") /\ UNCHANGED result
           \/ /\ UNCHANGED <<file, staged>>
              /\ IF next[w] = 1 THEN Leave(w, "persistence")
                                ELSE Goto(w, "compare", 1) /\ UNCHANGED result
        /\ UNCHANGED original

(* Mutated form: the replaced binding is left in place. *)
ForgetBinding(w) ==
    /\ pc[w] = "compare" /\ Leave(w, "persistence")
    /\ UNCHANGED <<original, file, staged>>

(* The replaced binding is restored only if it is still what was put there. *)
Compare(w) ==
    /\ pc[w] = "compare"
    /\ IF file["binding"] = w THEN Goto(w, "restore", 1) /\ UNCHANGED result
                              ELSE Leave(w, "persistence")
    /\ UNCHANGED <<original, file, staged>>

(* Unlinked if it was absent, else replaced by the original; failures of   *)
(* this are swallowed.                                                     *)
Restore(w) ==
    /\ pc[w] = "restore"
    /\ \/ file' = [file EXCEPT !["binding"] = original[w]["binding"]]
       \/ "restore" \in faults /\ UNCHANGED file
    /\ Leave(w, "persistence")
    /\ UNCHANGED <<original, staged>>

(* Both renames are done; a directory that cannot be synced is an error    *)
(* all the same.                                                           *)
Sync(w) ==
    /\ pc[w] = "sync"
    /\ \E outcome \in {"ok", "persistence"} : Leave(w, outcome)
    /\ UNCHANGED <<original, file, staged>>

(* Every temporary is removed; failures of this are swallowed. *)
Clean(w) ==
    /\ pc[w] = "clean"
    /\ \/ staged' = [staged EXCEPT ![Pair[next[w]]] = @ \ {w}]
       \/ "unlink" \in faults /\ UNCHANGED staged
    /\ Loop(w, "clean", "over")
    /\ UNCHANGED <<original, file, result>>

Crash(w) ==
    /\ "crash" \in faults /\ ~Over(w)
    /\ Goto(w, "over", 1) /\ result' = [result EXCEPT ![w] = "crashed"]
    /\ UNCHANGED <<original, file, staged>>

Next == faults' = faults /\ \E w \in Writers :
    \/ Prevalidate(w) \/ Capture(w) \/ Stage(w) \/ Replace(w) \/ Compare(w)
    \/ Restore(w) \/ Sync(w) \/ Clean(w) \/ Crash(w)

Spec == Init /\ [][Next]_vars

-----------------------------------------------------------------------------
TypeOK ==
    /\ faults \in FaultSets
    /\ pc \in [Writers -> {"new", "capture", "stage", "replace", "compare", "restore", "sync",
                           "clean", "over"}]
    /\ next \in [Writers -> 1 .. Len(Pair)]
    /\ original \in [Writers -> [Files -> Payloads]]
    /\ file \in [Files -> Payloads]
    /\ staged \in [Files -> SUBSET Writers]
    /\ result \in [Writers -> {"none", "ok", "unsafe_destination", "persistence", "crashed"}]

(* docs/superpowers/plans/2026-08-18-p6-history-execution-adapter.md:183:  *)
(* the binding and the controller configuration on disk cannot disagree.   *)
(* It is asked for when no writer is at work, none has died on the way and *)
(* no compensation can fail.                                               *)
PairNeverDisagrees ==
    /\ "restore" \notin faults
    /\ \A w \in Writers : Over(w) /\ result[w] # "crashed"
    => file["binding"] = file["config"]

(* What a writer reports is what is on disk: success means both files are  *)
(* its own, a failure that the pair is the one it found or, when only the  *)
(* directory could not be synced, its own.  A compensation that fails is   *)
(* the exception.                                                          *)
OutcomeIsTrue ==
    "restore" \notin faults => \A w \in Writers : pc[w] = "clean" =>
        CASE result[w] = "ok" -> \A f \in Files : file[f] = w
          [] result[w] = "persistence" -> file \in {original[w], [f \in Files |-> w]}

(* A writer that is over leaves no temporary file with private content,    *)
(* unless it died or could not remove it.                                  *)
NoLeftovers ==
    \A w \in Writers : Over(w) /\ result[w] # "crashed" /\ "unlink" \notin faults =>
        \A f \in Files : w \notin staged[f]

(* Whatever crashes or fails to be undone, a binding whose writer reported *)
(* success lies beside the configuration of the same writer.               *)
SuccessIsWhole ==
    \A w \in Writers : result[w] = "ok" /\ file["binding"] = w => file["config"] = w

(* Writers tell the truth: the pair belongs together, it is what a writer     *)
(* reported, a success is never half of a pair, and no other file remains.    *)
WritersTellTheTruth == PairNeverDisagrees /\ OutcomeIsTrue /\ SuccessIsWhole /\ NoLeftovers
================================================================================
