---------------------------- MODULE Stage7Trajectory ----------------------------
(***************************************************************************)
(* The online ablation of Stage7.  A trajectory is one variant with one    *)
(* seed; it asks for one batch per round.  select_stage7_round keeps no    *)
(* state: whoever calls it brings the request and the feedback of the      *)
(* round before, the genomes selected so far, the candidate pool and, for  *)
(* the feedback-free variant, the bundle frozen in round zero, and may     *)
(* bring any file of any trajectory by mistake.  The outcome goes to a     *)
(* path the caller names, which is never overwritten; nothing keeps a      *)
(* caller from asking for a round again, with another pool or model and at *)
(* another path, so a trajectory may fork and every fork may be continued. *)
(*                                                                         *)
(* A digest is the content it digests.  The policy is any function from    *)
(* predictions and candidates to a batch.  Rounds are counted from zero.   *)
(***************************************************************************)
EXTENDS Integers, FiniteSets, Sequences

CONSTANTS
    Trajectories,   \* [variant, seed] of the experiment
    Pools,          \* candidate pools a caller may bring
    Predictions,    \* what a fitted model can predict
    Policy,         \* batch chosen by [predictions][candidates]
    Draw,           \* batch drawn by [seed][candidates]
    OutputPaths,    \* paths the callers name for what is written
    BatchSize, RoundCount

Variants == {"full", "without_surrogate", "without_measured_feedback", "backend_blind"}
Genomes == UNION Pools
Rounds == 0..(RoundCount - 1)

ASSUME TrajectoryAssumption ==
    /\ BatchSize \in Nat \ {0} /\ RoundCount \in Nat \ {0}
    /\ \A t \in Trajectories : t.variant \in Variants
    /\ \A t, u \in Trajectories : t.variant = u.variant /\ t.seed = u.seed => t = u
    /\ IsFiniteSet(Genomes)
ASSUME PolicyAssumption ==
    \A c \in SUBSET Genomes : Cardinality(c) >= BatchSize =>
        /\ \A p \in Predictions :
              Policy[p][c] \subseteq c /\ Cardinality(Policy[p][c]) = BatchSize
        /\ \A t \in Trajectories :
              Draw[t.seed][c] \subseteq c /\ Cardinality(Draw[t.seed][c]) = BatchSize

VARIABLES
    out,         \* what lies at each path: nothing, a torn file, a selection
    feedback     \* what came back for the selection at each path

vars == <<out, feedback>>

Absent == [kind |-> "absent"]
Torn == [kind |-> "torn"]
Requests == {r \in {out[o] : o \in OutputPaths} : r.kind = "request"}
Files == {f \in {feedback[o] : o \in OutputPaths} : f.kind = "feedback"}
Selected(history) == UNION {history[i] : i \in 1..Len(history)}

Init ==
    /\ out = [o \in OutputPaths |-> Absent]
    /\ feedback = [o \in OutputPaths |-> Absent]

(* Mutated form: the history ends with the batch before. *)
RequestBehind(t, k, batch, history, pool, used) ==
    [kind |-> "request", variant |-> t.variant, seed |-> t.seed, round |-> k,
     batch |-> batch, history |-> history, pool |-> pool, used |-> used]
(* _stage5_request: the body whose hash is the identity of the request.     *)
(* "used" stands for the predictions in the acquisition next to it.         *)
Request(t, k, batch, history, pool, used) ==
    [kind |-> "request", variant |-> t.variant, seed |-> t.seed, round |-> k,
     batch |-> batch, history |-> Append(history, batch), pool |-> pool, used |-> used]

(* Mutated form: the answers are counted, and their request is not looked at. *)
AnswersAny(f, r) ==
    f.kind = "feedback" /\ Cardinality(f.rows) = BatchSize /\ f.terminal
(* validate_feedback_jsonl. *)
Answers(f, r) ==
    f.kind = "feedback" /\ f.rows = r.batch /\ f.request = r /\ f.terminal

(* Previous request of the same trajectory. *)
Precedes(r, t, k) == r.variant = t.variant /\ r.seed = t.seed /\ r.round = k - 1

(* _validate_a2_frozen: a bundle is published with every request of the      *)
(* variant, its identity is the caller's note, and what the bundle itself    *)
(* must agree with are seed and candidates, not the previous request.        *)
FrozenValid(q, t, pool) ==
    q.variant = "without_measured_feedback" /\ q.seed = t.seed /\ q.pool = pool

(* The four acquisitions: a seeded draw, or the Stage5 selection. *)
Choose(t, used, pool, history) ==
    LET free == pool \ Selected(history)
    IN  IF t.variant = "without_surrogate" THEN Draw[t.seed][free] ELSE Policy[used][free]

(* _write_idempotent: what is there must be the same; a new file can be torn. *)
Write(o, r) ==
    /\ out[o] = Absent
    /\ \E c \in {r, Torn} : out' = [out EXCEPT ![o] = c]

(* Round zero starts from nothing. *)
SelectFirst(o, t, pool, p) ==
    /\ Cardinality(pool) >= BatchSize
    /\ Write(o, Request(t, 0, Choose(t, p, pool, << >>), << >>, pool, p))
    /\ UNCHANGED feedback

(* A later round.  The caller brings a request and a feedback file, the       *)
(* genomes selected so far (which must be those of the request), a pool,      *)
(* predictions, and a frozen bundle, from which only the feedback-free        *)
(* variant predicts.                                                          *)
SelectNext(o, t, k) ==
    /\ k > 0
    /\ \E r \in {r \in Requests : Precedes(r, t, k)}, f \in Files :
        /\ Answers(f, r)
        /\ \E pool \in Pools :
            /\ Cardinality(pool \ Selected(r.history)) >= BatchSize
            /\ \E p \in IF t.variant = "without_measured_feedback"
                        THEN {q.used : q \in {q \in Requests : FrozenValid(q, t, pool)}}
                        ELSE Predictions :
                  Write(o, Request(t, k, Choose(t, p, pool, r.history), r.history, pool, p))
    /\ UNCHANGED feedback

(* The measurement of a published request: its rows, or not all of them,     *)
(* terminal or not.  A complete answer is not measured again.                *)
Measure(o) ==
    /\ out[o].kind = "request"
    /\ feedback[o] = Absent \/ ~Answers(feedback[o], out[o])
    /\ \E rows \in {out[o].batch, {}}, b \in BOOLEAN :
          feedback' = [feedback EXCEPT ![o] =
              [kind |-> "feedback", request |-> out[o], rows |-> rows, terminal |-> b]]
    /\ UNCHANGED out

(* Somebody removes an output that was torn by a crash. *)
Discard(o) ==
    /\ out[o] = Torn
    /\ out' = [out EXCEPT ![o] = Absent] /\ UNCHANGED feedback

Next ==
    \E o \in OutputPaths :
        \/ \E t \in Trajectories :
              \/ \E pool \in Pools, p \in Predictions : SelectFirst(o, t, pool, p)
              \/ \E k \in Rounds : SelectNext(o, t, k)
        \/ Measure(o) \/ Discard(o)
Spec == Init /\ [][Next]_vars

-------------------------------------------------------------------------------
(* Requests and feedback files are what the contracts say. *)
TypeOK ==
    /\ \A r \in Requests :
          /\ \E t \in Trajectories : r.variant = t.variant /\ r.seed = t.seed
          /\ r.round \in Rounds /\ Len(r.history) = r.round + 1
          /\ r.batch \subseteq Genomes /\ Cardinality(r.batch) = BatchSize
          /\ r.pool \in Pools /\ r.used \in Predictions
    /\ \A f \in Files : f.rows \subseteq Genomes /\ f.terminal \in BOOLEAN

(* q is what the trajectory that r belongs to asked for in its round j.      *)
IsRound(q, j, r) ==
    /\ q.variant = r.variant /\ q.seed = r.seed /\ q.round = j
    /\ q.batch = r.history[j + 1] /\ Len(q.history) = j + 1
    /\ \A i \in 1..(j + 1) : q.history[i] = r.history[i]

(* Whichever files were brought, and however often the trajectory was forked *)
(* (search_policy_v1.py 315-349): behind every request stands one request of *)
(* the same variant and seed for each round since round zero, their batches  *)
(* are disjoint, and each but the last was measured as a whole, for exactly  *)
(* that request, before it was continued.  No round is skipped, no genome is *)
(* measured twice in one chain, none is taken over from a fork or from       *)
(* another trajectory.                                                       *)
EveryChainIsMeasured ==
    \A r \in Requests :
        /\ Cardinality(Selected(r.history)) = BatchSize * (r.round + 1)
        /\ \A j \in 0..r.round : \E q \in Requests :
              /\ IsRound(q, j, r)
              /\ j < r.round => \E f \in Files : f.request = q /\ f.rows = q.batch /\ f.terminal

(* The feedback-free ablation learns nothing later: every round of it        *)
(* selects with predictions that were frozen in a round zero of its seed,    *)
(* over the candidates they were frozen for (185-209).  It need not be the   *)
(* round zero of its own chain: nothing in a request names the bundle.       *)
FrozenNeverLearns ==
    \A r \in Requests : r.variant = "without_measured_feedback" =>
        \E q \in Requests :
            /\ q.variant = r.variant /\ q.seed = r.seed /\ q.round = 0
            /\ q.used = r.used /\ q.pool = r.pool

(* Every request ends one chain of measured rounds, of which only the        *)
(* variants that may learn from them have learned.                           *)
TrajectoryIsSound == EveryChainIsMeasured /\ FrozenNeverLearns

================================================================================
