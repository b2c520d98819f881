--------------------------- MODULE Stage4Closure ---------------------------
(***************************************************************************)
(* Stage4 feedback update and closure audit.  The merged measurement table *)
(* is rebuilt now and then; the models before and after feedback predict   *)
(* the feedback rows of the table they find; an evaluation is built from   *)
(* the table and both prediction sets, and the closure audit later judges  *)
(* that evaluation, the two completion reports, the frozen holdout and the *)
(* reproducibility audit against the table as it is then.                  *)
(*                                                                         *)
(* A row is a pair <<group, arm>>; a group's entry in the table is its     *)
(* role, the arms it has rows for and whether all their labels are finite. *)
(***************************************************************************)
EXTENDS Integers, Sequences, FiniteSets, Functions, FiniteSetsExt

CONSTANTS
  GroupIds,     \* the group ids that may occur
  Table,        \* the merged table at the start: [SUBSET GroupIds -> entry]
  Targets,      \* TARGETS
  Metrics,      \* prediction metrics to consider: [mae, width, coverage]
  Completions,  \* pairs of completion reports, baseline and feedback view
  Holdouts,     \* independent holdouts: [groups, labelled, models]
  Elections,    \* selected_candidate_counts of the cost report
  Heads,        \* the value heads the evaluation may be given
  Reruns,       \* reproducibility audits: [artifact -> [original, rerun]]
  Required,     \* REQUIRED_REPRO_ARTIFACTS
  MaxDrifts     \* bound: how often the table is rebuilt

Arms == {"tvm_auto|fp16", "tvm_auto|int8", "trt_engine|fp16", "trt_engine|int8"}
Roles == {"train", "locked_holdout", "online_feedback"}
\* ROLE_COUNTS
RoleCount == [r \in Roles |-> IF r = "online_feedback" THEN 4 ELSE 2]

None == <<>>
Pending == [status |-> "none"]
Entries == [role : Roles \cup {"other"}, arms : SUBSET Arms, finite : BOOLEAN]

\* Counts are of candidates by name; names are numbered in their order.
ASSUME ClosureAssumption ==
  /\ IsFiniteSet(GroupIds) /\ DOMAIN Table \subseteq GroupIds /\ Table \in [DOMAIN Table -> Entries]
  /\ \A e \in Elections : /\ IsFiniteSet(DOMAIN e) /\ DOMAIN e \subseteq Nat /\ DOMAIN e # {}
                           /\ \A n \in DOMAIN e : e[n] \in Nat
  /\ MaxDrifts \in Nat

VARIABLES
  table,       \* merged_rows
  drifts,      \* how often it was rebuilt
  before,      \* predictions of the baseline model: [ids, metrics], or None
  after,       \* predictions of the updated model
  heads,       \* canonical_value_heads handed to the evaluation
  evaluation,  \* the feedback-update report: [status, ...]
  evidence,    \* the other inputs of the audit
  audit        \* the closure audit: [status, ...]

closureVars == <<table, drifts, before, after, heads, evaluation, evidence, audit>>

----------------------------------------------------------------------------
(* The table *)

InRole(tab, r) == {g \in DOMAIN tab : tab[g].role = r}
RowsOf(tab, groups) == {<<g, a>> : g \in groups, a \in Arms} \cap UNION {{g} \X tab[g].arms : g \in DOMAIN tab}
FeedbackRows(tab) == RowsOf(tab, InRole(tab, "online_feedback"))
Whole(tab, g) == tab[g].arms = Arms /\ tab[g].finite

----------------------------------------------------------------------------
(* feedback_update_eval_v1 *)

\* Mutated form: a group that lacks an arm is let in.
RowsWithoutArms(tab) ==
  /\ \A g \in DOMAIN tab : tab[g].role \in Roles /\ tab[g].finite /\ tab[g].arms # {}
  /\ \A r \in Roles : Cardinality(InRole(tab, r)) = RoleCount[r]

\* _validate_rows: exactly eight groups of four arms, each in one role
ValidRows(tab) ==
  /\ \A g \in DOMAIN tab : tab[g].role \in Roles /\ Whole(tab, g)
  /\ \A r \in Roles : Cardinality(InRole(tab, r)) = RoleCount[r]

\* _prediction_summary: the predicted rows are the feedback rows
CoversFeedback(tab, predictions) == predictions.ids = FeedbackRows(tab)

\* _build_folds: one fold per feedback group, which its updated fit leaves out
BuildFolds(tab) ==
  LET feedback == InRole(tab, "online_feedback") IN
  {[heldout |-> h, baseline |-> InRole(tab, "train"), added |-> feedback \ {h},
    updated |-> InRole(tab, "train") \cup (feedback \ {h}), calibration |-> InRole(tab, "locked_holdout")] :
      h \in feedback}

----------------------------------------------------------------------------
(* closure_audit_v1 *)

\* _canonical_heads: the modal candidate, the smallest name of equals
CanonicalHead(election) ==
  CHOOSE n \in DOMAIN election :
    /\ \A m \in DOMAIN election : election[m] <= election[n]
    /\ \A m \in DOMAIN election : election[m] = election[n] => n <= m
Electable(election) == \A n \in DOMAIN election : election[n] > 0

\* _eligible_acquisitions, for the one policy that is not random
Eligible(completions) ==
  \A view \in {"baseline", "feedback"} :
    LET c == completions[view] IN
      /\ c.median <= c.randomMedian
      /\ c.rate >= c.randomRate

\* Mutated form: only groups with rows of every arm count as used.
UsedIfWhole(tab) == {g \in DOMAIN tab : Whole(tab, g)}
\* used_ids: any group with a row, however incomplete
Used(tab) == {g \in DOMAIN tab : tab[g].arms # {}}

\* _holdout_gate: four groups of both models, none of them used
HoldoutGate(holdout, tab) ==
  /\ Cardinality(holdout.groups) = 4
  /\ holdout.groups \cap Used(tab) = {}
  /\ holdout.models = {"codriving", "pyramid"}

\* expected_baseline, expected_calibration and expected_feedback
ExpectedGroups(tab, r, folds) == {g \in InRole(tab, r) : Whole(tab, g)}

FoldIsSound(f, feedback, baseline, calibration) ==
  /\ f.baseline = baseline /\ f.calibration = calibration
  /\ f.added = feedback \ {f.heldout}
  /\ f.updated = baseline \cup f.added
  /\ f.heldout \notin f.updated
  /\ f.updated \cap calibration = {}

\* _feedback_protocol_valid
ProtocolValid(report, canonical, tab) ==
  LET feedback == {f.heldout : f \in report.folds}
      baseline == ExpectedGroups(tab, "train", report.folds)
      calibration == ExpectedGroups(tab, "locked_holdout", report.folds)
      rows == RowsOf(tab, feedback)
  IN /\ Cardinality(report.folds) = 4 /\ Cardinality(feedback) = 4
     /\ baseline # {} /\ calibration # {} /\ baseline \cap calibration = {}
     /\ \A f \in report.folds : FoldIsSound(f, feedback, baseline, calibration)
     /\ feedback = ExpectedGroups(tab, "online_feedback", report.folds)
     /\ report.before.ids = rows /\ report.after.ids = rows /\ Cardinality(rows) = 16
     /\ report.heads = canonical

\* _reproducibility_valid: every required artifact came out byte for byte
ReproducibilityValid(rerun) ==
  /\ Required \subseteq DOMAIN rerun
  /\ \A a \in Required : rerun[a].original = rerun[a].rerun

\* _target_scoped_feedback_gain
ImprovedTargets(report) ==
  {x \in Targets :
     LET old == report.before.metrics[x]
         new == report.after.metrics[x]
     IN new.mae < old.mae /\ new.width <= old.width /\ new.coverage >= old.coverage}

\* every row in a role, and both sources present
RolesValid(tab) ==
  LET seen == {g \in DOMAIN tab : tab[g].arms # {}} IN
    /\ \A g \in seen : tab[g].role \in Roles
    /\ seen \cap InRole(tab, "online_feedback") # {}
    /\ seen \cap (InRole(tab, "train") \cup InRole(tab, "locked_holdout")) # {}

SourceRows(tab) ==
  LET count(rs) == Cardinality(RowsOf(tab, {g \in DOMAIN tab : tab[g].role \in rs})) IN
  [initial_coldstart |-> count({"train", "locked_holdout"}), online_feedback |-> count({"online_feedback"})]

----------------------------------------------------------------------------
ClosureInit ==
  /\ table = Table /\ drifts = 0
  /\ before = None /\ after = None
  /\ evaluation = Pending /\ audit = Pending
  /\ heads \in Heads
  /\ evidence \in [election : Elections, completions : Completions, holdout : Holdouts, rerun : Reruns]

\* the table is rebuilt: a group gains or loses a role, an arm, a label, or
\* all its rows; a new group arrives with some of its arms
Drift ==
  /\ drifts < MaxDrifts /\ audit.status = "none"
  /\ drifts' = drifts + 1
  /\ LET lost == CHOOSE a \in Arms : TRUE IN
     \/ \E g \in DOMAIN table :
          \/ \E r \in (Roles \cup {"other"}) \ {table[g].role} : table' = [table EXCEPT ![g].role = r]
          \/ table' = [table EXCEPT ![g].arms = @ \ {lost}]
          \/ table' = [table EXCEPT ![g].finite = FALSE]
          \/ table' = Restrict(table, DOMAIN table \ {g})
     \/ \E g \in GroupIds \ DOMAIN table, r \in Roles, missing \in {{}, {lost}} :
          table' = [h \in DOMAIN table \cup {g} |->
                      IF h = g THEN [role |-> r, arms |-> Arms \ missing, finite |-> TRUE] ELSE table[h]]
  /\ UNCHANGED <<before, after, heads, evaluation, evidence, audit>>

Predicted == [ids : {FeedbackRows(table)}, metrics : [Targets -> Metrics]]

\* the baseline model and the updated one predict the feedback rows they find
PredictBefore ==
  /\ before = None /\ before' \in Predicted
  /\ UNCHANGED <<table, drifts, after, heads, evaluation, evidence, audit>>

PredictAfter ==
  /\ before # None /\ after = None /\ after' \in Predicted
  /\ UNCHANGED <<table, drifts, before, heads, evaluation, evidence, audit>>

\* build_feedback_update_evaluation
Evaluate ==
  /\ after # None /\ evaluation.status = "none"
  /\ evaluation' =
       IF ValidRows(table) /\ CoversFeedback(table, before) /\ CoversFeedback(table, after)
       THEN [status |-> "built", folds |-> BuildFolds(table), before |-> before, after |-> after, heads |-> heads, rows |-> table]
       ELSE [status |-> "rejected"]
  /\ UNCHANGED <<table, drifts, before, after, heads, evidence, audit>>

\* the gates; the completion reports always reject the ranker and name the
\* quantile method, so those two gates are left out
Gates(report) ==
  LET canonical == CanonicalHead(evidence.election) IN
  [canonical_value_heads_frozen |-> report.heads = canonical,
   acquisition_not_worse_than_random |-> Eligible(evidence.completions),
   feedback_update_reproducible |-> ProtocolValid(report, canonical, table) /\ ReproducibilityValid(evidence.rerun),
   feedback_has_target_scoped_gain |-> ImprovedTargets(report) # {},
   training_source_roles_explicit |-> RolesValid(table),
   independent_holdout_frozen_before_labels |-> HoldoutGate(evidence.holdout, table)]

\* build_stage4_closure_audit: a count that is not positive, or a label in
\* the holdout, raises instead
Audit ==
  /\ evaluation.status = "built" /\ audit.status = "none"
  /\ audit' =
       IF ~Electable(evidence.election) \/ evidence.holdout.labelled THEN [status |-> "raised"]
       ELSE [status |-> IF \A k \in DOMAIN Gates(evaluation) : Gates(evaluation)[k] THEN "closed" ELSE "open",
             gates |-> Gates(evaluation), sources |-> SourceRows(table)]
  /\ UNCHANGED <<table, drifts, before, after, heads, evaluation, evidence>>

ClosureNext == Drift \/ PredictBefore \/ PredictAfter \/ Evaluate \/ Audit

ClosureSpec == ClosureInit /\ [][ClosureNext]_closureVars

----------------------------------------------------------------------------
(* Properties *)

Closed == audit.status = "closed"

\* Every variable has its type, and a report of the evaluator has one fold
\* per feedback group and predictions of sixteen rows.
ClosureTypeOK ==
  /\ DOMAIN table \subseteq GroupIds /\ Range(table) \subseteq Entries
  /\ drifts \in 0 .. MaxDrifts
  /\ evaluation.status = "built" =>
       /\ Cardinality(evaluation.folds) = 4
       /\ Cardinality(evaluation.before.ids) = 16 /\ Cardinality(evaluation.after.ids) = 16
  /\ audit.status \in {"none", "raised", "open", "closed"}

\* The audit derives the folds and the row sets of an evaluation anew; on the
\* table the evaluation was built from, with the heads it elects, it finds
\* the protocol valid: the two modules agree on what a valid update is.
FreshEvaluationIsAccepted ==
  audit.status \in {"open", "closed"} /\ evaluation.rows = table
    /\ evaluation.heads = CanonicalHead(evidence.election) /\ ReproducibilityValid(evidence.rerun)
    => audit.gates.feedback_update_reproducible

\* What is closed is the update of this table: its complete groups have the
\* roles they had when the evaluation was built, and the predictions of both
\* models are of the feedback rows it has now.
ClosedIsAboutThisTable ==
  Closed =>
    /\ \A g \in DOMAIN table : Whole(table, g) =>
         g \in DOMAIN evaluation.rows /\ evaluation.rows[g].role = table[g].role
    /\ before.ids = FeedbackRows(evaluation.rows) /\ after.ids = before.ids
    /\ RowsOf(table, InRole(evaluation.rows, "online_feedback")) = before.ids

\* In a closed audit nothing is judged on what it learned from: a held-out
\* group is in no fit or calibration set of its fold, and the independent
\* holdout shares no group with any row of the table, complete or not.
HoldoutIsUntouched ==
  Closed =>
    /\ \A f \in evaluation.folds : f.heldout \notin f.updated \cup f.baseline \cup f.calibration
    /\ \A g \in evidence.holdout.groups : g \notin DOMAIN table \/ table[g].arms = {}

\* The head whose update was evaluated is one that no other head beat: it was
\* selected on at least as many outer folds as any other.
HeadIsMostSelected ==
  Closed => \A n \in DOMAIN evidence.election : evidence.election[n] <= evidence.election[heads]

\* Feedback is worth its cost on one target at least: there the error fell,
\* and not because the interval of the same target grew or missed more rows.
GainIsNotBought ==
  Closed =>
    \E x \in Targets :
      /\ after.metrics[x].mae < before.metrics[x].mae
      /\ after.metrics[x].width <= before.metrics[x].width
      /\ after.metrics[x].coverage >= before.metrics[x].coverage

\* A closed audit says that no row of the table is without a role, and counts
\* each of them once.
EveryRowIsCounted ==
  Closed =>
    audit.sources.initial_coldstart + audit.sources.online_feedback
      = Cardinality(UNION {{g} \X table[g].arms : g \in DOMAIN table})

\* A closed audit can be relied on: it is about this table and all of its rows, on data that was
\* held out, of the head that was elected, with a gain that was not bought; and what was evaluated
\* on this very table is accepted.
ClosedIsSound ==
  /\ FreshEvaluationIsAccepted /\ ClosedIsAboutThisTable /\ EveryRowIsCounted
  /\ HoldoutIsUntouched /\ HeadIsMostSelected /\ GainIsNotBought
=============================================================================
