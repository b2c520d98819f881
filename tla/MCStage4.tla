------------------------------- MODULE MCStage4 -------------------------------
(* The Stage4 modules on small instances: a history looks at the feedback     *)
(* update and its closure audit (Stage4Closure), at the nested selection of a *)
(* cost model (NestedSelection), or at the ranking, replay and completion     *)
(* reports (AcquisitionReplay).                                               *)
EXTENDS Stage4Closure, NestedSelection, SequencesExt

CONSTANTS k1, k2, k3, k4       \* the groups of the nested selection

VARIABLES
  subject,                     \* "closure", "nested" or "replay"
  \* those of AcquisitionReplay
  forecast, arrival, weights, ranking, binding, replay, manifest, completion

----------------------------------------------------------------------------
(* Closure.  Histories in which the table is rebuilt look at one election,   *)
(* one set of reports and one target; those in which it stays look at all.   *)
Whole8(role) == [role |-> role, arms |-> Arms, finite |-> TRUE]
MCGroups == {"g0", "g1", "g2", "g3", "g4", "g5", "g6", "g7", "g8"}
MCTable ==
  [g \in MCGroups \ {"g8"} |->
     Whole8(IF g \in {"g0", "g1"} THEN "train"
            ELSE IF g \in {"g2", "g3"} THEN "locked_holdout" ELSE "online_feedback")]

Metric(m, w, c) == [mae |-> m, width |-> w, coverage |-> c]
MCMetrics == {Metric(2, 2, 1), Metric(1, 2, 1), Metric(1, 3, 1)}

View(m, r, rm, rr) == [median |-> m, rate |-> r, randomMedian |-> rm, randomRate |-> rr]
Eligible2 == [baseline |-> View(2, 1, 3, 1), feedback |-> View(2, 1, 2, 1)]
MCCompletions ==
  [baseline : {View(2, 1, 3, 1), View(3, 1, 2, 1)}, feedback : {View(2, 1, 2, 1), View(1, 0, 2, 1)}]

Fresh == {"h0", "h1", "h2"}
Holdout(groups, labelled, models) == [groups |-> groups, labelled |-> labelled, models |-> models]
\* the fourth group of the second holdout may later turn up in the table
Sound == {Holdout(Fresh \cup {g}, FALSE, {"codriving", "pyramid"}) : g \in {"h3", "g8"}}
MCHoldouts ==
  Sound \cup {Holdout(Fresh, FALSE, {"codriving", "pyramid"}),
              Holdout(Fresh \cup {"h3"}, FALSE, {"pyramid"}),
              Holdout(Fresh \cup {"h3"}, TRUE, {"codriving", "pyramid"})}

MCRequired == {"baseline", "feedback"}
Same == [a \in MCRequired |-> [original |-> 1, rerun |-> 1]]
\* a run that drifted, and one that lacks an artifact
MCReruns == {Same, [Same EXCEPT !["feedback"].rerun = 2], [a \in {"baseline"} |-> Same[a]]}

\* heads by rank of their name: 1 and 2
MCElections == {<<2, 1>>, <<1, 1>>, <<1, 2>>, <<3, 0>>}

Unchanging(p) == p = None \/ p.metrics["ap70"] = Metric(2, 2, 1)
Small ==
  drifts > 0 =>
    /\ evidence.election = <<2, 1>> /\ heads = 1 /\ evidence.completions = Eligible2
    /\ evidence.holdout \in Sound /\ evidence.rerun = Same
    /\ Unchanging(before) /\ Unchanging(after)

----------------------------------------------------------------------------
(* Nested selection: four groups, one of two rows that are not adjacent, two *)
(* targets and three candidates, two folds of either kind.                   *)
MCTargetOrder == <<"latency_ms", "ap70">>
MCRequested ==
  <<[name |-> "trees_log", encoding |-> "log"], [name |-> "l1_raw", encoding |-> "raw"],
    [name |-> "l1_residual", encoding |-> "residual"]>>
MCRowGroup == <<k1, k2, k3, k4, k2>>

----------------------------------------------------------------------------
(* Replay: two groups of two arms.                                           *)
Forecast(l, e, a, u) == [latency |-> l, energy |-> e, ap70 |-> a, uncertainty |-> u]
Plain == Forecast(1, 2, 1, 0)
\* trade-offs of two and of three objectives, and equals
MCForecasts == {Forecast(l, 3 - l, a, u) : l \in {1, 2}, a \in {0, 1}, u \in {0, 1}}

InOrder == <<<<1, 1>>, <<1, 2>>, <<2, 1>>, <<2, 2>>>>
MCArrivals == {InOrder, Reverse(InOrder), <<<<2, 1>>, <<1, 2>>, <<2, 2>>, <<1, 1>>>>}
Weights(l, e, a, u) == [latency |-> l, energy |-> e, ap70 |-> a, uncertainty |-> u]
Even == Weights(1, 1, 1, 1)

OofGroups == {"g0", "g1", "g2", "g3"}
Bound(f, g, h) == [fold |-> f, oof |-> g, candidate |-> h]
Valid2 == <<Bound("f0", "g0", "g1"), Bound("f1", "g2", "g3")>>
MCBindings == [1 .. 2 -> [fold : {"f0", "f1"}, oof : OofGroups, candidate : OofGroups]]

Rows22 == {1, 2} \X {1, 2}
UpTo2(S) == {<<x>> : x \in S} \cup {<<x, y>> : x, y \in S}
MCFolds == [id : {1, 2}, groups : UpTo2({1, 2}), selected : UpTo2(Rows22)]
\* folds of one group, in any number up to the groups, or one of both
MCManifests ==
  {<<f>> : f \in MCFolds}
    \cup {<<f, h>> : f, h \in {x \in MCFolds : Len(x.groups) = Len(x.selected)}}
Whole2 == <<[id |-> 1, groups |-> <<1, 2>>, selected |-> <<<<1, 1>>, <<2, 2>>>>]>>

Acquisition == INSTANCE AcquisitionReplay WITH
  Groups <- {1, 2}, Arms <- {1, 2}, Forecasts <- MCForecasts, Arrivals <- MCArrivals,
  Weightings <- {Even, Weights(0, 0, 1, 0)}, FoldIds <- {"f0", "f1"},
  Bindings <- MCBindings, Manifests <- MCManifests
ASSUME ReplayAssumption == Acquisition!ReplayAssumption

Alike == [x \in Rows22 |-> Plain]
RankingInit == binding = Valid2 /\ manifest = Whole2 /\ Acquisition!Init
ReplayInit == forecast = Alike /\ arrival = InOrder /\ weights = Even /\ manifest = Whole2 /\ Acquisition!Init
CompletionInit == forecast = Alike /\ arrival = InOrder /\ weights = Even /\ binding = Valid2 /\ Acquisition!Init
\* the reports read nothing of each other: a history makes one of them
OneReport ==
  \/ ranking = None /\ replay = Pending
  \/ ranking = None /\ completion = Pending
  \/ replay = Pending /\ completion = Pending
NoReplay == RankingInit /\ forecast = Alike /\ arrival = InOrder /\ weights = Even

----------------------------------------------------------------------------
replayVars == <<forecast, arrival, weights, ranking, binding, replay, manifest, completion>>

NoClosure == ClosureInit /\ heads = 1 /\ evidence.election = <<2, 1>> /\ evidence.completions = Eligible2
               /\ evidence.holdout = Holdout(Fresh \cup {"h3"}, FALSE, {"codriving", "pyramid"})
               /\ evidence.rerun = Same

MCInit ==
  \/ subject = "closure" /\ ClosureInit /\ NestedInit /\ fault = "none" /\ NoReplay
  \/ subject = "nested" /\ NestedInit /\ NoClosure /\ NoReplay
  \/ subject = "replay" /\ (RankingInit \/ ReplayInit \/ CompletionInit) /\ NoClosure /\ NestedInit /\ fault = "none"
MCNext ==
  \/ subject = "closure" /\ ClosureNext /\ Small' /\ UNCHANGED <<subject, nestedVars, replayVars>>
  \/ subject = "nested" /\ NestedNext /\ UNCHANGED <<subject, closureVars, replayVars>>
  \/ subject = "replay" /\ Acquisition!Next /\ OneReport' /\ UNCHANGED <<subject, closureVars, nestedVars>>
MCSpec == MCInit /\ [][MCNext]_<<subject, closureVars, nestedVars, replayVars>>

----------------------------------------------------------------------------
(* The types of the three reports. *)
TypesOK ==
  /\ ClosureTypeOK
  /\ NestedTypeOK
  /\ subject = "replay" => Acquisition!TypeOK

(* Frontiers cover what they leave out, the ranking starts with the best and  *)
(* does not depend on the order of arrival, no calibrated group is ranked,    *)
(* and an accepted completion selects one row of every group.                 *)
AcquisitionIsSound == subject = "replay" => Acquisition!AcquisitionIsSound
=============================================================================
