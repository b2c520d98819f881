---------------------------- MODULE MCStage2Gate ----------------------------
(* Manifests for Stage2Gate: one in the repository, and one of the same name in a demonstration root. *)
EXTENDS Stage2Gate

MCPaths == {"repo", "demo"}
MCTargets == {"repo"}
MCIdentity == [p \in MCPaths |-> <<"partition">>]

Plan(ckpt) == <<[ckpt |-> ckpt, manual |-> FALSE, review |-> FALSE, confidence |-> "high", skips |-> {}]>>
Unbuilt == <<[ckpt |-> "unsaid", manual |-> TRUE, review |-> TRUE, confidence |-> "low", skips |-> {}]>>

Good == [scan |-> "ok", model |-> "codriving", ckpt |-> "ok", plan |-> Plan("ok"), legacy |-> {"fusion", "sparse"},
         typed |-> AdapterSkips({"fusion", "sparse"}), hw |-> "rtx4090", points |-> <<"diagnostic_only", "active">>]
Old == [Good EXCEPT !.plan = None, !.legacy = {"fusion", "other", "sparse"}, !.typed = {}]
Pruned == [Good EXCEPT !.hw = "h800", !.points = <<"active">>]
Untrained == [Good EXCEPT !.ckpt = "missing", !.plan = Unbuilt]
Planless == [Good EXCEPT !.plan = Plan("missing_architecture_scan_only")]
Fused == [Good EXCEPT !.model = "attfuse", !.typed = AdapterSkips({"attention"}), !.legacy = {"attention"}]
Failed == [scan |-> "fail", model |-> "codriving", ckpt |-> "unknown", plan |-> None, legacy |-> {}, typed |-> {},
           hw |-> "rtx4090", points |-> <<>>]

MCContents == {Good, Old, Pruned, Untrained, Planless, Fused, Failed}
MCFirstManifests == {[p \in MCPaths |-> IF p = "repo" THEN c ELSE Pruned] : c \in {Good, Untrained, Planless}}
MCEvidence == {"dense_core"}
MCNever == {}
=============================================================================
