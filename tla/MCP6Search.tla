------------------------------ MODULE MCP6Search ------------------------------
(* Small candidate spaces for the P6 search.  Group h is in the frozen     *)
(* Gold176 holdout.                                                        *)
EXTENDS P6Search

Space(groups) == groups \X QModes
Reg(groups, ready) == [kind |-> "registry", rows |-> Space(groups), ready |-> ready]

(* One plan that covers the budget without h, and one that needs h for it. *)
MCPlans == {Space({"g1", "g2"}), Space({"g1", "h"})}

(* The two plans, and the three groups of the static mode; a registry      *)
(* may lack what one of its groups needs to be ready.                      *)
MCRegistries == {Reg({"g1", "g2"}, {"g1", "g2"}), Reg({"g1", "h"}, {"g1", "h"}),
                 Reg({"g1", "g2"}, {"g1"}), Reg({"g1", "g2", "h"}, {"g1", "g2", "h"}),
                 Reg({"g1", "g2", "h"}, {"g1", "g2"})}

(* A second attempt is started in framework mode only. *)
Small == frameworkMode \/ attempt <= 1
MCSpec == Init /\ [][Next /\ Small']_vars /\ Fairness
===============================================================================
