--------------------------- MODULE MCReproductionRun ---------------------------
(* Small instances of the reproduction driver: runs one after the other on a *)
(* root that is edited in between, or two at once.                           *)
EXTENDS ReproductionRun, TLC

CONSTANTS r1, r2, r3, v1, v2
Symmetry == Permutations(Runs) \cup Permutations(Versions)
================================================================================
