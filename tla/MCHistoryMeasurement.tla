------------------------- MODULE MCHistoryMeasurement --------------------------
(* Small instances of the measurement adapter.  In a sequential history     *)
(* there are two requests for the same round, as two attempts of a search   *)
(* may make them, and one for the next; where adapters overlap they are all *)
(* started for the first round, and the GPUs stay as they are.              *)
EXTENDS HistoryMeasurement, TLC

CONSTANTS a1, a2

MCRequest(r, name) == [round |-> r, name |-> name]
MCSameRound == {MCRequest(0, "q1"), MCRequest(0, "q2")}
MCTwoRounds == MCSameRound \cup {MCRequest(1, "q1")}
MCForeign == [round |-> -1, name |-> "foreign"]
Symmetry == Permutations(Adapters)

Small == sequential \/ (gpu = "ok" /\ \A a \in Adapters : request[a] \in MCSameRound)
MCInit == Init /\ Small
MCNext == Next /\ Small'
MCSpec == MCInit /\ [][MCNext]_vars
================================================================================
