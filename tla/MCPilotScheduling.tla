------------------------- MODULE MCPilotScheduling -------------------------
(* Instances of PilotScheduling for TLC.                                   *)
EXTENDS PilotScheduling, TLC

(* Sound for the runs whose jobs are alike and that check no liveness.     *)
Symmetry == Permutations(Jobs) \union Permutations(Engines)
=============================================================================
