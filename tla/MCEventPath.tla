---------------------------- MODULE MCEventPath ----------------------------
(* Symmetry of the gateways and of the motes, for the runs of EventPath.   *)
EXTENDS EventPath, TLC

Symmetry == Permutations(Gateways) \cup Permutations(Motes)
=============================================================================
