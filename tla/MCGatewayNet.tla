----------------------------- MODULE MCGatewayNet -----------------------------
(* GatewayNet with interchangeable brokers.                                 *)
EXTENDS GatewayNet

Symmetry == Permutations(Brokers)
=============================================================================
