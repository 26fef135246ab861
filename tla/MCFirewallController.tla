------------------------ MODULE MCFirewallController -------------------------
(* Instances of FirewallController for TLC. *)
EXTENDS FirewallController, TLC

Symmetry == Permutations(OwnNames)
=============================================================================
