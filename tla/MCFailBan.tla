----------------------------- MODULE MCFailBan ------------------------------
(* Instances of FailBan for TLC. *)
EXTENDS FailBan, TLC

Symmetry == Permutations(RuleNames)
=============================================================================
