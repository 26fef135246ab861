---------------------------- MODULE MCBlockTasks ----------------------------
(* Instances of BlockTasks for TLC. *)
EXTENDS BlockTasks, TLC

AllFailures == {"add", "remove", "enumerate"}
=============================================================================
