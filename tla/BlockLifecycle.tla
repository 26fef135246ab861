--------------------------- MODULE BlockLifecycle ---------------------------
(***************************************************************************)
(* What the blocking pipeline promises of one block, identified by its     *)
(* firewall rule name: it is requested, put in force at most once, and     *)
(* lifted after that, never before.  A block that could not be put in      *)
(* force, or that was in force and could not be lifted, is told apart.     *)
(* When the program ends it drops what is only requested, and what is in   *)
(* force stays in force until the program has started again.               *)
(***************************************************************************)
CONSTANTS
  Blocks,      \* identities of blocks
  MayFail      \* some firewall call may fail

VARIABLES
  stage,       \* how far each block has come
  alive        \* the program accepts requests

lifecycleVars == <<stage, alive>>

Stages == {"free", "requested", "refused", "enforced", "stuck"}

LifecycleInit ==
  /\ stage = [b \in Blocks |-> "free"]
  /\ alive = FALSE

Move(b, from, to) ==
  /\ stage[b] = from
  /\ stage' = [stage EXCEPT ![b] = to]
  /\ UNCHANGED alive

Request(b) == alive /\ Move(b, "free", "requested")
Enforce(b) == alive /\ Move(b, "requested", "enforced")
Refuse(b) == alive /\ MayFail /\ Move(b, "requested", "refused")
Forget(b) == alive /\ Move(b, "refused", "free")
Lift(b) == Move(b, "enforced", "free")
FailToLift(b) == MayFail /\ Move(b, "enforced", "stuck")

\* The program ends: only what is in the firewall is left of the blocks.
End ==
  /\ alive
  /\ alive' = FALSE
  /\ stage' = [b \in Blocks |-> IF stage[b] \in {"requested", "refused"} THEN "free" ELSE stage[b]]

\* The program starts again and sets out to lift what is still in force; when
\* something fails it may miss some of that.
Retry ==
  /\ ~alive
  /\ \E missed \in SUBSET Blocks :
       /\ missed = {} \/ MayFail
       /\ stage' = [b \in Blocks |-> IF stage[b] \notin {"enforced", "stuck"} THEN stage[b]
                                     ELSE IF b \in missed THEN "stuck" ELSE "enforced"]
  /\ UNCHANGED alive

\* The program accepts requests.  A block of an earlier run is still in force
\* only when it could not be lifted.
Resume ==
  /\ ~alive
  /\ \A b \in Blocks : stage[b] # "enforced"
  /\ alive' = TRUE
  /\ UNCHANGED stage

LifecycleNext ==
  \/ \E b \in Blocks :
       Request(b) \/ Enforce(b) \/ Refuse(b) \/ Forget(b) \/ Lift(b) \/ FailToLift(b)
  \/ End \/ Retry \/ Resume

LifecycleSpec == LifecycleInit /\ [][LifecycleNext]_lifecycleVars
=============================================================================
