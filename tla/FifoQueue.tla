------------------------------ MODULE FifoQueue -----------------------------
(***************************************************************************)
(* What concurrent_queue promises: a first-in-first-out queue whose        *)
(* operations are atomic.                                                  *)
(***************************************************************************)
EXTENDS Sequences

CONSTANTS
  Values,    \* what may be pushed
  Readers    \* who may take values out

VARIABLES
  queue,     \* the values pushed and not yet taken
  taken      \* for each reader, the values it took, in order

fifoVars == <<queue, taken>>

FifoInit == queue = <<>> /\ taken = [r \in Readers |-> <<>>]

Push(v) == queue' = Append(queue, v) /\ UNCHANGED taken

Take(r) ==
  /\ queue # <<>>
  /\ queue' = Tail(queue)
  /\ taken' = [taken EXCEPT ![r] = Append(@, Head(queue))]

FifoNext == (\E v \in Values : Push(v)) \/ (\E r \in Readers : Take(r))

FifoSpec == FifoInit /\ [][FifoNext]_fifoVars
=============================================================================
