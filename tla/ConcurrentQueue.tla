--------------------------- MODULE ConcurrentQueue ---------------------------
(***************************************************************************)
(* concurrent_queue, which carries events from the subscription callbacks  *)
(* of the event-log service to the event threads: a std::queue guarded by  *)
(* a std::mutex, with a condition variable its readers wait on.  One step  *)
(* is what a thread does between two synchronisation operations.           *)
(***************************************************************************)
EXTENDS Integers, Sequences, FiniteSets

CONSTANTS
  Writers,   \* threads that push: SubscriptionCallback
  Readers,   \* threads that pop: the event threads
  Values,    \* what is pushed, each value at most once
  Nobody     \* m_mutex is free

ASSUME QueueAssumption ==
  /\ Writers \cap Readers = {}
  /\ Readers # {} /\ Values # {}
  /\ Nobody \notin Writers \cup Readers

Threads == Writers \cup Readers

VARIABLES
  queue,     \* m_queue
  mutex,     \* the thread that holds m_mutex, or Nobody
  pc,        \* where each thread is
  pushing,   \* the value each writer is pushing
  unsent,    \* values not pushed yet
  taken      \* for each reader, the values its pops returned, in order

queueVars == <<queue, mutex, pc, pushing, unsent, taken>>

At(t, here) == pc[t] = here
Goto(t, there) == pc' = [pc EXCEPT ![t] = there]
Waiters == {r \in Readers : At(r, "waiting")}

QueueInit ==
  /\ queue = <<>>
  /\ mutex = Nobody
  /\ pc = [t \in Threads |-> "out"]
  /\ pushing = [w \in Writers |-> CHOOSE v \in Values : TRUE]
  /\ unsent = Values
  /\ taken = [r \in Readers |-> <<>>]

-----------------------------------------------------------------------------
(* Faulty variants of the actions below, used to validate the properties.  *)

\* The writer forgets notify_one.
NotifyNobody(w) ==
  /\ At(w, "notify")
  /\ Goto(w, "out")
  /\ UNCHANGED <<queue, mutex, pushing, unsent, taken>>

\* push touches the queue without the lock.
PushWithoutLock(w) ==
  /\ At(w, "lock")
  /\ Goto(w, "push")
  /\ UNCHANGED <<queue, mutex, pushing, unsent, taken>>

\* "if" in place of "while": a reader woken up does not look again.
WakeToPop(r) ==
  /\ At(r, "woken")
  /\ mutex = Nobody
  /\ mutex' = r
  /\ Goto(r, "pop")
  /\ UNCHANGED <<queue, pushing, unsent, taken>>

\* The reader lets go of the mutex before it starts to wait.
UnlockBeforeWait(r) ==
  /\ \/ At(r, "check") /\ queue = <<>> /\ mutex' = Nobody /\ Goto(r, "unlocked")
     \/ At(r, "unlocked") /\ Goto(r, "waiting") /\ UNCHANGED mutex
  /\ UNCHANGED <<queue, pushing, unsent, taken>>

\* front and pop are called after the mutex was released.
PopUnlocked(r) ==
  /\ \/ /\ At(r, "pop")
        /\ queue # <<>>
        /\ taken' = [taken EXCEPT ![r] = Append(@, Head(queue))]
        /\ mutex' = Nobody
        /\ Goto(r, "remove")
        /\ UNCHANGED queue
     \/ /\ At(r, "remove")
        /\ queue' = Tail(queue)
        /\ Goto(r, "out")
        /\ UNCHANGED <<mutex, taken>>
  /\ UNCHANGED <<pushing, unsent>>

-----------------------------------------------------------------------------
(* push                                                                    *)

BeginPush(w, v) ==
  /\ At(w, "out")
  /\ v \in unsent
  /\ unsent' = unsent \ {v}
  /\ pushing' = [pushing EXCEPT ![w] = v]
  /\ Goto(w, "lock")
  /\ UNCHANGED <<queue, mutex, taken>>

\* The critical section: lock, m_queue.push, lock.unlock.
LockToPush(w) ==
  /\ At(w, "lock")
  /\ mutex = Nobody
  /\ mutex' = w
  /\ Goto(w, "push")
  /\ UNCHANGED <<queue, pushing, unsent, taken>>

PushAndUnlock(w) ==
  /\ At(w, "push")
  /\ queue' = Append(queue, pushing[w])
  /\ mutex' = Nobody
  /\ Goto(w, "notify")
  /\ UNCHANGED <<pushing, unsent, taken>>

\* notify_one, without the mutex: wakes one waiting reader if there is one.
Notify(w) ==
  /\ At(w, "notify")
  /\ \/ \E r \in Waiters : pc' = [pc EXCEPT ![w] = "out", ![r] = "woken"]
     \/ Waiters = {} /\ Goto(w, "out")
  /\ UNCHANGED <<queue, mutex, pushing, unsent, taken>>

-----------------------------------------------------------------------------
(* pop, wait_pop and try_pop                                               *)

BeginPop(r) ==
  /\ At(r, "out")
  /\ mutex = Nobody
  /\ mutex' = r
  /\ Goto(r, "check") \/ Goto(r, "try")
  /\ UNCHANGED <<queue, pushing, unsent, taken>>

\* wait_pop on an empty queue: wait releases the mutex and waits at once.
Wait(r) ==
  /\ At(r, "check")
  /\ queue = <<>>
  /\ mutex' = Nobody
  /\ Goto(r, "waiting")
  /\ UNCHANGED <<queue, pushing, unsent, taken>>

\* The condition variable may wake a reader without a notification.
SpuriousWakeup(r) ==
  /\ At(r, "waiting")
  /\ Goto(r, "woken")
  /\ UNCHANGED <<queue, mutex, pushing, unsent, taken>>

\* wait returns with the mutex held, and the loop looks at the queue again.
Wake(r) ==
  /\ At(r, "woken")
  /\ mutex = Nobody
  /\ mutex' = r
  /\ Goto(r, "check")
  /\ UNCHANGED <<queue, pushing, unsent, taken>>

FindValue(r) ==
  /\ At(r, "check")
  /\ queue # <<>>
  /\ Goto(r, "pop")
  /\ UNCHANGED <<queue, mutex, pushing, unsent, taken>>

\* try_pop looks once: an empty queue makes it return false.
TryPop(r) ==
  /\ At(r, "try")
  /\ \/ queue = <<>> /\ mutex' = Nobody /\ Goto(r, "out")
     \/ queue # <<>> /\ UNCHANGED mutex /\ Goto(r, "pop")
  /\ UNCHANGED <<queue, pushing, unsent, taken>>

\* front, pop and the release of the mutex at the end of the scope.
PopAndUnlock(r) ==
  /\ At(r, "pop")
  /\ queue # <<>>
  /\ taken' = [taken EXCEPT ![r] = Append(@, Head(queue))]
  /\ queue' = Tail(queue)
  /\ mutex' = Nobody
  /\ Goto(r, "out")
  /\ UNCHANGED <<pushing, unsent>>

-----------------------------------------------------------------------------
PushStep(w) == LockToPush(w) \/ PushAndUnlock(w) \/ Notify(w)
PopStep(r) == Wait(r) \/ Wake(r) \/ FindValue(r) \/ TryPop(r) \/ PopAndUnlock(r)

QueueNext ==
  \/ \E w \in Writers, v \in Values : BeginPush(w, v)
  \/ \E w \in Writers : PushStep(w)
  \/ \E r \in Readers : BeginPop(r) \/ SpuriousWakeup(r) \/ PopStep(r)

QueueSpec == QueueInit /\ [][QueueNext]_queueVars

-----------------------------------------------------------------------------
(* Properties.                                                             *)

\* Every variable keeps its type.
QueueTypeOK ==
  /\ queue \in Seq(Values)
  /\ mutex \in Threads \cup {Nobody}
  /\ pc \in [Threads -> {"out", "lock", "push", "notify", "check", "try", "waiting",
                         "woken", "pop"}]
  /\ pushing \in [Writers -> Values]
  /\ unsent \subseteq Values
  /\ taken \in [Readers -> Seq(Values)]

\* Between two synchronisation operations exactly the holder of the mutex is
\* in a critical section (concurrent_queue.h:20-22, 45-53, 58-65).
InCritical == {t \in Threads : pc[t] \in {"push", "check", "try", "pop"}}
OneInCritical == InCritical = (IF mutex = Nobody THEN {} ELSE {mutex})

\* A reader never takes the front of an empty queue, even after a spurious
\* wakeup or when another reader came first (concurrent_queue.h:59-65).
NeverPopsEmpty == \A r \in Readers : At(r, "pop") => queue # <<>>

\* No wakeup is lost: when all readers wait although a value is in the queue,
\* a writer is still to notify one of them (concurrent_queue.h:18-24).
NoLostWakeup ==
  (queue # <<>> /\ \A r \in Readers : At(r, "waiting")) =>
    \E w \in Writers : At(w, "notify")

\* The invariant the proofs rest on.
QueueInv == QueueTypeOK /\ OneInCritical /\ NeverPopsEmpty /\ NoLostWakeup

\* push and pop are atomic and first-in-first-out.
Fifo == INSTANCE FifoQueue
ImplementsFifo == Fifo!FifoSpec
=============================================================================
