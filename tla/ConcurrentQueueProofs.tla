------------------------ MODULE ConcurrentQueueProofs ------------------------
(***************************************************************************)
(* Proofs about ConcurrentQueue, for any writers, readers and values.      *)
(***************************************************************************)
EXTENDS ConcurrentQueue, TLAPS

Critical == {"push", "check", "try", "pop"}

LEMMA TypeInit == QueueInit => QueueTypeOK
  BY QueueAssumption DEF QueueInit, QueueTypeOK, Threads

LEMMA TypeStep == QueueTypeOK /\ [QueueNext]_queueVars => QueueTypeOK'
  <1> SUFFICES ASSUME QueueTypeOK, [QueueNext]_queueVars
               PROVE  QueueTypeOK'
    OBVIOUS
  <1> USE QueueAssumption DEF QueueTypeOK, Threads, At, Goto, Waiters
  <1>1. ASSUME NEW w \in Writers, NEW v \in Values, BeginPush(w, v)
        PROVE  QueueTypeOK'
    BY <1>1 DEF BeginPush
  <1>2. ASSUME NEW w \in Writers, LockToPush(w)
        PROVE  QueueTypeOK'
    BY <1>2 DEF LockToPush
  <1>3. ASSUME NEW w \in Writers, PushAndUnlock(w)
        PROVE  QueueTypeOK'
    BY <1>3 DEF PushAndUnlock
  <1>4. ASSUME NEW w \in Writers, Notify(w)
        PROVE  QueueTypeOK'
    BY <1>4 DEF Notify
  <1>5. ASSUME NEW r \in Readers, BeginPop(r)
        PROVE  QueueTypeOK'
    BY <1>5 DEF BeginPop
  <1>6. ASSUME NEW r \in Readers, SpuriousWakeup(r)
        PROVE  QueueTypeOK'
    BY <1>6 DEF SpuriousWakeup
  <1>7. ASSUME NEW r \in Readers, Wait(r)
        PROVE  QueueTypeOK'
    BY <1>7 DEF Wait
  <1>8. ASSUME NEW r \in Readers, Wake(r)
        PROVE  QueueTypeOK'
    BY <1>8 DEF Wake
  <1>9. ASSUME NEW r \in Readers, FindValue(r)
        PROVE  QueueTypeOK'
    BY <1>9 DEF FindValue
  <1>10. ASSUME NEW r \in Readers, TryPop(r)
         PROVE  QueueTypeOK'
    BY <1>10 DEF TryPop
  <1>11. ASSUME NEW r \in Readers, PopAndUnlock(r)
         PROVE  QueueTypeOK'
    BY <1>11 DEF PopAndUnlock
  <1>12. CASE UNCHANGED queueVars
    BY <1>12 DEF queueVars
  <1>13. QED
    BY <1>1, <1>2, <1>3, <1>4, <1>5, <1>6, <1>7, <1>8, <1>9, <1>10, <1>11, <1>12
       DEF QueueNext, PushStep, PopStep

\* OneInCritical, thread by thread.
HolderInCritical == \A t \in Threads : pc[t] \in Critical <=> mutex = t

LEMMA OneByOne == ASSUME QueueTypeOK
                  PROVE  OneInCritical <=> HolderInCritical
  BY QueueAssumption
     DEF QueueTypeOK, OneInCritical, InCritical, HolderInCritical, Critical, Threads

LEMMA CriticalInit == QueueInit => HolderInCritical
  BY QueueAssumption DEF QueueInit, HolderInCritical, Critical, Threads

LEMMA CriticalStep ==
  QueueTypeOK /\ HolderInCritical /\ [QueueNext]_queueVars => HolderInCritical'
  <1> SUFFICES ASSUME QueueTypeOK, HolderInCritical, [QueueNext]_queueVars
               PROVE  HolderInCritical'
    OBVIOUS
  <1> USE QueueAssumption DEF QueueTypeOK, HolderInCritical, Critical, Threads, At, Goto, Waiters
  <1>1. ASSUME NEW w \in Writers, NEW v \in Values, BeginPush(w, v)
        PROVE  HolderInCritical'
    BY <1>1 DEF BeginPush
  <1>2. ASSUME NEW w \in Writers, LockToPush(w)
        PROVE  HolderInCritical'
    BY <1>2 DEF LockToPush
  <1>3. ASSUME NEW w \in Writers, PushAndUnlock(w)
        PROVE  HolderInCritical'
    BY <1>3 DEF PushAndUnlock
  <1>4. ASSUME NEW w \in Writers, Notify(w)
        PROVE  HolderInCritical'
    BY <1>4 DEF Notify
  <1>5. ASSUME NEW r \in Readers, BeginPop(r)
        PROVE  HolderInCritical'
    BY <1>5 DEF BeginPop
  <1>6. ASSUME NEW r \in Readers, SpuriousWakeup(r)
        PROVE  HolderInCritical'
    BY <1>6 DEF SpuriousWakeup
  <1>7. ASSUME NEW r \in Readers, Wait(r)
        PROVE  HolderInCritical'
    BY <1>7 DEF Wait
  <1>8. ASSUME NEW r \in Readers, Wake(r)
        PROVE  HolderInCritical'
    BY <1>8 DEF Wake
  <1>9. ASSUME NEW r \in Readers, FindValue(r)
        PROVE  HolderInCritical'
    BY <1>9 DEF FindValue
  <1>10. ASSUME NEW r \in Readers, TryPop(r)
         PROVE  HolderInCritical'
    BY <1>10 DEF TryPop
  <1>11. ASSUME NEW r \in Readers, PopAndUnlock(r)
         PROVE  HolderInCritical'
    BY <1>11 DEF PopAndUnlock
  <1>12. CASE UNCHANGED queueVars
    BY <1>12 DEF queueVars
  <1>13. QED
    BY <1>1, <1>2, <1>3, <1>4, <1>5, <1>6, <1>7, <1>8, <1>9, <1>10, <1>11, <1>12
       DEF QueueNext, PushStep, PopStep

LEMMA PopsInit == QueueInit => NeverPopsEmpty
  BY DEF QueueInit, NeverPopsEmpty, At, Threads

LEMMA PopsStep ==
  QueueTypeOK /\ HolderInCritical /\ NeverPopsEmpty /\ [QueueNext]_queueVars => NeverPopsEmpty'
  <1> SUFFICES ASSUME QueueTypeOK, HolderInCritical, NeverPopsEmpty, [QueueNext]_queueVars
               PROVE  NeverPopsEmpty'
    OBVIOUS
  <1> USE QueueAssumption
      DEF QueueTypeOK, HolderInCritical, NeverPopsEmpty, Critical, Threads, At, Goto, Waiters
  <1>1. ASSUME NEW w \in Writers, NEW v \in Values, BeginPush(w, v)
        PROVE  NeverPopsEmpty'
    BY <1>1 DEF BeginPush
  <1>2. ASSUME NEW w \in Writers, LockToPush(w)
        PROVE  NeverPopsEmpty'
    BY <1>2 DEF LockToPush
  <1>3. ASSUME NEW w \in Writers, PushAndUnlock(w)
        PROVE  NeverPopsEmpty'
    BY <1>3 DEF PushAndUnlock
  <1>4. ASSUME NEW w \in Writers, Notify(w)
        PROVE  NeverPopsEmpty'
    BY <1>4 DEF Notify
  <1>5. ASSUME NEW r \in Readers, BeginPop(r)
        PROVE  NeverPopsEmpty'
    BY <1>5 DEF BeginPop
  <1>6. ASSUME NEW r \in Readers, SpuriousWakeup(r)
        PROVE  NeverPopsEmpty'
    BY <1>6 DEF SpuriousWakeup
  <1>7. ASSUME NEW r \in Readers, Wait(r)
        PROVE  NeverPopsEmpty'
    BY <1>7 DEF Wait
  <1>8. ASSUME NEW r \in Readers, Wake(r)
        PROVE  NeverPopsEmpty'
    BY <1>8 DEF Wake
  <1>9. ASSUME NEW r \in Readers, FindValue(r)
        PROVE  NeverPopsEmpty'
    BY <1>9 DEF FindValue
  <1>10. ASSUME NEW r \in Readers, TryPop(r)
         PROVE  NeverPopsEmpty'
    BY <1>10 DEF TryPop
  <1>11. ASSUME NEW r \in Readers, PopAndUnlock(r)
         PROVE  NeverPopsEmpty'
    BY <1>11 DEF PopAndUnlock
  <1>12. CASE UNCHANGED queueVars
    BY <1>12 DEF queueVars
  <1>13. QED
    BY <1>1, <1>2, <1>3, <1>4, <1>5, <1>6, <1>7, <1>8, <1>9, <1>10, <1>11, <1>12
       DEF QueueNext, PushStep, PopStep

LEMMA WakeupInit == QueueInit => NoLostWakeup
  BY DEF QueueInit, NoLostWakeup

LEMMA WakeupStep == QueueTypeOK /\ NoLostWakeup /\ [QueueNext]_queueVars => NoLostWakeup'
  <1> SUFFICES ASSUME QueueTypeOK, NoLostWakeup, [QueueNext]_queueVars
               PROVE  NoLostWakeup'
    OBVIOUS
  <1> USE QueueAssumption DEF QueueTypeOK, NoLostWakeup, Threads, At, Goto, Waiters
  <1>1. ASSUME NEW w \in Writers, NEW v \in Values, BeginPush(w, v)
        PROVE  NoLostWakeup'
    BY <1>1 DEF BeginPush
  <1>2. ASSUME NEW w \in Writers, LockToPush(w)
        PROVE  NoLostWakeup'
    BY <1>2 DEF LockToPush
  <1>3. ASSUME NEW w \in Writers, PushAndUnlock(w)
        PROVE  NoLostWakeup'
    BY <1>3 DEF PushAndUnlock
  <1>4. ASSUME NEW w \in Writers, Notify(w)
        PROVE  NoLostWakeup'
    BY <1>4 DEF Notify
  <1>5. ASSUME NEW r \in Readers, BeginPop(r)
        PROVE  NoLostWakeup'
    BY <1>5 DEF BeginPop
  <1>6. ASSUME NEW r \in Readers, SpuriousWakeup(r)
        PROVE  NoLostWakeup'
    BY <1>6 DEF SpuriousWakeup
  <1>7. ASSUME NEW r \in Readers, Wait(r)
        PROVE  NoLostWakeup'
    BY <1>7 DEF Wait
  <1>8. ASSUME NEW r \in Readers, Wake(r)
        PROVE  NoLostWakeup'
    BY <1>8 DEF Wake
  <1>9. ASSUME NEW r \in Readers, FindValue(r)
        PROVE  NoLostWakeup'
    BY <1>9 DEF FindValue
  <1>10. ASSUME NEW r \in Readers, TryPop(r)
         PROVE  NoLostWakeup'
    BY <1>10 DEF TryPop
  <1>11. ASSUME NEW r \in Readers, PopAndUnlock(r)
         PROVE  NoLostWakeup'
    BY <1>11 DEF PopAndUnlock
  <1>12. CASE UNCHANGED queueVars
    BY <1>12 DEF queueVars
  <1>13. QED
    BY <1>1, <1>2, <1>3, <1>4, <1>5, <1>6, <1>7, <1>8, <1>9, <1>10, <1>11, <1>12
       DEF QueueNext, PushStep, PopStep

LEMMA InvInit == QueueInit => QueueInv
  <1> SUFFICES ASSUME QueueInit
               PROVE  QueueInv
    OBVIOUS
  <1>1. QueueTypeOK
    BY TypeInit
  <1>2. OneInCritical
    BY <1>1, CriticalInit, OneByOne
  <1>3. QED
    BY <1>1, <1>2, PopsInit, WakeupInit DEF QueueInv

LEMMA InvStep == QueueInv /\ [QueueNext]_queueVars => QueueInv'
  <1> SUFFICES ASSUME QueueInv, [QueueNext]_queueVars
               PROVE  QueueInv'
    OBVIOUS
  <1> USE DEF QueueInv
  <1>1. HolderInCritical
    BY OneByOne
  <1>2. QueueTypeOK'
    BY TypeStep
  <1>3. HolderInCritical'
    BY <1>1, CriticalStep
  <1>4. (OneInCritical <=> HolderInCritical)'
    BY <1>2, QueueAssumption
       DEF QueueTypeOK, OneInCritical, InCritical, HolderInCritical, Critical, Threads
  <1>5. NeverPopsEmpty'
    BY <1>1, PopsStep
  <1>6. NoLostWakeup'
    BY WakeupStep
  <1>7. QED
    BY <1>2, <1>3, <1>4, <1>5, <1>6

\* The inductive invariant of the queue (concurrent_queue.h:18-66).
THEOREM QueueInvariant == QueueSpec => []QueueInv
  BY InvInit, InvStep, PTL DEF QueueSpec

\* Between two synchronisation operations exactly the holder of the mutex is in
\* a critical section (concurrent_queue.h:20-22, 45-53, 58-65).
THEOREM MutualExclusion == QueueSpec => []OneInCritical
  <1>1. QueueInv => OneInCritical
    BY DEF QueueInv
  <1>2. QED
    BY <1>1, QueueInvariant, PTL

\* No reader takes the front of an empty queue (concurrent_queue.h:59-65).
THEOREM FrontExists == QueueSpec => []NeverPopsEmpty
  <1>1. QueueInv => NeverPopsEmpty
    BY DEF QueueInv
  <1>2. QED
    BY <1>1, QueueInvariant, PTL

\* When every reader waits although the queue holds a value, a notification is
\* still to come (concurrent_queue.h:18-24).
THEOREM WakeupsArrive == QueueSpec => []NoLostWakeup
  <1>1. QueueInv => NoLostWakeup
    BY DEF QueueInv
  <1>2. QED
    BY <1>1, QueueInvariant, PTL

-----------------------------------------------------------------------------
(* The refinement of FifoQueue: the step under the mutex that changes the  *)
(* queue is the abstract operation, every other step stutters.             *)

LEMMA FifoInitially == QueueInit => Fifo!FifoInit
  BY DEF QueueInit, Fifo!FifoInit

LEMMA FifoSteps == QueueTypeOK /\ [QueueNext]_queueVars => [Fifo!FifoNext]_Fifo!fifoVars
  <1> SUFFICES ASSUME QueueTypeOK, [QueueNext]_queueVars
               PROVE  Fifo!FifoNext \/ UNCHANGED <<queue, taken>>
    BY DEF Fifo!fifoVars
  <1>1. ASSUME NEW w \in Writers, PushAndUnlock(w)
        PROVE  Fifo!FifoNext
    <2>1. pushing[w] \in Values
      BY DEF QueueTypeOK
    <2>2. Fifo!Push(pushing[w])
      BY <1>1 DEF PushAndUnlock, Fifo!Push
    <2>3. QED
      BY <2>1, <2>2 DEF Fifo!FifoNext
  <1>2. ASSUME NEW r \in Readers, PopAndUnlock(r)
        PROVE  Fifo!FifoNext
    <2>1. Fifo!Take(r)
      BY <1>2 DEF PopAndUnlock, Fifo!Take
    <2>2. QED
      BY <2>1 DEF Fifo!FifoNext
  <1>3. ASSUME NEW w \in Writers,
               (\E v \in Values : BeginPush(w, v)) \/ LockToPush(w) \/ Notify(w)
        PROVE  UNCHANGED <<queue, taken>>
    BY <1>3 DEF BeginPush, LockToPush, Notify
  <1>4. ASSUME NEW r \in Readers,
               \/ BeginPop(r) \/ SpuriousWakeup(r) \/ Wait(r) \/ Wake(r)
               \/ FindValue(r) \/ TryPop(r)
        PROVE  UNCHANGED <<queue, taken>>
    BY <1>4 DEF BeginPop, SpuriousWakeup, Wait, Wake, FindValue, TryPop
  <1>5. CASE UNCHANGED queueVars
    BY <1>5 DEF queueVars
  <1>6. QED
    BY <1>1, <1>2, <1>3, <1>4, <1>5 DEF QueueNext, PushStep, PopStep

\* The queue implements an atomic first-in-first-out queue
\* (concurrent_queue.h:18-66).
THEOREM QueueImplementsFifo == QueueSpec => ImplementsFifo
  <1>1. QueueInv => QueueTypeOK
    BY DEF QueueInv
  <1>2. QED
    BY <1>1, QueueInvariant, FifoInitially, FifoSteps, PTL
       DEF QueueSpec, ImplementsFifo, Fifo!FifoSpec
=============================================================================
