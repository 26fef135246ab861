-------------------------- MODULE BlockTasksProofs --------------------------
(***************************************************************************)
(* Proofs about the blocking pipeline, for any number of event threads,    *)
(* addresses, rule names, block times, failures and terminations.          *)
(***************************************************************************)
EXTENDS BlockTasks, SequenceTheorems, TLAPS

USE BlockTimesAssumption, TicksAssumption, TerminationsAssumption, NoTaskAssumption

-----------------------------------------------------------------------------
(* Lemmas about the operators of the model.                                *)

\* A positive block_time makes a timer that is armed.
LEMMA TimerLength ==
  ASSUME NEW time \in Int, time > 0
  PROVE  time * TicksPerSecond \in Nat /\ time * TicksPerSecond # Off
  <1>1. \A x, y \in Int : x > 0 /\ y > 0 => x * y > 0
    BY SMT
  <1>2. TicksPerSecond \in Int /\ TicksPerSecond > 0
    BY SMT
  <1>3. time * TicksPerSecond > 0
    BY <1>1, <1>2
  <1>4. time * TicksPerSecond \in Int
    BY <1>2, SMT
  <1>5. QED
    BY <1>3, <1>4, SMT DEF Off

\* Handlers the pipeline posts are handlers.
LEMMA HandlerTypes ==
  ASSUME NEW n \in RuleNames, NEW a \in Addresses
  PROVE  BlockOp(n, a) \in Handlers /\ UnblockOp(n) \in Handlers
  BY DEF BlockOp, UnblockOp, Handlers

\* What a handler of the queue carries.
LEMMA HandlerFields ==
  ASSUME NEW h \in Handlers
  PROVE  /\ h.op \in {"block", "unblock"}
         /\ h.name \in RuleNames
         /\ h.op = "block" => h.addr \in Addresses
  BY DEF Handlers

\* What an event thread's call carries.
LEMMA TaskFields ==
  ASSUME NEW k \in Tasks
  PROVE  /\ k.name \in RuleNames
         /\ k.addr \in Addresses
         /\ k.time \in Int
         /\ k.time > 0
  BY DEF Tasks

\* The queue after a handler joined it.
LEMMA QueueAfterPost ==
  ASSUME NEW S, NEW s \in Seq(S), NEW h \in S
  PROVE  /\ Len(s) \in Nat
         /\ DOMAIN s = 1 .. Len(s)
         /\ DOMAIN Append(s, h) = 1 .. Len(s) + 1
         /\ \A i \in 1 .. Len(s) : Append(s, h)[i] = s[i]
         /\ Append(s, h)[Len(s) + 1] = h
  BY AppendProperties, LenProperties

\* The queue after the io thread took its first handler.
LEMMA QueueAfterRun ==
  ASSUME NEW S, NEW s \in Seq(S), s # <<>>
  PROVE  /\ Len(s) \in Nat \ {0}
         /\ DOMAIN s = 1 .. Len(s)
         /\ DOMAIN Tail(s) = 1 .. Len(s) - 1
         /\ \A i \in 1 .. Len(s) - 1 : Tail(s)[i] = s[i + 1]
         /\ Head(s) = s[1]
  BY HeadTailProperties, LenProperties

-----------------------------------------------------------------------------
(* Typing.                                                                 *)

LEMMA TypingInit == TasksInit => TasksTypeOK
  BY EmptySeq DEF TasksInit, TasksTypeOK, Off, Handlers, Rules

\* A call in progress has its arguments.
LEMMA TypingStep ==
  ASSUME TasksTypeOK, IdleHasNoTask, [TasksNext]_taskVars
  PROVE  TasksTypeOK' /\ IdleHasNoTask'
  <1> USE DEF TasksTypeOK, IdleHasNoTask
  <1>1. ASSUME NEW t \in Threads, NEW a \in Addresses, NEW time \in BlockTimes,
               CreateBlockTasks(t, a, time)
        PROVE  TasksTypeOK' /\ IdleHasNoTask'
    <2>1. PICK n \in RuleNames \ NamesInUse :
            task' = [task EXCEPT ![t] = [name |-> n, addr |-> a, time |-> time]]
      BY <1>1 DEF CreateBlockTasks
    <2>2. [name |-> n, addr |-> a, time |-> time] \in Tasks
      BY <1>1 DEF CreateBlockTasks, Tasks
    <2>3. QED
      BY <1>1, <2>1, <2>2 DEF CreateBlockTasks
  <1>2. ASSUME NEW t \in Threads, AsyncBlock(t)
        PROVE  TasksTypeOK' /\ IdleHasNoTask'
    <2>1. task[t] \in Tasks
      BY <1>2 DEF AsyncBlock
    <2>2. BlockOp(task[t].name, task[t].addr) \in Handlers
      BY <2>1, TaskFields, HandlerTypes
    <2>3. handlers' \in Seq(Handlers)
      BY <1>2, <2>2, AppendProperties DEF AsyncBlock
    <2>4. QED
      BY <1>2, <2>3 DEF AsyncBlock
  <1>3. ASSUME NEW t \in Threads, AsyncUnblock(t)
        PROVE  TasksTypeOK' /\ IdleHasNoTask'
    <2>1. task[t] \in Tasks
      BY <1>3 DEF AsyncUnblock
    <2>2. task[t].time * TicksPerSecond \in Nat
      BY <2>1, TaskFields, TimerLength
    <2>3. QED
      BY <1>3, <2>2 DEF AsyncUnblock
  <1>4. ASSUME NEW t \in Threads, Return(t)
        PROVE  TasksTypeOK' /\ IdleHasNoTask'
    BY <1>4 DEF Return
  <1>5. ASSUME NEW n \in RuleNames, TimerExpires(n)
        PROVE  TasksTypeOK' /\ IdleHasNoTask'
    <2>1. UnblockOp(n) \in Handlers
      BY DEF UnblockOp, Handlers
    <2>2. handlers' \in Seq(Handlers)
      BY <1>5, <2>1, AppendProperties DEF TimerExpires
    <2>3. QED
      BY <1>5, <2>2 DEF TimerExpires
  <1>6. ASSUME RunBlock
        PROVE  TasksTypeOK' /\ IdleHasNoTask'
    <2>1. handlers' \in Seq(Handlers) /\ Head(handlers) \in Handlers
      BY <1>6, HeadTailProperties DEF RunBlock
    <2>2. [name |-> Head(handlers).name, addr |-> Head(handlers).addr] \in Rules
      BY <1>6, <2>1, HandlerFields DEF RunBlock, Rules
    <2>3. QED
      BY <1>6, <2>1, <2>2 DEF RunBlock
  <1>7. ASSUME RunUnblock
        PROVE  TasksTypeOK' /\ IdleHasNoTask'
    <2>1. handlers' \in Seq(Handlers) /\ Head(handlers) \in Handlers
      BY <1>7, HeadTailProperties DEF RunUnblock
    <2>2. Head(handlers).name \in RuleNames
      BY <2>1, HandlerFields
    <2>3. QED
      BY <1>7, <2>1, <2>2 DEF RunUnblock
  <1>8. ASSUME Tick
        PROVE  TasksTypeOK' /\ IdleHasNoTask'
    BY <1>8 DEF Tick, CountDown, Off
  <1>9. ASSUME Terminate
        PROVE  TasksTypeOK' /\ IdleHasNoTask'
    <2>1. handlers' \in Seq(Handlers)
      BY <1>9, EmptySeq DEF Terminate
    <2>2. QED
      BY <1>9, <2>1 DEF Terminate
  <1>10. ASSUME Start
         PROVE  TasksTypeOK' /\ IdleHasNoTask'
    <2>1. RuleNamesIn(rules) \subseteq RuleNames
      BY DEF RuleNamesIn, Rules
    <2>2. QED
      BY <1>10, <2>1 DEF Start
  <1>11. ASSUME NEW n \in RuleNames, RemoveLeftover(n)
         PROVE  TasksTypeOK' /\ IdleHasNoTask'
    BY <1>11 DEF RemoveLeftover
  <1>12. ASSUME StartThreads
         PROVE  TasksTypeOK' /\ IdleHasNoTask'
    BY <1>12 DEF StartThreads
  <1>13. ASSUME UNCHANGED taskVars
         PROVE  TasksTypeOK' /\ IdleHasNoTask'
    BY <1>13 DEF taskVars
  <1>14. QED
    BY <1>1, <1>2, <1>3, <1>4, <1>5, <1>6, <1>7, <1>8, <1>9, <1>10, <1>11,
       <1>12, <1>13 DEF TasksNext, IoStep, CleanupStep

\* Every variable keeps its type, for every value of the constants.
THEOREM TypeCorrect == TasksSpec => []TasksTypeOK
  <1>1. TasksInit => TasksTypeOK /\ IdleHasNoTask
    BY TypingInit DEF TasksInit, IdleHasNoTask
  <1>2. (TasksTypeOK /\ IdleHasNoTask) /\ [TasksNext]_taskVars
          => (TasksTypeOK /\ IdleHasNoTask)'
    BY TypingStep
  <1>3. QED
    BY <1>1, <1>2, PTL DEF TasksSpec

-----------------------------------------------------------------------------
(* No rule is orphaned.                                                    *)

LEMMA PipelineInvInit == TasksInit => PipelineInv
  <1>1. TasksInit => TasksTypeOK /\ IdleHasNoTask
    BY TypingInit DEF TasksInit, IdleHasNoTask
  <1>2. TasksInit => QuietUnlessRunning /\ CleanupCovers
    BY DEF TasksInit, QuietUnlessRunning, CleanupCovers
  <1>3. TasksInit => EveryBlockHasRemoval /\ NoOrphanRule
    BY DEF TasksInit, EveryBlockHasRemoval, NoOrphanRule
  <1>4. QED
    BY <1>1, <1>2, <1>3 DEF PipelineInv

\* A rule of the firewall carries a rule name.
LEMMA RuleFields ==
  ASSUME TasksTypeOK, NEW r \in rules
  PROVE  r.name \in RuleNames /\ r.name \in RuleNamesIn(rules)
  BY DEF TasksTypeOK, Rules, RuleNamesIn

\* What the invariant adds to typing.
Rest == QuietUnlessRunning /\ CleanupCovers /\ EveryBlockHasRemoval /\ NoOrphanRule

\* When the io thread takes the first handler, every handler behind it moves
\* one place to the front and the removals scheduled behind a place stay there.
LEMMA RemovalsAfterRun ==
  ASSUME TasksTypeOK, handlers # <<>>, handlers' = Tail(handlers),
         UNCHANGED <<pc, task, timer>>
  PROVE  /\ \A i \in DOMAIN handlers', n \in RuleNames :
              /\ i + 1 \in DOMAIN handlers
              /\ handlers'[i] = handlers[i + 1]
              /\ RemovalBehind(i + 1, n) => RemovalBehind(i, n)'
         /\ \A n \in RuleNames : RemovalBehind(1, n) => UnblockScheduled(n)'
         /\ \A n \in RuleNames :
              UnblockScheduled(n) => UnblockScheduled(n)' \/ IsUnblock(Head(handlers), n)
  <1>1. /\ Len(handlers) \in Nat \ {0}
        /\ DOMAIN handlers = 1 .. Len(handlers)
        /\ DOMAIN handlers' = 1 .. Len(handlers) - 1
        /\ \A i \in 1 .. Len(handlers) - 1 : handlers'[i] = handlers[i + 1]
        /\ Head(handlers) = handlers[1]
    BY QueueAfterRun DEF TasksTypeOK
  <1> DEFINE len == Len(handlers)
             q == handlers
             q1 == handlers'
  <1>2. /\ len \in Nat \ {0} /\ DOMAIN q = 1 .. len /\ DOMAIN q1 = 1 .. len - 1
        /\ \A i \in 1 .. len - 1 : q1[i] = q[i + 1]
        /\ Head(handlers) = q[1]
    BY <1>1
  <1> HIDE DEF len, q, q1
  <1>3. \A j \in DOMAIN q : j > 1 => j - 1 \in DOMAIN q1 /\ q1[j - 1] = q[j]
    BY <1>2, SMT
  <1>4. \A i \in DOMAIN q1 : i + 1 \in DOMAIN q /\ q1[i] = q[i + 1]
    BY <1>2, SMT
  <1>5. ASSUME NEW i \in DOMAIN q1, NEW n \in RuleNames, RemovalBehind(i + 1, n)
        PROVE  RemovalBehind(i, n)'
    <2>1. CASE \E j \in DOMAIN handlers : j > i + 1 /\ IsUnblock(handlers[j], n)
      <3>1. PICK j \in DOMAIN q : j > i + 1 /\ IsUnblock(q[j], n)
        BY <2>1 DEF q
      <3>2. j \in Int /\ i \in Int /\ j > 1 /\ j - 1 > i /\ i > 0
        BY <3>1, <1>2, SMT
      <3>3. j - 1 \in DOMAIN q1 /\ q1[j - 1] = q[j]
        BY <3>2, <1>3
      <3>4. \E k \in DOMAIN q1 : k > i /\ IsUnblock(q1[k], n)
        BY <3>1, <3>2, <3>3
      <3>5. QED
        BY <3>4 DEF RemovalBehind, q1
    <2>2. CASE ~ \E j \in DOMAIN handlers : j > i + 1 /\ IsUnblock(handlers[j], n)
      BY <1>5, <2>2 DEF RemovalBehind
    <2>3. QED
      BY <2>1, <2>2
  <1>6. ASSUME NEW n \in RuleNames, NEW j \in DOMAIN q, j > 1, IsUnblock(q[j], n)
        PROVE  UnblockScheduled(n)'
    <2>1. \E k \in DOMAIN q1 : IsUnblock(q1[k], n)
      BY <1>3, <1>6
    <2>2. QED
      BY <2>1 DEF UnblockScheduled, UnblockQueued, q1
  <1>7. ASSUME NEW n \in RuleNames, RemovalBehind(1, n)
        PROVE  UnblockScheduled(n)'
    BY <1>6, <1>7 DEF RemovalBehind, UnblockScheduled, q
  <1>8. ASSUME NEW n \in RuleNames, UnblockScheduled(n)
        PROVE  UnblockScheduled(n)' \/ IsUnblock(Head(handlers), n)
    <2>1. CASE UnblockQueued(n)
      <3>1. PICK j \in DOMAIN q : IsUnblock(q[j], n)
        BY <2>1 DEF UnblockQueued, q
      <3>2. j = 1 \/ j > 1
        BY <1>2, SMT
      <3>3. QED
        BY <3>1, <3>2, <1>2, <1>6
    <2>2. CASE ~UnblockQueued(n)
      BY <1>8, <2>2 DEF UnblockScheduled
    <2>3. QED
      BY <2>1, <2>2
  <1>9. QED
    BY <1>4, <1>5, <1>7, <1>8 DEF q, q1

LEMMA PipelineInvStep ==
  ASSUME PipelineInv, [TasksNext]_taskVars
  PROVE  PipelineInv'
  <1> USE DEF PipelineInv
  <1>0. TasksTypeOK' /\ IdleHasNoTask'
    BY TypingStep
  <1> SUFFICES Rest'
    BY <1>0 DEF Rest
  <1> USE DEF Rest
  <1>1. ASSUME NEW t \in Threads, NEW a \in Addresses, NEW time \in BlockTimes,
               CreateBlockTasks(t, a, time)
        PROVE  Rest'
    <2>1. \A u \in Threads : pc[u] = "arm" => pc'[u] = "arm" /\ task'[u] = task[u]
      BY <1>1 DEF CreateBlockTasks, TasksTypeOK
    <2>2. QuietUnlessRunning' /\ CleanupCovers'
      BY <1>1 DEF CreateBlockTasks, QuietUnlessRunning, CleanupCovers
    <2>3. EveryBlockHasRemoval'
      BY <1>1, <2>1 DEF CreateBlockTasks, EveryBlockHasRemoval, RemovalBehind
    <2>4. NoOrphanRule'
      BY <1>1, <2>1 DEF CreateBlockTasks, NoOrphanRule, UnblockScheduled, UnblockQueued
    <2>5. QED
      BY <2>2, <2>3, <2>4
  <1>2. ASSUME NEW t \in Threads, AsyncBlock(t)
        PROVE  Rest'
    <2> DEFINE h == BlockOp(task[t].name, task[t].addr)
    <2>1. task[t] \in Tasks /\ process = "running"
      BY <1>2 DEF AsyncBlock, TasksTypeOK, IdleHasNoTask, QuietUnlessRunning
    <2>2. h \in Handlers /\ ~(h.op = "unblock") /\ h.name = task[t].name
      BY <2>1, TaskFields, HandlerTypes DEF BlockOp
    <2>3. /\ Len(handlers) \in Nat
          /\ DOMAIN handlers = 1 .. Len(handlers)
          /\ DOMAIN handlers' = 1 .. Len(handlers) + 1
          /\ \A i \in 1 .. Len(handlers) : handlers'[i] = handlers[i]
          /\ handlers'[Len(handlers) + 1] = h
      BY <1>2, <2>2, QueueAfterPost DEF AsyncBlock, TasksTypeOK
    <2>4. /\ pc'[t] = "arm" /\ task' = task /\ timer' = timer
          /\ \A u \in Threads : pc[u] = "arm" => pc'[u] = "arm"
      BY <1>2 DEF AsyncBlock, TasksTypeOK
    <2>5. QuietUnlessRunning' /\ CleanupCovers'
      BY <1>2, <2>1 DEF AsyncBlock, QuietUnlessRunning, CleanupCovers
    <2>6. EveryBlockHasRemoval'
      <3> SUFFICES ASSUME NEW i \in 1 .. Len(handlers) + 1, NEW n \in RuleNames,
                          IsBlock(handlers'[i], n)
                   PROVE  RemovalBehind(i, n)'
        BY <2>3 DEF EveryBlockHasRemoval
      <3>1. CASE i = Len(handlers) + 1
        BY <3>1, <2>2, <2>3, <2>4 DEF IsBlock, RemovalBehind
      <3>2. CASE i \in 1 .. Len(handlers)
        <4>1. RemovalBehind(i, n)
          BY <3>2, <2>3 DEF EveryBlockHasRemoval
        <4>2. QED
          BY <4>1, <2>3, <2>4 DEF RemovalBehind
      <3>3. QED
        BY <3>1, <3>2, <2>3
    <2>7. NoOrphanRule'
      <3>1. \A n \in RuleNames : UnblockScheduled(n) => UnblockScheduled(n)'
        BY <2>3, <2>4 DEF UnblockScheduled, UnblockQueued
      <3>2. QED
        BY <1>2, <2>1, <3>1, RuleFields DEF AsyncBlock, NoOrphanRule
    <2>8. QED
      BY <2>5, <2>6, <2>7
  <1>3. ASSUME NEW t \in Threads, AsyncUnblock(t)
        PROVE  Rest'
    <2>1. task[t] \in Tasks /\ process = "running"
      BY <1>3 DEF AsyncUnblock, TasksTypeOK, IdleHasNoTask, QuietUnlessRunning
    <2>2. task[t].name \in RuleNames /\ task[t].time * TicksPerSecond # Off
      BY <2>1, TaskFields, TimerLength
    <2>3. /\ timer'[task[t].name] # Off
          /\ \A n \in RuleNames : timer[n] # Off => timer'[n] # Off
          /\ \A u \in Threads : u # t => pc'[u] = pc[u]
      BY <1>3, <2>2 DEF AsyncUnblock, TasksTypeOK
    <2>4. QuietUnlessRunning' /\ CleanupCovers'
      BY <1>3, <2>1 DEF AsyncUnblock, QuietUnlessRunning, CleanupCovers
    <2>5. EveryBlockHasRemoval'
      BY <1>3, <2>3 DEF AsyncUnblock, EveryBlockHasRemoval, RemovalBehind
    <2>6. NoOrphanRule'
      <3>1. \A n \in RuleNames : UnblockScheduled(n) => UnblockScheduled(n)'
        BY <1>3, <2>3 DEF AsyncUnblock, UnblockScheduled, UnblockQueued
      <3>2. QED
        BY <1>3, <2>1, <3>1, RuleFields DEF AsyncUnblock, NoOrphanRule
    <2>7. QED
      BY <2>4, <2>5, <2>6
  <1>4. ASSUME NEW t \in Threads, Return(t)
        PROVE  Rest'
    <2>1. \A u \in Threads : pc[u] = "arm" => pc'[u] = "arm" /\ task'[u] = task[u]
      BY <1>4 DEF Return, TasksTypeOK
    <2>2. QuietUnlessRunning' /\ CleanupCovers'
      BY <1>4 DEF Return, QuietUnlessRunning, CleanupCovers, TasksTypeOK
    <2>3. EveryBlockHasRemoval'
      BY <1>4, <2>1 DEF Return, EveryBlockHasRemoval, RemovalBehind
    <2>4. NoOrphanRule'
      BY <1>4, <2>1 DEF Return, NoOrphanRule, UnblockScheduled, UnblockQueued
    <2>5. QED
      BY <2>2, <2>3, <2>4
  <1>5. ASSUME NEW m \in RuleNames, TimerExpires(m)
        PROVE  Rest'
    <2>1. UnblockOp(m) \in Handlers /\ IsUnblock(UnblockOp(m), m)
          /\ \A n \in RuleNames : ~IsBlock(UnblockOp(m), n)
      BY DEF UnblockOp, Handlers, IsUnblock, IsBlock
    <2>2. /\ Len(handlers) \in Nat
          /\ DOMAIN handlers = 1 .. Len(handlers)
          /\ DOMAIN handlers' = 1 .. Len(handlers) + 1
          /\ \A i \in 1 .. Len(handlers) : handlers'[i] = handlers[i]
          /\ handlers'[Len(handlers) + 1] = UnblockOp(m)
      BY <1>5, <2>1, QueueAfterPost DEF TimerExpires, TasksTypeOK
    <2>3. \A n \in RuleNames \ {m} : timer'[n] = timer[n]
      BY <1>5 DEF TimerExpires, TasksTypeOK
    <2>4. QuietUnlessRunning' /\ CleanupCovers'
      BY <1>5 DEF TimerExpires, QuietUnlessRunning, CleanupCovers
    <2>5. EveryBlockHasRemoval'
      <3> SUFFICES ASSUME NEW i \in 1 .. Len(handlers), NEW n \in RuleNames,
                          IsBlock(handlers[i], n)
                   PROVE  RemovalBehind(i, n)'
        BY <2>1, <2>2 DEF EveryBlockHasRemoval
      <3>1. RemovalBehind(i, n)
        BY <2>2 DEF EveryBlockHasRemoval
      <3>2. CASE n = m
        BY <3>2, <2>1, <2>2 DEF RemovalBehind
      <3>3. CASE n # m
        BY <1>5, <3>1, <3>3, <2>2, <2>3 DEF TimerExpires, RemovalBehind
      <3>4. QED
        BY <3>2, <3>3
    <2>6. NoOrphanRule'
      <3>1. \A n \in RuleNames : UnblockScheduled(n) => UnblockScheduled(n)'
        BY <1>5, <2>1, <2>2, <2>3 DEF TimerExpires, UnblockScheduled, UnblockQueued
      <3>2. QED
        BY <1>5, <3>1, RuleFields DEF TimerExpires, NoOrphanRule
    <2>7. QED
      BY <2>4, <2>5, <2>6
  <1>6. ASSUME RunBlock
        PROVE  Rest'
    <2> PICK m : m = Head(handlers).name
      OBVIOUS
    <2>1. /\ handlers # <<>> /\ handlers' = Tail(handlers) /\ UNCHANGED <<pc, task, timer>>
          /\ Head(handlers).op = "block" /\ abandoned' = abandoned /\ process' = process
      BY <1>6 DEF RunBlock
    <2>2. process = "running"
      BY <2>1 DEF QuietUnlessRunning
    <2>3. QuietUnlessRunning' /\ CleanupCovers'
      BY <2>1, <2>2 DEF QuietUnlessRunning, CleanupCovers
    <2>4. EveryBlockHasRemoval'
      BY <2>1, RemovalsAfterRun DEF EveryBlockHasRemoval
    <2>5. NoOrphanRule'
      <3>1. \A n \in RuleNames : UnblockScheduled(n) => UnblockScheduled(n)'
        BY <2>1, RemovalsAfterRun DEF IsUnblock
      <3>2. m \in RuleNames /\ UnblockScheduled(m)'
        <4>1. 1 \in DOMAIN handlers /\ handlers[1] = Head(handlers) /\ m \in RuleNames
          BY <2>1, QueueAfterRun, HeadTailProperties, HandlerFields DEF TasksTypeOK
        <4>2. RemovalBehind(1, m)
          BY <4>1, <2>1 DEF EveryBlockHasRemoval, IsBlock
        <4>3. QED
          BY <4>1, <4>2, <2>1, RemovalsAfterRun
      <3>3. \A r \in rules' : r \in rules \/ r.name = m
        BY <1>6 DEF RunBlock
      <3>4. QED
        BY <2>1, <2>2, <3>1, <3>2, <3>3, RuleFields DEF NoOrphanRule
    <2>6. QED
      BY <2>3, <2>4, <2>5
  <1>7. ASSUME RunUnblock
        PROVE  Rest'
    <2> DEFINE m == Head(handlers).name
    <2>1. /\ handlers # <<>> /\ handlers' = Tail(handlers) /\ UNCHANGED <<pc, task, timer>>
          /\ process' = process
      BY <1>7 DEF RunUnblock
    <2>2. process = "running"
      BY <2>1 DEF QuietUnlessRunning
    <2>3. QuietUnlessRunning' /\ CleanupCovers'
      BY <2>1, <2>2 DEF QuietUnlessRunning, CleanupCovers
    <2>4. EveryBlockHasRemoval'
      BY <2>1, RemovalsAfterRun DEF EveryBlockHasRemoval
    <2>5. NoOrphanRule'
      <3>1. \A n \in RuleNames : UnblockScheduled(n) /\ n # m => UnblockScheduled(n)'
        BY <2>1, RemovalsAfterRun DEF IsUnblock
      <3>2. \A r \in rules' : r \in rules
        BY <1>7 DEF RunUnblock
      <3>3. \A r \in rules' : r.name = m => r.name \in abandoned'
        BY <1>7, RuleFields DEF RunUnblock
      <3>4. abandoned \subseteq abandoned'
        BY <1>7 DEF RunUnblock
      <3>5. QED
        BY <2>2, <3>1, <3>2, <3>3, <3>4, RuleFields DEF NoOrphanRule
    <2>6. QED
      BY <2>3, <2>4, <2>5
  <1>8. ASSUME Tick
        PROVE  Rest'
    <2>1. \A n \in RuleNames : timer[n] # Off => timer'[n] # Off
      BY <1>8 DEF Tick, CountDown, TasksTypeOK, Off
    <2>2. QuietUnlessRunning' /\ CleanupCovers'
      BY <1>8 DEF Tick, CountDown, QuietUnlessRunning, CleanupCovers
    <2>3. EveryBlockHasRemoval'
      BY <1>8, <2>1 DEF Tick, CountDown, EveryBlockHasRemoval, RemovalBehind
    <2>4. NoOrphanRule'
      BY <1>8, <2>1, RuleFields DEF Tick, CountDown, NoOrphanRule, UnblockScheduled, UnblockQueued
    <2>5. QED
      BY <2>2, <2>3, <2>4
  <1>9. ASSUME Terminate
        PROVE  Rest'
    BY <1>9 DEF Terminate, QuietUnlessRunning, CleanupCovers, EveryBlockHasRemoval,
                NoOrphanRule
  <1>10. ASSUME Start
         PROVE  Rest'
    <2>1. QuietUnlessRunning' /\ CleanupCovers'
      BY <1>10 DEF Start, QuietUnlessRunning, CleanupCovers
    <2>2. EveryBlockHasRemoval'
      BY <1>10 DEF Start, QuietUnlessRunning, EveryBlockHasRemoval
    <2>3. NoOrphanRule'
      BY <1>10, RuleFields DEF Start, NoOrphanRule
    <2>4. QED
      BY <2>1, <2>2, <2>3
  <1>11. ASSUME NEW m \in RuleNames, RemoveLeftover(m)
         PROVE  Rest'
    <2>1. QuietUnlessRunning' /\ NoOrphanRule'
      BY <1>11 DEF RemoveLeftover, QuietUnlessRunning, NoOrphanRule
    <2>2. CleanupCovers'
      BY <1>11 DEF RemoveLeftover, CleanupCovers, RuleNamesIn
    <2>3. EveryBlockHasRemoval'
      BY <1>11 DEF RemoveLeftover, EveryBlockHasRemoval, RemovalBehind
    <2>4. QED
      BY <2>1, <2>2, <2>3
  <1>12. ASSUME StartThreads
         PROVE  Rest'
    <2>1. QuietUnlessRunning' /\ CleanupCovers'
      BY <1>12 DEF StartThreads, QuietUnlessRunning, CleanupCovers
    <2>2. EveryBlockHasRemoval'
      BY <1>12 DEF StartThreads, QuietUnlessRunning, EveryBlockHasRemoval
    <2>3. NoOrphanRule'
      BY <1>12, RuleFields DEF StartThreads, CleanupCovers, NoOrphanRule
    <2>4. QED
      BY <2>1, <2>2, <2>3
  <1>13. ASSUME UNCHANGED taskVars
         PROVE  Rest'
    BY <1>13 DEF taskVars, QuietUnlessRunning, CleanupCovers, EveryBlockHasRemoval,
                 RemovalBehind, NoOrphanRule, UnblockScheduled, UnblockQueued, RuleNamesIn
  <1>14. QED
    BY <1>1, <1>2, <1>3, <1>4, <1>5, <1>6, <1>7, <1>8, <1>9, <1>10, <1>11,
       <1>12, <1>13 DEF TasksNext, IoStep, CleanupStep

\* The inductive invariant of the pipeline.
THEOREM PipelineInvariant == TasksSpec => []PipelineInv
  BY PipelineInvInit, PipelineInvStep, PTL DEF TasksSpec

\* Whatever the interleaving, while the program runs each of its rules has its
\* removal scheduled or an attempted removal of it failed (main.cpp:94-100).
THEOREM RulesAreLifted == TasksSpec => []NoOrphanRule
  <1>1. PipelineInv => NoOrphanRule
    BY DEF PipelineInv
  <1>2. QED
    BY <1>1, PipelineInvariant, PTL

-----------------------------------------------------------------------------
(* The block handler of a task runs before its unblock handler.            *)

\* A freshly drawn rule name is in no use.
LEMMA FreshName ==
  ASSUME NEW n \in RuleNames \ NamesInUse
  PROVE  /\ timer[n] = Off
         /\ \A i \in DOMAIN handlers : handlers[i].name # n
         /\ \A t \in Threads : task[t] # NoTask => task[t].name # n
  BY DEF NamesInUse

\* The two conjuncts of BlockRunsFirst by name.
QueueInOrder ==
  \A i, j \in DOMAIN handlers, n \in RuleNames :
    i < j => ~(IsUnblock(handlers[i], n) /\ IsBlock(handlers[j], n))
NothingToLiftYet ==
  \A t \in Threads :
    pc[t] = "post" => timer[task[t].name] = Off /\ ~UnblockQueued(task[t].name)

LEMMA OrderParts ==
  OrderInv <=> DistinctTasks /\ QueueInOrder /\ NothingToLiftYet /\ TimedOnce
  BY DEF OrderInv, BlockRunsFirst, QueueInOrder, NothingToLiftYet

\* A busy event thread has a task.
LEMMA BusyThread ==
  ASSUME PipelineInv, NEW t \in Threads, pc[t] # "idle"
  PROVE  task[t] \in Tasks /\ task[t] # NoTask /\ task[t].name \in RuleNames
  <1>1. task[t] \in Tasks
    BY DEF PipelineInv, TasksTypeOK, IdleHasNoTask
  <1>2. QED
    BY <1>1, TaskFields

LEMMA OrderInit == TasksInit => OrderInv
  BY OrderParts
     DEF TasksInit, DistinctTasks, QueueInOrder, NothingToLiftYet, TimedOnce, UnblockQueued

\* Only TimerExpires queues a removal, and only AsyncUnblock arms a timer.
LEMMA TimedStep ==
  ASSUME PipelineInv, OrderInv, [TasksNext]_taskVars
  PROVE  TimedOnce'
  <1>0. TasksTypeOK /\ TimedOnce /\ DistinctTasks /\ NothingToLiftYet
    BY OrderParts DEF PipelineInv
  <1>1. ASSUME NEW t \in Threads, NEW a \in Addresses, NEW time \in BlockTimes,
               CreateBlockTasks(t, a, time)
        PROVE  TimedOnce'
    BY <1>0, <1>1 DEF CreateBlockTasks, TasksTypeOK, TimedOnce, UnblockQueued
  <1>2. ASSUME NEW t \in Threads, AsyncBlock(t)
        PROVE  TimedOnce'
    <2> DEFINE h == BlockOp(task[t].name, task[t].addr)
    <2>1. task[t] \in Tasks /\ pc[t] = "post"
      BY <1>2, BusyThread DEF AsyncBlock
    <2>2. h \in Handlers /\ h.op = "block"
      BY <2>1, TaskFields, HandlerTypes DEF BlockOp
    <2>3. /\ DOMAIN handlers = 1 .. Len(handlers)
          /\ DOMAIN handlers' = 1 .. Len(handlers) + 1
          /\ \A i \in 1 .. Len(handlers) : handlers'[i] = handlers[i]
          /\ handlers'[Len(handlers) + 1] = h
      BY <1>0, <1>2, <2>2, QueueAfterPost DEF AsyncBlock, TasksTypeOK
    <2>4. \A n \in RuleNames : UnblockQueued(n)' => UnblockQueued(n)
      BY <2>2, <2>3 DEF UnblockQueued, IsUnblock
    <2>5. /\ pc'[t] = "arm" /\ task' = task /\ timer' = timer
          /\ \A u \in Threads : u # t => pc'[u] = pc[u]
      BY <1>0, <1>2 DEF AsyncBlock, TasksTypeOK
    <2>6. ASSUME NEW u \in Threads, pc'[u] = "arm"
          PROVE  (timer[task[u].name] = Off /\ ~UnblockQueued(task[u].name))'
      <3>1. pc[u] # "idle" /\ timer[task[u].name] = Off /\ ~UnblockQueued(task[u].name)
        BY <1>0, <2>1, <2>5, <2>6 DEF TimedOnce, NothingToLiftYet
      <3>2. task[u].name \in RuleNames
        BY <3>1, BusyThread
      <3>3. ~UnblockQueued(task[u].name)'
        BY <2>4, <2>5, <3>1, <3>2 DEF UnblockQueued
      <3>4. QED
        BY <2>5, <3>1, <3>3
    <2>7. QED
      BY <1>0, <2>4, <2>5, <2>6 DEF TimedOnce
  <1>3. ASSUME NEW t \in Threads, AsyncUnblock(t)
        PROVE  TimedOnce'
    <2>1. /\ pc[t] = "arm" /\ pc'[t] = "done" /\ task' = task /\ handlers' = handlers
          /\ \A u \in Threads : u # t => pc'[u] = pc[u]
          /\ \A n \in RuleNames : n # task[t].name => timer'[n] = timer[n]
      BY <1>0, <1>3 DEF AsyncUnblock, TasksTypeOK
    <2>2. ~UnblockQueued(task[t].name)
      BY <1>0, <2>1 DEF TimedOnce
    <2>3. QED
      BY <1>0, <2>1, <2>2, BusyThread DEF TimedOnce, DistinctTasks, UnblockQueued
  <1>4. ASSUME NEW t \in Threads, Return(t)
        PROVE  TimedOnce'
    BY <1>0, <1>4 DEF Return, TasksTypeOK, TimedOnce, UnblockQueued
  <1>5. ASSUME NEW m \in RuleNames, TimerExpires(m)
        PROVE  TimedOnce'
    <2>1. UnblockOp(m) \in Handlers /\ UnblockOp(m).name = m
      BY DEF UnblockOp, Handlers
    <2>2. /\ DOMAIN handlers = 1 .. Len(handlers)
          /\ DOMAIN handlers' = 1 .. Len(handlers) + 1
          /\ \A i \in 1 .. Len(handlers) : handlers'[i] = handlers[i]
          /\ handlers'[Len(handlers) + 1] = UnblockOp(m)
      BY <1>0, <1>5, <2>1, QueueAfterPost DEF TimerExpires, TasksTypeOK
    <2>3. /\ pc' = pc /\ task' = task /\ timer[m] # Off /\ timer'[m] = Off
          /\ \A n \in RuleNames : n # m => timer'[n] = timer[n]
      BY <1>0, <1>5 DEF TimerExpires, TasksTypeOK, Off
    <2>4. \A n \in RuleNames : UnblockQueued(n)' => UnblockQueued(n) \/ n = m
      BY <2>1, <2>2 DEF UnblockQueued, IsUnblock
    <2>5. QED
      BY <1>0, <2>3, <2>4, BusyThread DEF TimedOnce
  <1>6. ASSUME RunBlock \/ RunUnblock
        PROVE  TimedOnce'
    <2>1. handlers # <<>> /\ handlers' = Tail(handlers) /\ UNCHANGED <<pc, task, timer>>
      BY <1>6 DEF RunBlock, RunUnblock
    <2>2. \A i \in DOMAIN handlers' : i + 1 \in DOMAIN handlers /\ handlers'[i] = handlers[i + 1]
      BY <1>0, <2>1, QueueAfterRun DEF TasksTypeOK
    <2>3. \A n : UnblockQueued(n)' => UnblockQueued(n)
      BY <2>2 DEF UnblockQueued
    <2>4. QED
      BY <1>0, <2>1, <2>3 DEF TimedOnce
  <1>7. ASSUME Tick
        PROVE  TimedOnce'
    <2>1. \A n \in RuleNames : timer[n] = Off => timer'[n] = Off
      BY <1>0, <1>7 DEF Tick, CountDown, Off
    <2>2. QED
      BY <1>0, <1>7, <2>1, BusyThread DEF Tick, TimedOnce, UnblockQueued
  <1>8. ASSUME Terminate
        PROVE  TimedOnce'
    BY <1>8 DEF Terminate, TimedOnce, UnblockQueued
  <1>9. ASSUME UNCHANGED <<pc, task, handlers, timer>>
        PROVE  TimedOnce'
    BY <1>0, <1>9 DEF TimedOnce, UnblockQueued
  <1>10. QED
    BY <1>1, <1>2, <1>3, <1>4, <1>5, <1>6, <1>7, <1>8, <1>9
       DEF TasksNext, IoStep, CleanupStep, Start, RemoveLeftover, StartThreads, taskVars

LEMMA OrderStep ==
  ASSUME PipelineInv, PipelineInv', OrderInv, [TasksNext]_taskVars
  PROVE  OrderInv'
  <1> DEFINE Parts == DistinctTasks /\ QueueInOrder /\ NothingToLiftYet
  <1> SUFFICES Parts'
    <2>1. TimedOnce'
      BY TimedStep
    <2>2. QED
      BY <2>1, OrderParts, PTL
  <1>0. Parts /\ TasksTypeOK
    BY OrderParts DEF PipelineInv
  <1>1. ASSUME NEW t \in Threads, NEW a \in Addresses, NEW time \in BlockTimes,
               CreateBlockTasks(t, a, time)
        PROVE  Parts'
    <2>1. PICK n \in RuleNames \ NamesInUse :
            task' = [task EXCEPT ![t] = [name |-> n, addr |-> a, time |-> time]]
      BY <1>1 DEF CreateBlockTasks
    <2>2. /\ pc' = [pc EXCEPT ![t] = "post"]
          /\ handlers' = handlers /\ timer' = timer
          /\ pc[t] = "idle"
      BY <1>1 DEF CreateBlockTasks
    <2>3. task'[t].name = n /\ \A u \in Threads : u # t => task'[u] = task[u] /\ pc'[u] = pc[u]
      BY <1>0, <2>1, <2>2 DEF TasksTypeOK
    <2>4. DistinctTasks'
      BY <1>0, <2>2, <2>3, FreshName, BusyThread DEF DistinctTasks
    <2>5. QueueInOrder'
      BY <1>0, <2>2 DEF QueueInOrder
    <2>6. NothingToLiftYet'
      BY <1>0, <2>2, <2>3, FreshName DEF NothingToLiftYet, UnblockQueued, IsUnblock
    <2>7. QED
      BY <2>4, <2>5, <2>6
  <1>2. ASSUME NEW t \in Threads, AsyncBlock(t)
        PROVE  Parts'
    <2> DEFINE h == BlockOp(task[t].name, task[t].addr)
    <2>1. task[t] \in Tasks /\ task[t].name \in RuleNames /\ pc[t] = "post"
      BY <1>2, BusyThread DEF AsyncBlock
    <2>2. h \in Handlers /\ h.op = "block" /\ h.name = task[t].name
      BY <2>1, TaskFields, HandlerTypes DEF BlockOp
    <2>3. /\ Len(handlers) \in Nat
          /\ DOMAIN handlers = 1 .. Len(handlers)
          /\ DOMAIN handlers' = 1 .. Len(handlers) + 1
          /\ \A i \in 1 .. Len(handlers) : handlers'[i] = handlers[i]
          /\ handlers'[Len(handlers) + 1] = h
      BY <1>0, <1>2, <2>2, QueueAfterPost DEF AsyncBlock, TasksTypeOK
    <2>4. /\ pc'[t] = "arm" /\ task' = task /\ timer' = timer
          /\ \A u \in Threads : u # t => pc'[u] = pc[u]
      BY <1>0, <1>2 DEF AsyncBlock, TasksTypeOK
    <2>5. DistinctTasks'
      BY <1>0, <2>1, <2>4 DEF DistinctTasks
    <2>6. QueueInOrder'
      <3> SUFFICES ASSUME NEW i \in DOMAIN handlers', NEW j \in DOMAIN handlers',
                          NEW n \in RuleNames, i < j
                   PROVE  ~(IsUnblock(handlers'[i], n) /\ IsBlock(handlers'[j], n))
        BY DEF QueueInOrder
      <3>1. i \in DOMAIN handlers /\ handlers'[i] = handlers[i]
        BY <2>3
      <3>2. CASE j = Len(handlers) + 1
        BY <1>0, <3>1, <3>2, <2>1, <2>2, <2>3
           DEF NothingToLiftYet, UnblockQueued, IsUnblock, IsBlock
      <3>3. CASE j \in DOMAIN handlers
        BY <1>0, <3>1, <3>3, <2>3 DEF QueueInOrder
      <3>4. QED
        BY <3>2, <3>3, <2>3
    <2>7. NothingToLiftYet'
      BY <1>0, <2>2, <2>3, <2>4 DEF NothingToLiftYet, UnblockQueued, IsUnblock
    <2>8. QED
      BY <2>5, <2>6, <2>7
  <1>3. ASSUME NEW t \in Threads, AsyncUnblock(t)
        PROVE  Parts'
    <2>1. /\ pc[t] = "arm" /\ pc'[t] = "done" /\ task' = task /\ handlers' = handlers
          /\ \A u \in Threads : u # t => pc'[u] = pc[u]
          /\ \A n \in RuleNames : n # task[t].name => timer'[n] = timer[n]
      BY <1>0, <1>3 DEF AsyncUnblock, TasksTypeOK
    <2>2. DistinctTasks' /\ QueueInOrder'
      BY <1>0, <2>1 DEF DistinctTasks, QueueInOrder
    <2>3. NothingToLiftYet'
      BY <1>0, <2>1, BusyThread DEF NothingToLiftYet, DistinctTasks, UnblockQueued
    <2>4. QED
      BY <2>2, <2>3
  <1>4. ASSUME NEW t \in Threads, Return(t)
        PROVE  Parts'
    <2>1. /\ pc'[t] = "idle" /\ handlers' = handlers /\ timer' = timer
          /\ \A u \in Threads : u # t => pc'[u] = pc[u] /\ task'[u] = task[u]
      BY <1>0, <1>4 DEF Return, TasksTypeOK
    <2>2. QED
      BY <1>0, <2>1 DEF DistinctTasks, QueueInOrder, NothingToLiftYet, UnblockQueued
  <1>5. ASSUME NEW m \in RuleNames, TimerExpires(m)
        PROVE  Parts'
    <2>1. UnblockOp(m) \in Handlers /\ UnblockOp(m).op = "unblock" /\ UnblockOp(m).name = m
      BY DEF UnblockOp, Handlers
    <2>2. /\ Len(handlers) \in Nat
          /\ DOMAIN handlers = 1 .. Len(handlers)
          /\ DOMAIN handlers' = 1 .. Len(handlers) + 1
          /\ \A i \in 1 .. Len(handlers) : handlers'[i] = handlers[i]
          /\ handlers'[Len(handlers) + 1] = UnblockOp(m)
      BY <1>0, <1>5, <2>1, QueueAfterPost DEF TimerExpires, TasksTypeOK
    <2>3. /\ pc' = pc /\ task' = task /\ timer[m] # Off
          /\ \A n \in RuleNames : timer[n] = Off => timer'[n] = Off
      BY <1>0, <1>5 DEF TimerExpires, TasksTypeOK, Off
    <2>4. DistinctTasks'
      BY <1>0, <2>3 DEF DistinctTasks
    <2>5. QueueInOrder'
      BY <1>0, <2>1, <2>2 DEF QueueInOrder, IsBlock
    <2>6. NothingToLiftYet'
      <3> SUFFICES ASSUME NEW t \in Threads, pc[t] = "post"
                   PROVE  timer'[task[t].name] = Off /\ ~UnblockQueued(task[t].name)'
        BY <2>3 DEF NothingToLiftYet, UnblockQueued
      <3>1. /\ task[t].name \in RuleNames /\ task[t].name # m
            /\ timer[task[t].name] = Off /\ ~UnblockQueued(task[t].name)
        BY <1>0, <2>3, BusyThread DEF NothingToLiftYet
      <3>2. QED
        BY <3>1, <2>1, <2>2, <2>3 DEF UnblockQueued, IsUnblock
    <2>7. QED
      BY <2>4, <2>5, <2>6
  <1>6. ASSUME RunBlock \/ RunUnblock
        PROVE  Parts'
    <2>1. handlers # <<>> /\ handlers' = Tail(handlers) /\ UNCHANGED <<pc, task, timer>>
      BY <1>6 DEF RunBlock, RunUnblock
    <2>2. \A i \in DOMAIN handlers' :
            i \in Int /\ i + 1 \in DOMAIN handlers /\ handlers'[i] = handlers[i + 1]
      BY <1>0, <2>1, QueueAfterRun DEF TasksTypeOK
    <2>3. DistinctTasks'
      BY <1>0, <2>1 DEF DistinctTasks
    <2>4. QueueInOrder'
      <3> SUFFICES ASSUME NEW i \in DOMAIN handlers', NEW j \in DOMAIN handlers',
                          NEW n \in RuleNames, i < j
                   PROVE  ~(IsUnblock(handlers'[i], n) /\ IsBlock(handlers'[j], n))
        BY DEF QueueInOrder
      <3>1. i + 1 \in DOMAIN handlers /\ j + 1 \in DOMAIN handlers /\ i + 1 < j + 1
        BY <2>2
      <3>2. QED
        BY <1>0, <2>2, <3>1 DEF QueueInOrder
    <2>5. NothingToLiftYet'
      BY <1>0, <2>1, <2>2 DEF NothingToLiftYet, UnblockQueued
    <2>6. QED
      BY <2>3, <2>4, <2>5
  <1>7. ASSUME Tick
        PROVE  Parts'
    <2>1. \A n \in RuleNames : timer[n] = Off => timer'[n] = Off
      BY <1>0, <1>7 DEF Tick, CountDown, Off
    <2>2. NothingToLiftYet'
      BY <1>0, <1>7, <2>1, BusyThread DEF Tick, CountDown, NothingToLiftYet, UnblockQueued
    <2>3. DistinctTasks' /\ QueueInOrder'
      BY <1>0, <1>7 DEF Tick, CountDown, DistinctTasks, QueueInOrder
    <2>4. QED
      BY <2>2, <2>3
  <1>8. ASSUME Terminate
        PROVE  Parts'
    BY <1>8 DEF Terminate, DistinctTasks, QueueInOrder, NothingToLiftYet
  <1>9. ASSUME UNCHANGED <<pc, task, handlers, timer>>
        PROVE  Parts'
    BY <1>0, <1>9 DEF DistinctTasks, QueueInOrder, NothingToLiftYet, UnblockQueued
  <1>10. QED
    BY <1>1, <1>2, <1>3, <1>4, <1>5, <1>6, <1>7, <1>8, <1>9
       DEF TasksNext, IoStep, CleanupStep, Start, RemoveLeftover, StartThreads, taskVars

\* The inductive invariant of the order in which handlers run.
THEOREM OrderInvariant == TasksSpec => [](PipelineInv /\ OrderInv)
  <1>1. TasksInit => PipelineInv /\ OrderInv
    BY PipelineInvInit, OrderInit
  <1>2. (PipelineInv /\ OrderInv) /\ [TasksNext]_taskVars => (PipelineInv /\ OrderInv)'
    BY PipelineInvStep, OrderStep
  <1>3. QED
    BY <1>1, <1>2, PTL DEF TasksSpec

\* Whatever the interleaving, the unblock handler of a task never runs before
\* its block handler (main.cpp:97-100).
THEOREM BlocksRunFirst == TasksSpec => []BlockRunsFirst
  <1>1. OrderInv => BlockRunsFirst
    BY DEF OrderInv
  <1>2. QED
    BY <1>1, OrderInvariant, PTL

\* A rule is not removed while its own timer runs or is yet to be armed,
\* whatever other blocks of its address expire (main.cpp:58-77, 193-194).
THEOREM BlocksStayWhileTimed == TasksSpec => StaysWhileTimed
  <1> DEFINE Stays == \A r \in rules :
                        /\ process = "running"
                        /\ timer[r.name] # Off \/ \E t \in Threads : pc[t] = "arm" /\ task[t].name = r.name
                        => r \in rules'
  <1>1. (PipelineInv /\ OrderInv) /\ [TasksNext]_taskVars => Stays
    <2> SUFFICES ASSUME PipelineInv, OrderInv, [TasksNext]_taskVars,
                        NEW r \in rules, process = "running", r \notin rules',
                        \/ timer[r.name] # Off
                        \/ \E t \in Threads : pc[t] = "arm" /\ task[t].name = r.name
                 PROVE  FALSE
      OBVIOUS
    <2>1. RunUnblock
      BY DEF TasksNext, IoStep, CleanupStep, CreateBlockTasks, AsyncBlock, AsyncUnblock, Return,
             TimerExpires, RunBlock, Tick, Terminate, Start, RemoveLeftover, StartThreads, taskVars
    <2>2. handlers # <<>> /\ Head(handlers).op = "unblock" /\ Head(handlers).name = r.name
      BY <2>1 DEF RunUnblock
    <2>3. 1 \in DOMAIN handlers /\ Head(handlers) = handlers[1]
      BY <2>2, QueueAfterRun DEF PipelineInv, TasksTypeOK
    <2>4. UnblockQueued(r.name)
      BY <2>2, <2>3 DEF UnblockQueued, IsUnblock
    <2>5. r.name \in RuleNames
      BY RuleFields DEF PipelineInv
    <2>6. QED
      BY <2>4, <2>5 DEF OrderInv, TimedOnce
  <1>2. QED
    BY <1>1, OrderInvariant, PTL DEF TasksSpec, StaysWhileTimed

-----------------------------------------------------------------------------
(* The refinement of BlockLifecycle.                                       *)

Posting(n) == \E t \in Threads : pc[t] = "post" /\ task[t].name = n
Arming(n) == \E t \in Threads : pc[t] = "arm" /\ task[t].name = n
BlockQueued(n) == \E i \in DOMAIN handlers : IsBlock(handlers[i], n)

\* Each handler is queued once.
QueuedOnce ==
  \A i, j \in DOMAIN handlers :
    i < j /\ handlers[i].op = handlers[j].op => handlers[i].name # handlers[j].name
PostedOnce == \A n \in RuleNames : ~(Posting(n) /\ BlockQueued(n))

\* The strengthening for the life cycle: a block still to be made has no rule
\* yet, an abandoned rule is in the firewall with nothing under way for it, and
\* the clean-up has only rules before it that it can remove.
LifeInv ==
  /\ QueuedOnce
  /\ PostedOnce
  /\ \A n \in RuleNames : BlockPending(n) => n \notin RuleNamesIn(rules)
  /\ abandoned \subseteq RuleNamesIn(rules)
  /\ \A n \in abandoned : ~UnblockScheduled(n)
  /\ leftovers \subseteq RuleNamesIn(rules) \ abandoned
  /\ process # "cleanup" => leftovers = {}
  /\ process # "running" => \A n \in RuleNames : timer[n] = Off

\* The stage of a block by name, and what it depends on.
LEMMA StageByCase ==
  ASSUME NEW n
  PROVE  /\ n \in abandoned => StageOf(n) = "stuck"
         /\ n \notin abandoned /\ n \in RuleNamesIn(rules) => StageOf(n) = "enforced"
         /\ n \notin abandoned /\ n \notin RuleNamesIn(rules) =>
              /\ BlockPending(n) => StageOf(n) = "requested"
              /\ ~BlockPending(n) /\ UnblockScheduled(n) => StageOf(n) = "refused"
              /\ ~BlockPending(n) /\ ~UnblockScheduled(n) => StageOf(n) = "free"
  <1>1. n \in abandoned => StageOf(n) = "stuck"
    BY DEF StageOf
  <1>2. n \notin abandoned /\ n \in RuleNamesIn(rules) => StageOf(n) = "enforced"
    BY DEF StageOf
  <1>3. n \notin abandoned /\ n \notin RuleNamesIn(rules) /\ BlockPending(n)
          => StageOf(n) = "requested"
    BY DEF StageOf
  <1>4. n \notin abandoned /\ n \notin RuleNamesIn(rules) /\ ~BlockPending(n) /\ UnblockScheduled(n)
          => StageOf(n) = "refused"
    BY DEF StageOf
  <1>5. n \notin abandoned /\ n \notin RuleNamesIn(rules) /\ ~BlockPending(n) /\ ~UnblockScheduled(n)
          => StageOf(n) = "free"
    BY DEF StageOf
  <1>6. QED
    BY <1>1, <1>2, <1>3, <1>4, <1>5

LEMMA PendingBy ==
  ASSUME NEW n
  PROVE  /\ BlockPending(n) <=> Posting(n) \/ BlockQueued(n)
         /\ UnblockScheduled(n) <=> timer[n] # Off \/ UnblockQueued(n) \/ Arming(n)
  BY DEF BlockPending, UnblockScheduled, Posting, Arming, BlockQueued

\* A handler is posted.
LEMMA PostEffect ==
  ASSUME TasksTypeOK, NEW h \in Handlers, handlers' = Append(handlers, h)
  PROVE  /\ \A n : BlockQueued(n)' <=> BlockQueued(n) \/ IsBlock(h, n)
         /\ \A n : UnblockQueued(n)' <=> UnblockQueued(n) \/ IsUnblock(h, n)
         /\ /\ QueuedOnce
            /\ h.op = "block" => ~BlockQueued(h.name)
            /\ h.op = "unblock" => ~UnblockQueued(h.name)
            => QueuedOnce'
  <1>1. /\ Len(handlers) \in Nat /\ DOMAIN handlers = 1 .. Len(handlers)
        /\ DOMAIN handlers' = 1 .. Len(handlers) + 1
        /\ \A i \in 1 .. Len(handlers) : handlers'[i] = handlers[i]
        /\ handlers'[Len(handlers) + 1] = h
    BY QueueAfterPost DEF TasksTypeOK
  <1>2. /\ \A i \in DOMAIN handlers' : i \in DOMAIN handlers \/ i = Len(handlers) + 1
        /\ \A i \in DOMAIN handlers : i \in DOMAIN handlers' /\ i < Len(handlers) + 1
        /\ Len(handlers) + 1 \in DOMAIN handlers'
    BY <1>1
  <1>3. \A n : BlockQueued(n)' <=> BlockQueued(n) \/ IsBlock(h, n)
    BY <1>1, <1>2 DEF BlockQueued
  <1>4. \A n : UnblockQueued(n)' <=> UnblockQueued(n) \/ IsUnblock(h, n)
    BY <1>1, <1>2 DEF UnblockQueued
  <1>5. ASSUME QueuedOnce,
               h.op = "block" => ~BlockQueued(h.name),
               h.op = "unblock" => ~UnblockQueued(h.name)
        PROVE  QueuedOnce'
    <2>1. h.op \in {"block", "unblock"}
      BY HandlerFields
    <2> SUFFICES ASSUME NEW i \in DOMAIN handlers', NEW j \in DOMAIN handlers', i < j,
                        handlers'[i].op = handlers'[j].op,
                        handlers'[i].name = handlers'[j].name
                 PROVE  FALSE
      BY DEF QueuedOnce
    <2>2. i \in DOMAIN handlers /\ handlers'[i] = handlers[i]
      BY <1>1
    <2>3. CASE j \in DOMAIN handlers
      BY <1>1, <1>5, <2>2, <2>3 DEF QueuedOnce
    <2>4. CASE j = Len(handlers) + 1
      BY <1>1, <1>5, <2>1, <2>2, <2>4 DEF BlockQueued, UnblockQueued, IsBlock, IsUnblock
    <2>5. QED
      BY <1>2, <2>3, <2>4
  <1>6. QED
    BY <1>3, <1>4, <1>5

\* The io thread runs the first handler.
LEMMA RunEffect ==
  ASSUME TasksTypeOK, QueuedOnce, handlers # <<>>, handlers' = Tail(handlers)
  PROVE  /\ Head(handlers) \in Handlers
         /\ \A n : BlockQueued(n)' <=> BlockQueued(n) /\ ~IsBlock(Head(handlers), n)
         /\ \A n : UnblockQueued(n)' <=> UnblockQueued(n) /\ ~IsUnblock(Head(handlers), n)
         /\ \A n : IsBlock(Head(handlers), n) => BlockQueued(n)
         /\ \A n : IsUnblock(Head(handlers), n) => UnblockQueued(n)
         /\ QueuedOnce'
  <1>1. /\ Len(handlers) \in Nat \ {0} /\ DOMAIN handlers = 1 .. Len(handlers)
        /\ DOMAIN handlers' = 1 .. Len(handlers) - 1
        /\ \A i \in 1 .. Len(handlers) - 1 : handlers'[i] = handlers[i + 1]
        /\ Head(handlers) = handlers[1]
    BY QueueAfterRun DEF TasksTypeOK
  <1>2. Head(handlers) \in Handlers
    BY <1>1 DEF TasksTypeOK
  <1>3. 1 \in DOMAIN handlers
    BY <1>1
  <1>4. \A i \in DOMAIN handlers' :
          i + 1 \in DOMAIN handlers /\ 1 < i + 1 /\ handlers'[i] = handlers[i + 1]
    BY <1>1
  <1>5. \A i \in DOMAIN handlers :
          i = 1 \/ (i - 1 \in DOMAIN handlers' /\ handlers'[i - 1] = handlers[i])
    BY <1>1
  <1>6. \A n : BlockQueued(n)' <=> BlockQueued(n) /\ ~IsBlock(Head(handlers), n)
    <2> TAKE n
    <2>1. ASSUME BlockQueued(n)'
          PROVE  BlockQueued(n) /\ ~IsBlock(Head(handlers), n)
      <3>1. PICK i \in DOMAIN handlers' : IsBlock(handlers'[i], n)
        BY <2>1 DEF BlockQueued
      <3>2. i + 1 \in DOMAIN handlers /\ 1 < i + 1 /\ IsBlock(handlers[i + 1], n)
        BY <1>4, <3>1
      <3>3. QED
        BY <1>1, <1>3, <3>2 DEF BlockQueued, IsBlock, QueuedOnce
    <2>2. ASSUME BlockQueued(n), ~IsBlock(Head(handlers), n)
          PROVE  BlockQueued(n)'
      BY <1>1, <1>5, <2>2 DEF BlockQueued
    <2>3. QED
      BY <2>1, <2>2
  <1>7. \A n : UnblockQueued(n)' <=> UnblockQueued(n) /\ ~IsUnblock(Head(handlers), n)
    <2> TAKE n
    <2>1. ASSUME UnblockQueued(n)'
          PROVE  UnblockQueued(n) /\ ~IsUnblock(Head(handlers), n)
      <3>1. PICK i \in DOMAIN handlers' : IsUnblock(handlers'[i], n)
        BY <2>1 DEF UnblockQueued
      <3>2. i + 1 \in DOMAIN handlers /\ 1 < i + 1 /\ IsUnblock(handlers[i + 1], n)
        BY <1>4, <3>1
      <3>3. QED
        BY <1>1, <1>3, <3>2 DEF UnblockQueued, IsUnblock, QueuedOnce
    <2>2. ASSUME UnblockQueued(n), ~IsUnblock(Head(handlers), n)
          PROVE  UnblockQueued(n)'
      BY <1>1, <1>5, <2>2 DEF UnblockQueued
    <2>3. QED
      BY <2>1, <2>2
  <1>8. /\ \A n : IsBlock(Head(handlers), n) => BlockQueued(n)
        /\ \A n : IsUnblock(Head(handlers), n) => UnblockQueued(n)
    BY <1>1, <1>3 DEF BlockQueued, UnblockQueued
  <1>9. QueuedOnce'
    <2> SUFFICES ASSUME NEW i \in DOMAIN handlers', NEW j \in DOMAIN handlers', i < j,
                        handlers'[i].op = handlers'[j].op,
                        handlers'[i].name = handlers'[j].name
                 PROVE  FALSE
      BY DEF QueuedOnce
    <2>1. i + 1 < j + 1
      BY <1>1
    <2>2. QED
      BY <1>4, <2>1 DEF QueuedOnce
  <1>10. QED
    BY <1>2, <1>6, <1>7, <1>8, <1>9

\* An event thread goes on in its call: no other call is about its rule.
LEMMA ThreadMoves ==
  ASSUME PipelineInv, OrderInv, NEW t \in Threads, NEW at, pc[t] # "idle",
         pc' = [pc EXCEPT ![t] = at], task' = task
  PROVE  \A n : /\ Posting(n)' <=> IF n = task[t].name THEN at = "post" ELSE Posting(n)
                /\ Arming(n)' <=> IF n = task[t].name THEN at = "arm" ELSE Arming(n)
                /\ n = task[t].name => /\ Posting(n) => pc[t] = "post"
                                       /\ Arming(n) => pc[t] = "arm"
  <1>1. pc'[t] = at /\ \A u \in Threads : u # t => pc'[u] = pc[u]
    BY DEF PipelineInv, TasksTypeOK
  <1>2. \A u \in Threads : u # t /\ pc[u] # "idle" => task[u].name # task[t].name
    BY DEF OrderInv, DistinctTasks
  <1>3. \A n : Posting(n)' <=> IF n = task[t].name THEN at = "post" ELSE Posting(n)
    BY <1>1, <1>2 DEF Posting
  <1>4. \A n : Arming(n)' <=> IF n = task[t].name THEN at = "arm" ELSE Arming(n)
    BY <1>1, <1>2 DEF Arming
  <1>5. QED
    BY <1>1, <1>2, <1>3, <1>4 DEF Posting, Arming

\* What goes on inside the pipeline without an effect on the life of a block.
Inside ==
  \/ \E t \in Threads : AsyncBlock(t) \/ AsyncUnblock(t) \/ Return(t)
  \/ \E n \in RuleNames : TimerExpires(n)
  \/ Tick

LEMMA InsideEffect ==
  ASSUME PipelineInv, OrderInv, LifeInv, Inside
  PROVE  /\ process = "running" /\ UNCHANGED <<process, leftovers, rules, abandoned>>
         /\ \A n \in RuleNames : /\ BlockPending(n)' <=> BlockPending(n)
                                 /\ BlockPending(n) \/ (UnblockScheduled(n)' <=> UnblockScheduled(n))
         /\ QueuedOnce' /\ PostedOnce'
  <1> DEFINE Effect == /\ \A n \in RuleNames :
                            /\ BlockPending(n)' <=> BlockPending(n)
                            /\ BlockPending(n) \/ (UnblockScheduled(n)' <=> UnblockScheduled(n))
                       /\ QueuedOnce' /\ PostedOnce'
  <1>0. TasksTypeOK /\ QueuedOnce /\ PostedOnce
    BY DEF PipelineInv, LifeInv
  <1>1. process = "running" /\ UNCHANGED <<process, leftovers, rules, abandoned>>
    BY DEF Inside, AsyncBlock, AsyncUnblock, Return, TimerExpires, Tick, PipelineInv, QuietUnlessRunning
  <1>2. ASSUME NEW t \in Threads, AsyncBlock(t)
        PROVE  Effect
    <2> DEFINE n == task[t].name
               h == BlockOp(n, task[t].addr)
    <2>1. pc[t] = "post" /\ n \in RuleNames /\ task[t] \in Tasks
      BY <1>2, BusyThread DEF AsyncBlock
    <2>2. h \in Handlers /\ h.op = "block" /\ h.name = n
      BY <2>1, TaskFields, HandlerTypes DEF BlockOp
    <2>3. handlers' = Append(handlers, h) /\ pc' = [pc EXCEPT ![t] = "arm"] /\ task' = task /\ timer' = timer
      BY <1>2 DEF AsyncBlock
    <2>4. Posting(n)
      BY <2>1 DEF Posting
    <2>5. ~BlockQueued(n)
      BY <1>0, <2>1, <2>4 DEF PostedOnce
    <2> HIDE DEF n, h
    <2>6. \A m : /\ Posting(m)' <=> m # n /\ Posting(m)
                 /\ Arming(m)' <=> m = n \/ Arming(m)
      <3>1. \A m : /\ Posting(m)' <=> IF m = n THEN "arm" = "post" ELSE Posting(m)
                   /\ Arming(m)' <=> IF m = n THEN "arm" = "arm" ELSE Arming(m)
        BY <2>1, <2>3, ThreadMoves DEF n
      <3>2. QED
        BY <3>1
    <2>7. /\ \A m : BlockQueued(m)' <=> BlockQueued(m) \/ m = n
          /\ \A m : UnblockQueued(m)' <=> UnblockQueued(m)
          /\ QueuedOnce'
      BY <1>0, <2>2, <2>3, <2>5, PostEffect DEF IsBlock, IsUnblock
    <2>8. \A m : /\ BlockPending(m)' <=> Posting(m)' \/ BlockQueued(m)'
                 /\ UnblockScheduled(m)' <=> timer'[m] # Off \/ UnblockQueued(m)' \/ Arming(m)'
      BY DEF BlockPending, UnblockScheduled, Posting, Arming, BlockQueued
    <2>9. PostedOnce'
      BY <1>0, <2>6, <2>7 DEF PostedOnce
    <2>10. QED
      BY <2>3, <2>4, <2>6, <2>7, <2>8, <2>9, PendingBy
  <1>3. ASSUME NEW t \in Threads, AsyncUnblock(t)
        PROVE  Effect
    <2> DEFINE n == task[t].name
    <2>1. /\ pc[t] = "arm" /\ n \in RuleNames /\ task[t] \in Tasks
          /\ task[t].time \in Int /\ task[t].time > 0
      BY <1>3, BusyThread, TaskFields DEF AsyncUnblock
    <2>2. /\ handlers' = handlers /\ pc' = [pc EXCEPT ![t] = "done"] /\ task' = task
          /\ timer'[n] # Off /\ \A m \in RuleNames : m # n => timer'[m] = timer[m]
      BY <1>0, <1>3, <2>1, TimerLength DEF AsyncUnblock, TasksTypeOK
    <2>3. Arming(n) /\ ~Posting(n)
      <3>1. Posting(n) => pc[t] = "post"
        BY <2>1, <2>2, ThreadMoves
      <3>2. QED
        BY <2>1, <3>1 DEF Arming
    <2> HIDE DEF n
    <2>4. \A m : /\ Posting(m)' <=> m # n /\ Posting(m)
                 /\ Arming(m)' <=> m # n /\ Arming(m)
      <3>1. \A m : /\ Posting(m)' <=> IF m = n THEN "done" = "post" ELSE Posting(m)
                   /\ Arming(m)' <=> IF m = n THEN "done" = "arm" ELSE Arming(m)
        BY <2>1, <2>2, ThreadMoves DEF n
      <3>2. QED
        BY <3>1
    <2>5. /\ \A m : (BlockQueued(m)' <=> BlockQueued(m)) /\ (UnblockQueued(m)' <=> UnblockQueued(m))
          /\ QueuedOnce'
      BY <1>0, <2>2 DEF BlockQueued, UnblockQueued, QueuedOnce
    <2>6. \A m : /\ BlockPending(m)' <=> Posting(m)' \/ BlockQueued(m)'
                 /\ UnblockScheduled(m)' <=> timer'[m] # Off \/ UnblockQueued(m)' \/ Arming(m)'
      BY DEF BlockPending, UnblockScheduled, Posting, Arming, BlockQueued
    <2>7. PostedOnce'
      BY <1>0, <2>4, <2>5 DEF PostedOnce
    <2>8. QED
      BY <2>2, <2>3, <2>4, <2>5, <2>6, <2>7, PendingBy
  <1>4. ASSUME NEW t \in Threads, Return(t)
        PROVE  Effect
    <2>1. /\ pc[t] = "done" /\ pc'[t] = "idle"
          /\ \A u \in Threads : u # t => pc'[u] = pc[u] /\ task'[u] = task[u]
          /\ handlers' = handlers /\ timer' = timer
      BY <1>0, <1>4 DEF Return, TasksTypeOK
    <2>2. \A m : (Posting(m)' <=> Posting(m)) /\ (Arming(m)' <=> Arming(m))
      BY <2>1 DEF Posting, Arming
    <2>3. /\ \A m : (BlockQueued(m)' <=> BlockQueued(m)) /\ (UnblockQueued(m)' <=> UnblockQueued(m))
          /\ QueuedOnce'
      BY <1>0, <2>1 DEF BlockQueued, UnblockQueued, QueuedOnce
    <2>4. \A m : /\ BlockPending(m)' <=> Posting(m)' \/ BlockQueued(m)'
                 /\ UnblockScheduled(m)' <=> timer'[m] # Off \/ UnblockQueued(m)' \/ Arming(m)'
      BY DEF BlockPending, UnblockScheduled, Posting, Arming, BlockQueued
    <2>5. QED
      BY <1>0, <2>1, <2>2, <2>3, <2>4, PendingBy DEF PostedOnce
  <1>5. ASSUME NEW n \in RuleNames, TimerExpires(n)
        PROVE  Effect
    <2>1. /\ UnblockOp(n) \in Handlers /\ UnblockOp(n).op = "unblock" /\ UnblockOp(n).name = n
          /\ handlers' = Append(handlers, UnblockOp(n)) /\ pc' = pc /\ task' = task
      BY <1>5 DEF TimerExpires, UnblockOp, Handlers
    <2>2. timer[n] # Off /\ \A m \in RuleNames : m # n => timer'[m] = timer[m]
      BY <1>0, <1>5 DEF TimerExpires, TasksTypeOK, Off
    <2>3. ~UnblockQueued(n)
      BY <2>2 DEF OrderInv, TimedOnce
    <2>4. /\ \A m : BlockQueued(m)' <=> BlockQueued(m)
          /\ \A m : UnblockQueued(m)' <=> UnblockQueued(m) \/ m = n
          /\ QueuedOnce'
      BY <1>0, <2>1, <2>3, PostEffect DEF IsBlock, IsUnblock
    <2>5. \A m : (Posting(m)' <=> Posting(m)) /\ (Arming(m)' <=> Arming(m))
      BY <2>1 DEF Posting, Arming
    <2>6. \A m : /\ BlockPending(m)' <=> Posting(m)' \/ BlockQueued(m)'
                 /\ UnblockScheduled(m)' <=> timer'[m] # Off \/ UnblockQueued(m)' \/ Arming(m)'
      BY DEF BlockPending, UnblockScheduled, Posting, Arming, BlockQueued
    <2>7. QED
      BY <1>0, <2>2, <2>4, <2>5, <2>6, PendingBy DEF PostedOnce
  <1>6. ASSUME Tick
        PROVE  Effect
    <2>1. /\ UNCHANGED <<pc, task, handlers>>
          /\ \A m \in RuleNames : timer'[m] # Off <=> timer[m] # Off
      BY <1>0, <1>6 DEF Tick, CountDown, TasksTypeOK, Off
    <2>2. /\ \A m : (Posting(m)' <=> Posting(m)) /\ (Arming(m)' <=> Arming(m))
          /\ \A m : (BlockQueued(m)' <=> BlockQueued(m)) /\ (UnblockQueued(m)' <=> UnblockQueued(m))
          /\ QueuedOnce'
      BY <1>0, <2>1 DEF Posting, Arming, BlockQueued, UnblockQueued, QueuedOnce
    <2>3. \A m : /\ BlockPending(m)' <=> Posting(m)' \/ BlockQueued(m)'
                 /\ UnblockScheduled(m)' <=> timer'[m] # Off \/ UnblockQueued(m)' \/ Arming(m)'
      BY DEF BlockPending, UnblockScheduled, Posting, Arming, BlockQueued
    <2>4. QED
      BY <1>0, <2>1, <2>2, <2>3, PendingBy DEF PostedOnce
  <1>7. QED
    BY <1>1, <1>2, <1>3, <1>4, <1>5, <1>6 DEF Inside

\* A call draws a rule name that nothing is under way for.
LEMMA CreateEffect ==
  ASSUME PipelineInv, OrderInv, LifeInv,
         NEW t \in Threads, NEW a \in Addresses, NEW time \in BlockTimes, CreateBlockTasks(t, a, time)
  PROVE  /\ process = "running" /\ UNCHANGED <<process, leftovers, rules, abandoned>>
         /\ \E n \in RuleNames :
              /\ n \notin RuleNamesIn(rules) /\ ~BlockPending(n) /\ ~UnblockScheduled(n)
              /\ \A m \in RuleNames : /\ BlockPending(m)' <=> m = n \/ BlockPending(m)
                                      /\ UnblockScheduled(m)' <=> UnblockScheduled(m)
         /\ QueuedOnce' /\ PostedOnce'
  <1>0. TasksTypeOK /\ QueuedOnce /\ PostedOnce /\ IdleHasNoTask
    BY DEF PipelineInv, LifeInv
  <1>1. PICK n \in RuleNames \ NamesInUse : task' = [task EXCEPT ![t] = [name |-> n, addr |-> a, time |-> time]]
    BY DEF CreateBlockTasks
  <1>2. /\ pc[t] = "idle" /\ pc'[t] = "post" /\ task'[t].name = n
        /\ \A u \in Threads : u # t => pc'[u] = pc[u] /\ task'[u] = task[u]
        /\ UNCHANGED <<process, leftovers, handlers, timer, rules, abandoned>> /\ process = "running"
    BY <1>0, <1>1 DEF CreateBlockTasks, TasksTypeOK
  <1>3. /\ timer[n] = Off /\ n \notin RuleNamesIn(rules)
        /\ \A i \in DOMAIN handlers : handlers[i].name # n
        /\ \A u \in Threads : task[u] # NoTask => task[u].name # n
    BY FreshName DEF NamesInUse
  <1>4. ~Posting(n) /\ ~Arming(n) /\ ~BlockQueued(n) /\ ~UnblockQueued(n)
    BY <1>0, <1>3
       DEF IdleHasNoTask, Posting, Arming, BlockQueued, UnblockQueued, IsBlock, IsUnblock
  <1>5. \A m : (Posting(m)' <=> m = n \/ Posting(m)) /\ (Arming(m)' <=> Arming(m))
    BY <1>2 DEF Posting, Arming
  <1>6. /\ \A m : (BlockQueued(m)' <=> BlockQueued(m)) /\ (UnblockQueued(m)' <=> UnblockQueued(m))
        /\ QueuedOnce'
    BY <1>0, <1>2 DEF BlockQueued, UnblockQueued, QueuedOnce
  <1>7. \A m : /\ BlockPending(m)' <=> Posting(m)' \/ BlockQueued(m)'
               /\ UnblockScheduled(m)' <=> timer'[m] # Off \/ UnblockQueued(m)' \/ Arming(m)'
    BY DEF BlockPending, UnblockScheduled, Posting, Arming, BlockQueued
  <1>8. PostedOnce'
    BY <1>0, <1>4, <1>5, <1>6 DEF PostedOnce
  <1>9. ~BlockPending(n) /\ ~UnblockScheduled(n)
    BY <1>3, <1>4, PendingBy
  <1>10. \A m \in RuleNames : /\ BlockPending(m)' <=> m = n \/ BlockPending(m)
                              /\ UnblockScheduled(m)' <=> UnblockScheduled(m)
    BY <1>2, <1>5, <1>6, <1>7, PendingBy
  <1>11. QED
    BY <1>2, <1>3, <1>6, <1>8, <1>9, <1>10

\* The io thread runs a block handler: its removal is scheduled.
LEMMA RunBlockEffect ==
  ASSUME PipelineInv, OrderInv, LifeInv, RunBlock
  PROVE  /\ process = "running" /\ UNCHANGED <<process, leftovers, abandoned>>
         /\ \E n \in RuleNames :
              /\ BlockPending(n) /\ UnblockScheduled(n)
              /\ \/ RuleNamesIn(rules') = RuleNamesIn(rules) \cup {n}
                 \/ CanFail # {} /\ RuleNamesIn(rules') = RuleNamesIn(rules)
              /\ \A m \in RuleNames : /\ BlockPending(m)' <=> m # n /\ BlockPending(m)
                                      /\ UnblockScheduled(m)' <=> UnblockScheduled(m)
         /\ QueuedOnce' /\ PostedOnce'
  <1> DEFINE h == Head(handlers)
             n == h.name
  <1>0. TasksTypeOK /\ QueuedOnce /\ PostedOnce
    BY DEF PipelineInv, LifeInv
  <1>1. /\ handlers # <<>> /\ h.op = "block" /\ handlers' = Tail(handlers)
        /\ UNCHANGED <<process, leftovers, pc, task, timer, abandoned>>
    BY DEF RunBlock
  <1>2. /\ h \in Handlers /\ n \in RuleNames
        /\ \A m : BlockQueued(m)' <=> BlockQueued(m) /\ m # n
        /\ \A m : UnblockQueued(m)' <=> UnblockQueued(m)
        /\ BlockQueued(n) /\ QueuedOnce'
    <2>1. /\ h \in Handlers
          /\ \A m : BlockQueued(m)' <=> BlockQueued(m) /\ ~IsBlock(h, m)
          /\ \A m : UnblockQueued(m)' <=> UnblockQueued(m) /\ ~IsUnblock(h, m)
          /\ \A m : IsBlock(h, m) => BlockQueued(m)
          /\ QueuedOnce'
      BY <1>0, <1>1, RunEffect
    <2>2. \A m : (IsBlock(h, m) <=> m = n) /\ ~IsUnblock(h, m)
      BY <1>1 DEF IsBlock, IsUnblock
    <2>3. n \in RuleNames
      BY <2>1, HandlerFields
    <2>4. QED
      BY <2>1, <2>2, <2>3
  <1>3. process = "running"
    BY <1>1 DEF PipelineInv, QuietUnlessRunning
  <1>4. UnblockScheduled(n)
    <2>1. PICK i \in DOMAIN handlers : IsBlock(handlers[i], n)
      BY <1>2 DEF BlockQueued
    <2>2. RemovalBehind(i, n)
      BY <1>2, <2>1 DEF PipelineInv, EveryBlockHasRemoval
    <2>3. QED
      BY <2>2 DEF RemovalBehind, UnblockScheduled, UnblockQueued
  <1>5. \/ RuleNamesIn(rules') = RuleNamesIn(rules) \cup {n}
        \/ CanFail # {} /\ RuleNamesIn(rules') = RuleNamesIn(rules)
    <2>1. CASE rules' = rules \cup {[name |-> n, addr |-> h.addr]}
      <3>1. \A m : m \in RuleNamesIn(rules') <=> \E r \in rules' : r.name = m
        BY DEF RuleNamesIn
      <3>2. \A m : m \in RuleNamesIn(rules) <=> \E r \in rules : r.name = m
        BY DEF RuleNamesIn
      <3>3. [name |-> n, addr |-> h.addr].name = n
        OBVIOUS
      <3>4. \A m : m \in RuleNamesIn(rules') <=> m \in RuleNamesIn(rules) \/ m = n
        BY <2>1, <3>1, <3>2, <3>3
      <3>5. QED
        BY <3>4
    <2>2. CASE "add" \in CanFail /\ rules' = rules
      BY <2>2
    <2>3. QED
      BY <2>1, <2>2 DEF RunBlock
  <1> HIDE DEF n
  <1>6. \A m : (Posting(m)' <=> Posting(m)) /\ (Arming(m)' <=> Arming(m))
    BY <1>1 DEF Posting, Arming
  <1>7. \A m : /\ BlockPending(m)' <=> Posting(m)' \/ BlockQueued(m)'
               /\ UnblockScheduled(m)' <=> timer'[m] # Off \/ UnblockQueued(m)' \/ Arming(m)'
    BY DEF BlockPending, UnblockScheduled, Posting, Arming, BlockQueued
  <1>8. ~Posting(n)
    BY <1>0, <1>2 DEF PostedOnce
  <1>9. /\ BlockPending(n)
        /\ \A m \in RuleNames : /\ BlockPending(m)' <=> m # n /\ BlockPending(m)
                                /\ UnblockScheduled(m)' <=> UnblockScheduled(m)
    BY <1>1, <1>2, <1>6, <1>7, <1>8, PendingBy
  <1>10. PostedOnce'
    BY <1>0, <1>2, <1>6 DEF PostedOnce
  <1>11. QED
    BY <1>1, <1>2, <1>3, <1>4, <1>5, <1>9, <1>10

\* The io thread runs an unblock handler: nothing else is left of the block.
LEMMA RunUnblockEffect ==
  ASSUME PipelineInv, OrderInv, LifeInv, RunUnblock
  PROVE  /\ process = "running" /\ UNCHANGED <<process, leftovers>>
         /\ \E n \in RuleNames :
              /\ ~BlockPending(n) /\ UnblockScheduled(n)
              /\ \/ RuleNamesIn(rules') = RuleNamesIn(rules) \ {n} /\ abandoned' = abandoned
                 \/ /\ CanFail # {} /\ RuleNamesIn(rules') = RuleNamesIn(rules)
                    /\ abandoned' = abandoned \cup (RuleNamesIn(rules) \cap {n})
              /\ \A m \in RuleNames : /\ BlockPending(m)' <=> BlockPending(m)
                                      /\ UnblockScheduled(m)' <=> m # n /\ UnblockScheduled(m)
         /\ QueuedOnce' /\ PostedOnce'
  <1> DEFINE h == Head(handlers)
             n == h.name
  <1>0. TasksTypeOK /\ QueuedOnce /\ PostedOnce
    BY DEF PipelineInv, LifeInv
  <1>1. /\ handlers # <<>> /\ h.op = "unblock" /\ handlers' = Tail(handlers)
        /\ UNCHANGED <<process, leftovers, pc, task, timer>>
    BY DEF RunUnblock
  <1>2. /\ h \in Handlers /\ n \in RuleNames
        /\ \A m : BlockQueued(m)' <=> BlockQueued(m)
        /\ \A m : UnblockQueued(m)' <=> UnblockQueued(m) /\ m # n
        /\ UnblockQueued(n) /\ QueuedOnce'
    <2>1. /\ h \in Handlers
          /\ \A m : BlockQueued(m)' <=> BlockQueued(m) /\ ~IsBlock(h, m)
          /\ \A m : UnblockQueued(m)' <=> UnblockQueued(m) /\ ~IsUnblock(h, m)
          /\ \A m : IsUnblock(h, m) => UnblockQueued(m)
          /\ QueuedOnce'
      BY <1>0, <1>1, RunEffect
    <2>2. \A m : (IsUnblock(h, m) <=> m = n) /\ ~IsBlock(h, m)
      BY <1>1 DEF IsBlock, IsUnblock
    <2>3. n \in RuleNames
      BY <2>1, HandlerFields
    <2>4. QED
      BY <2>1, <2>2, <2>3
  <1>3. process = "running"
    BY <1>1 DEF PipelineInv, QuietUnlessRunning
  <1>4. \/ RuleNamesIn(rules') = RuleNamesIn(rules) \ {n} /\ abandoned' = abandoned
        \/ /\ CanFail # {} /\ RuleNamesIn(rules') = RuleNamesIn(rules)
           /\ abandoned' = abandoned \cup (RuleNamesIn(rules) \cap {n})
    <2>1. CASE rules' = {r \in rules : r.name # n} /\ abandoned' = abandoned
      BY <2>1 DEF RuleNamesIn
    <2>2. CASE "remove" \in CanFail /\ rules' = rules
               /\ abandoned' = abandoned \cup (RuleNamesIn(rules) \cap {n})
      BY <2>2
    <2>3. QED
      BY <2>1, <2>2 DEF RunUnblock
  <1>5. /\ \A i, j \in DOMAIN handlers : i < j => ~(IsUnblock(handlers[i], n) /\ IsBlock(handlers[j], n))
        /\ timer[n] = Off
    BY <1>2 DEF OrderInv, BlockRunsFirst, TimedOnce
  <1>6. ~BlockQueued(n)
    <2>1. /\ 1 \in DOMAIN handlers /\ h = handlers[1]
          /\ \A j \in DOMAIN handlers : j # 1 => 1 < j
      BY <1>0, <1>1, QueueAfterRun DEF TasksTypeOK
    <2>2. IsUnblock(handlers[1], n) /\ ~IsBlock(handlers[1], n)
      BY <1>1, <2>1 DEF IsUnblock, IsBlock
    <2>3. QED
      BY <1>5, <2>1, <2>2 DEF BlockQueued
  <1> HIDE DEF n
  <1>7. ~Posting(n) /\ ~Arming(n)
    BY <1>2, OrderParts DEF Posting, Arming, NothingToLiftYet, TimedOnce
  <1>8. \A m : (Posting(m)' <=> Posting(m)) /\ (Arming(m)' <=> Arming(m))
    BY <1>1 DEF Posting, Arming
  <1>9. \A m : /\ BlockPending(m)' <=> Posting(m)' \/ BlockQueued(m)'
               /\ UnblockScheduled(m)' <=> timer'[m] # Off \/ UnblockQueued(m)' \/ Arming(m)'
    BY DEF BlockPending, UnblockScheduled, Posting, Arming, BlockQueued
  <1>10. /\ ~BlockPending(n) /\ UnblockScheduled(n)
         /\ \A m \in RuleNames : /\ BlockPending(m)' <=> BlockPending(m)
                                 /\ UnblockScheduled(m)' <=> m # n /\ UnblockScheduled(m)
    BY <1>1, <1>2, <1>5, <1>6, <1>7, <1>8, <1>9, PendingBy
  <1>11. PostedOnce'
    BY <1>0, <1>2, <1>8 DEF PostedOnce
  <1>12. QED
    BY <1>1, <1>2, <1>3, <1>4, <1>10, <1>11

LEMMA LifeInit == TasksInit => LifeInv
  BY DEF TasksInit, LifeInv, QueuedOnce, PostedOnce, Posting, BlockPending, UnblockScheduled, RuleNamesIn

LEMMA LifeStep ==
  ASSUME PipelineInv, PipelineInv', OrderInv, LifeInv, [TasksNext]_taskVars
  PROVE  LifeInv'
  <1>0. TasksTypeOK /\ abandoned \subseteq RuleNames /\ RuleNamesIn(rules) \subseteq RuleNames
    BY RuleFields DEF PipelineInv, TasksTypeOK, RuleNamesIn
  \* What the steps of a running program have to show.
  <1>1. ASSUME process = "running", process' = process, leftovers' = leftovers,
               QueuedOnce', PostedOnce',
               \A n \in RuleNames : BlockPending(n)' => n \notin RuleNamesIn(rules'),
               abandoned' \subseteq RuleNamesIn(rules'),
               \A n \in abandoned' : ~UnblockScheduled(n)'
        PROVE  LifeInv'
    <2>1. leftovers' = {}
      BY <1>1 DEF LifeInv
    <2>2. QED
      BY <1>1, <2>1 DEF LifeInv
  <1>2. ASSUME Inside
        PROVE  LifeInv'
    <2>1. /\ process = "running" /\ UNCHANGED <<process, leftovers, rules, abandoned>>
          /\ \A n \in RuleNames : /\ BlockPending(n)' <=> BlockPending(n)
                                  /\ BlockPending(n) \/ (UnblockScheduled(n)' <=> UnblockScheduled(n))
          /\ QueuedOnce' /\ PostedOnce'
      BY <1>2, InsideEffect
    <2>2. \A n \in abandoned : ~BlockPending(n) /\ ~UnblockScheduled(n)
      BY <1>0 DEF LifeInv
    <2>3. QED
      BY <1>0, <1>1, <2>1, <2>2 DEF LifeInv
  <1>3. ASSUME NEW t \in Threads, NEW a \in Addresses, NEW time \in BlockTimes, CreateBlockTasks(t, a, time)
        PROVE  LifeInv'
    <2>1. /\ process = "running" /\ UNCHANGED <<process, leftovers, rules, abandoned>>
          /\ QueuedOnce' /\ PostedOnce'
      BY <1>3, CreateEffect
    <2>2. PICK n \in RuleNames :
            /\ n \notin RuleNamesIn(rules)
            /\ \A m \in RuleNames : /\ BlockPending(m)' <=> m = n \/ BlockPending(m)
                                    /\ UnblockScheduled(m)' <=> UnblockScheduled(m)
      BY <1>3, CreateEffect
    <2>3. QED
      BY <1>0, <1>1, <2>1, <2>2 DEF LifeInv
  <1>4. ASSUME RunBlock
        PROVE  LifeInv'
    <2>1. process = "running" /\ UNCHANGED <<process, leftovers, abandoned>> /\ QueuedOnce' /\ PostedOnce'
      BY <1>4, RunBlockEffect
    <2>2. PICK n \in RuleNames :
            /\ RuleNamesIn(rules') \in {RuleNamesIn(rules) \cup {n}, RuleNamesIn(rules)}
            /\ \A m \in RuleNames : /\ BlockPending(m)' <=> m # n /\ BlockPending(m)
                                    /\ UnblockScheduled(m)' <=> UnblockScheduled(m)
      BY <1>4, RunBlockEffect
    <2>3. QED
      BY <1>0, <1>1, <2>1, <2>2 DEF LifeInv
  <1>5. ASSUME RunUnblock
        PROVE  LifeInv'
    <2>1. process = "running" /\ UNCHANGED <<process, leftovers>> /\ QueuedOnce' /\ PostedOnce'
      BY <1>5, RunUnblockEffect
    <2>2. PICK n \in RuleNames :
            /\ UnblockScheduled(n)
            /\ \/ RuleNamesIn(rules') = RuleNamesIn(rules) \ {n} /\ abandoned' = abandoned
               \/ /\ RuleNamesIn(rules') = RuleNamesIn(rules)
                  /\ abandoned' = abandoned \cup (RuleNamesIn(rules) \cap {n})
            /\ \A m \in RuleNames : /\ BlockPending(m)' <=> BlockPending(m)
                                    /\ UnblockScheduled(m)' <=> m # n /\ UnblockScheduled(m)
      BY <1>5, RunUnblockEffect
    <2>3. n \notin abandoned
      BY <2>2 DEF LifeInv
    <2>4. abandoned' \subseteq RuleNamesIn(rules')
      BY <2>2, <2>3 DEF LifeInv
    <2>5. \A m \in abandoned' : m \in RuleNames /\ (m = n \/ m \in abandoned)
      BY <1>0, <2>2
    <2>6. \A m \in abandoned' : ~UnblockScheduled(m)'
      BY <2>2, <2>5 DEF LifeInv
    <2>7. \A m \in RuleNames : BlockPending(m)' => m \notin RuleNamesIn(rules')
      BY <2>2 DEF LifeInv
    <2>8. QED
      BY <1>1, <2>1, <2>4, <2>6, <2>7
  \* Outside a run nothing is under way.
  <1>6. ASSUME process' # "running", \A n \in RuleNames : timer'[n] = Off,
               abandoned' \subseteq RuleNamesIn(rules'),
               leftovers' \subseteq RuleNamesIn(rules') \ abandoned',
               process' # "cleanup" => leftovers' = {}
        PROVE  LifeInv'
    <2>1. handlers' = <<>> /\ \A t \in Threads : pc'[t] = "idle"
      BY <1>6 DEF PipelineInv, QuietUnlessRunning
    <2>2. \A n : ~BlockPending(n)' /\ (UnblockScheduled(n)' => timer'[n] # Off)
      BY <2>1 DEF BlockPending, UnblockScheduled, UnblockQueued
    <2>3. QueuedOnce' /\ PostedOnce'
      BY <2>1 DEF QueuedOnce, PostedOnce, Posting
    <2>4. abandoned' \subseteq RuleNames
      BY DEF PipelineInv, TasksTypeOK
    <2>5. QED
      BY <1>6, <2>2, <2>3, <2>4 DEF LifeInv
  <1>7. ASSUME Terminate
        PROVE  LifeInv'
    <2>1. /\ process' = "down" /\ leftovers' = {} /\ UNCHANGED <<rules, abandoned>>
          /\ \A n \in RuleNames : timer'[n] = Off
      BY <1>7 DEF Terminate
    <2>2. QED
      BY <1>6, <2>1 DEF LifeInv
  \* A start that does without the clean-up.
  <1>8. ASSUME process # "running", process' = "running", leftovers' = {},
               UNCHANGED <<pc, task, handlers, timer, rules>>,
               abandoned' \subseteq RuleNamesIn(rules)
        PROVE  LifeInv'
    <2>1. handlers = <<>> /\ \A t \in Threads : pc[t] = "idle"
      BY <1>8 DEF PipelineInv, QuietUnlessRunning
    <2>2. \A n : ~BlockPending(n)' /\ (UnblockScheduled(n)' => timer'[n] # Off)
      BY <1>8, <2>1 DEF BlockPending, UnblockScheduled, UnblockQueued
    <2>3. QueuedOnce' /\ PostedOnce'
      BY <1>8, <2>1 DEF QueuedOnce, PostedOnce, Posting
    <2>4. abandoned' \subseteq RuleNames /\ \A n \in RuleNames : timer'[n] = Off
      BY <1>0, <1>8 DEF LifeInv
    <2>5. QED
      BY <1>8, <2>2, <2>3, <2>4 DEF LifeInv
  <1>9. ASSUME Start
        PROVE  LifeInv'
    <2>1. process = "down" /\ UNCHANGED <<pc, task, handlers, timer, rules>>
      BY <1>9 DEF Start
    <2>2. PICK listed \in SUBSET RuleNamesIn(rules) :
            /\ process' = "cleanup"
            /\ leftovers' = listed /\ abandoned' = RuleNamesIn(rules) \ listed
      BY <1>9 DEF Start
    <2>3. QED
      BY <1>6, <2>1, <2>2 DEF LifeInv
  <1>10. ASSUME NEW n \in RuleNames, RemoveLeftover(n)
         PROVE  LifeInv'
    <2>1. /\ process = "cleanup" /\ process' = "cleanup" /\ timer' = timer
          /\ n \in leftovers /\ leftovers' = leftovers \ {n}
      BY <1>10 DEF RemoveLeftover
    <2>2. \/ RuleNamesIn(rules') = RuleNamesIn(rules) \ {n} /\ abandoned' = abandoned
          \/ RuleNamesIn(rules') = RuleNamesIn(rules) /\ abandoned' = abandoned \cup {n}
      <3>1. CASE rules' = {r \in rules : r.name # n} /\ abandoned' = abandoned
        BY <3>1 DEF RuleNamesIn
      <3>2. CASE rules' = rules /\ abandoned' = abandoned \cup {n}
        BY <3>2
      <3>3. QED
        BY <1>10, <3>1, <3>2 DEF RemoveLeftover
    <2>3. abandoned' \subseteq RuleNamesIn(rules') /\ leftovers' \subseteq RuleNamesIn(rules') \ abandoned'
      BY <2>1, <2>2 DEF LifeInv
    <2>4. QED
      BY <1>6, <2>1, <2>3 DEF LifeInv
  <1>11. ASSUME StartThreads
         PROVE  LifeInv'
    BY <1>8, <1>11 DEF StartThreads, LifeInv
  <1>12. ASSUME UNCHANGED taskVars
         PROVE  LifeInv'
    BY <1>12 DEF taskVars, LifeInv, QueuedOnce, PostedOnce, Posting, BlockQueued, BlockPending,
                 UnblockScheduled, UnblockQueued
  <1>13. QED
    BY <1>2, <1>3, <1>4, <1>5, <1>7, <1>9, <1>10, <1>11, <1>12
       DEF TasksNext, IoStep, CleanupStep, Inside

\* The stage of a block after a step, by name.
LEMMA StageAfter ==
  ASSUME NEW n
  PROVE  /\ n \in abandoned' => StageOf(n)' = "stuck"
         /\ n \notin abandoned' /\ n \in RuleNamesIn(rules') => StageOf(n)' = "enforced"
         /\ n \notin abandoned' /\ n \notin RuleNamesIn(rules') =>
              /\ BlockPending(n)' => StageOf(n)' = "requested"
              /\ ~BlockPending(n)' /\ UnblockScheduled(n)' => StageOf(n)' = "refused"
              /\ ~BlockPending(n)' /\ ~UnblockScheduled(n)' => StageOf(n)' = "free"
  <1>1. n \in abandoned' => StageOf(n)' = "stuck"
    BY DEF StageOf
  <1>2. n \notin abandoned' /\ n \in RuleNamesIn(rules') => StageOf(n)' = "enforced"
    BY DEF StageOf
  <1>3. n \notin abandoned' /\ n \notin RuleNamesIn(rules') /\ BlockPending(n)'
          => StageOf(n)' = "requested"
    BY DEF StageOf
  <1>4. n \notin abandoned' /\ n \notin RuleNamesIn(rules') /\ ~BlockPending(n)' /\ UnblockScheduled(n)'
          => StageOf(n)' = "refused"
    BY DEF StageOf
  <1>5. n \notin abandoned' /\ n \notin RuleNamesIn(rules') /\ ~BlockPending(n)' /\ ~UnblockScheduled(n)'
          => StageOf(n)' = "free"
    BY DEF StageOf
  <1>6. QED
    BY <1>1, <1>2, <1>3, <1>4, <1>5

\* One block moves on and the others stay where they are.
LEMMA MoveOne ==
  ASSUME NEW n \in RuleNames, process' = "running" <=> process = "running",
         \A m \in RuleNames : m # n => StageOf(m)' = StageOf(m)
  PROVE  Lifecycle!Move(n, StageOf(n), StageOf(n)')
  BY DEF Lifecycle!Move

LEMMA MoveNone ==
  ASSUME process' = "running" <=> process = "running",
         \A m \in RuleNames : StageOf(m)' = StageOf(m)
  PROVE  UNCHANGED Lifecycle!lifecycleVars
  BY DEF Lifecycle!lifecycleVars

LEMMA LifecycleInitially == TasksInit => Lifecycle!LifecycleInit
  <1> SUFFICES ASSUME TasksInit
               PROVE  Lifecycle!LifecycleInit
    OBVIOUS
  <1>1. \A n \in RuleNames : ~BlockPending(n) /\ ~UnblockScheduled(n)
    BY DEF TasksInit, BlockPending, UnblockScheduled, UnblockQueued
  <1>2. abandoned = {} /\ RuleNamesIn(rules) = {} /\ process = "down"
    BY DEF TasksInit, RuleNamesIn
  <1>3. \A n \in RuleNames : StageOf(n) = "free"
    BY <1>1, <1>2, StageByCase
  <1>4. QED
    BY <1>2, <1>3 DEF Lifecycle!LifecycleInit

LEMMA LifecycleSteps ==
  ASSUME PipelineInv, OrderInv, LifeInv, [TasksNext]_taskVars
  PROVE  Lifecycle!LifecycleNext \/ UNCHANGED Lifecycle!lifecycleVars
  <1>0. /\ TasksTypeOK /\ abandoned \subseteq RuleNamesIn(rules) /\ RuleNamesIn(rules) \subseteq RuleNames
        /\ \A n \in abandoned : ~UnblockScheduled(n)
        /\ \A n \in RuleNames : BlockPending(n) => n \notin RuleNamesIn(rules)
    BY RuleFields DEF PipelineInv, LifeInv, RuleNamesIn
  <1>1. ASSUME Inside
        PROVE  UNCHANGED Lifecycle!lifecycleVars
    <2>1. /\ UNCHANGED <<process, rules, abandoned>>
          /\ \A n \in RuleNames : /\ BlockPending(n)' <=> BlockPending(n)
                                  /\ BlockPending(n) \/ (UnblockScheduled(n)' <=> UnblockScheduled(n))
      BY <1>1, InsideEffect
    <2>2. \A n \in RuleNames : StageOf(n)' = StageOf(n)
      BY <2>1, StageByCase, StageAfter
    <2>3. QED
      BY <2>1, <2>2, MoveNone
  <1>2. ASSUME NEW t \in Threads, NEW a \in Addresses, NEW time \in BlockTimes, CreateBlockTasks(t, a, time)
        PROVE  Lifecycle!LifecycleNext
    <2>1. process = "running" /\ UNCHANGED <<process, rules, abandoned>>
      BY <1>2, CreateEffect
    <2>2. PICK n \in RuleNames :
            /\ n \notin RuleNamesIn(rules) /\ ~BlockPending(n) /\ ~UnblockScheduled(n)
            /\ \A m \in RuleNames : /\ BlockPending(m)' <=> m = n \/ BlockPending(m)
                                    /\ UnblockScheduled(m)' <=> UnblockScheduled(m)
      BY <1>2, CreateEffect
    <2>3. StageOf(n) = "free" /\ StageOf(n)' = "requested"
      BY <1>0, <2>1, <2>2, StageByCase, StageAfter
    <2>4. \A m \in RuleNames : m # n => StageOf(m)' = StageOf(m)
      BY <2>1, <2>2, StageByCase, StageAfter
    <2>5. Lifecycle!Move(n, "free", "requested")
      BY <2>1, <2>3, <2>4, MoveOne
    <2>6. Lifecycle!Request(n)
      BY <2>1, <2>5 DEF Lifecycle!Request
    <2>7. QED
      BY <2>6 DEF Lifecycle!LifecycleNext
  <1>3. ASSUME RunBlock
        PROVE  Lifecycle!LifecycleNext
    <2>1. process = "running" /\ UNCHANGED <<process, abandoned>>
      BY <1>3, RunBlockEffect
    <2>2. PICK n \in RuleNames :
            /\ BlockPending(n) /\ UnblockScheduled(n)
            /\ \/ RuleNamesIn(rules') = RuleNamesIn(rules) \cup {n}
               \/ CanFail # {} /\ RuleNamesIn(rules') = RuleNamesIn(rules)
            /\ \A m \in RuleNames : /\ BlockPending(m)' <=> m # n /\ BlockPending(m)
                                    /\ UnblockScheduled(m)' <=> UnblockScheduled(m)
      BY <1>3, RunBlockEffect
    <2>3. n \notin abandoned /\ n \notin RuleNamesIn(rules)
      BY <1>0, <2>2
    <2>4. StageOf(n) = "requested"
      BY <2>2, <2>3, StageByCase
    <2>5. \A m \in RuleNames : m # n => StageOf(m)' = StageOf(m)
      <3>1. \A m \in RuleNames : m # n =>
              (m \in RuleNamesIn(rules') <=> m \in RuleNamesIn(rules))
        BY <2>2
      <3>2. QED
        BY <2>1, <2>2, <3>1, StageByCase, StageAfter
    <2>6. CASE RuleNamesIn(rules') = RuleNamesIn(rules) \cup {n}
      <3>1. StageOf(n)' = "enforced"
        BY <2>1, <2>3, <2>6, StageAfter
      <3>2. Lifecycle!Move(n, "requested", "enforced")
        BY <2>1, <2>4, <2>5, <3>1, MoveOne
      <3>3. Lifecycle!Enforce(n)
        BY <2>1, <3>2 DEF Lifecycle!Enforce
      <3>4. QED
        BY <3>3 DEF Lifecycle!LifecycleNext
    <2>7. CASE CanFail # {} /\ RuleNamesIn(rules') = RuleNamesIn(rules)
      <3>1. StageOf(n)' = "refused"
        BY <2>1, <2>2, <2>3, <2>7, StageAfter
      <3>2. Lifecycle!Move(n, "requested", "refused")
        BY <2>1, <2>4, <2>5, <3>1, MoveOne
      <3>3. Lifecycle!Refuse(n)
        BY <2>1, <2>7, <3>2 DEF Lifecycle!Refuse
      <3>4. QED
        BY <3>3 DEF Lifecycle!LifecycleNext
    <2>8. QED
      BY <2>2, <2>6, <2>7
  <1>4. ASSUME RunUnblock
        PROVE  Lifecycle!LifecycleNext
    <2>1. process = "running" /\ process' = process
      BY <1>4, RunUnblockEffect
    <2>2. PICK n \in RuleNames :
            /\ ~BlockPending(n) /\ UnblockScheduled(n)
            /\ \/ RuleNamesIn(rules') = RuleNamesIn(rules) \ {n} /\ abandoned' = abandoned
               \/ /\ CanFail # {} /\ RuleNamesIn(rules') = RuleNamesIn(rules)
                  /\ abandoned' = abandoned \cup (RuleNamesIn(rules) \cap {n})
            /\ \A m \in RuleNames : /\ BlockPending(m)' <=> BlockPending(m)
                                    /\ UnblockScheduled(m)' <=> m # n /\ UnblockScheduled(m)
      BY <1>4, RunUnblockEffect
    <2>3. n \notin abandoned
      BY <1>0, <2>2
    <2>4. \A m \in RuleNames : m # n => StageOf(m)' = StageOf(m)
      <3>1. \A m \in RuleNames : m # n =>
              /\ m \in RuleNamesIn(rules') <=> m \in RuleNamesIn(rules)
              /\ m \in abandoned' <=> m \in abandoned
        BY <2>2
      <3>2. QED
        BY <2>2, <3>1, StageByCase, StageAfter
    <2>5. CASE n \notin RuleNamesIn(rules)
      <3>1. n \notin RuleNamesIn(rules') /\ n \notin abandoned'
        BY <2>2, <2>3, <2>5
      <3>2. StageOf(n) = "refused" /\ StageOf(n)' = "free"
        BY <2>2, <2>3, <2>5, <3>1, StageByCase, StageAfter
      <3>3. Lifecycle!Move(n, "refused", "free")
        BY <2>1, <2>4, <3>2, MoveOne
      <3>4. Lifecycle!Forget(n)
        BY <2>1, <3>3 DEF Lifecycle!Forget
      <3>5. QED
        BY <3>4 DEF Lifecycle!LifecycleNext
    <2>6. CASE n \in RuleNamesIn(rules) /\ RuleNamesIn(rules') = RuleNamesIn(rules) \ {n} /\ abandoned' = abandoned
      <3>1. StageOf(n) = "enforced" /\ StageOf(n)' = "free"
        BY <2>2, <2>3, <2>6, StageByCase, StageAfter
      <3>2. Lifecycle!Move(n, "enforced", "free")
        BY <2>1, <2>4, <3>1, MoveOne
      <3>3. Lifecycle!Lift(n)
        BY <3>2 DEF Lifecycle!Lift
      <3>4. QED
        BY <3>3 DEF Lifecycle!LifecycleNext
    <2>7. CASE /\ n \in RuleNamesIn(rules) /\ CanFail # {}
               /\ abandoned' = abandoned \cup (RuleNamesIn(rules) \cap {n})
      <3>1. StageOf(n) = "enforced" /\ StageOf(n)' = "stuck"
        BY <2>2, <2>3, <2>7, StageByCase, StageAfter
      <3>2. Lifecycle!Move(n, "enforced", "stuck")
        BY <2>1, <2>4, <3>1, MoveOne
      <3>3. Lifecycle!FailToLift(n)
        BY <2>7, <3>2 DEF Lifecycle!FailToLift
      <3>4. QED
        BY <3>3 DEF Lifecycle!LifecycleNext
    <2>8. QED
      BY <2>2, <2>5, <2>6, <2>7
  \* Nothing is under way outside a run.
  <1>5. process # "running" =>
          \A n \in RuleNames : ~BlockPending(n) /\ ~UnblockScheduled(n)
    BY DEF PipelineInv, QuietUnlessRunning, LifeInv, BlockPending, UnblockScheduled, UnblockQueued
  <1>6. ASSUME Terminate
        PROVE  Lifecycle!LifecycleNext \/ UNCHANGED Lifecycle!lifecycleVars
    <2>1. /\ process' = "down" /\ UNCHANGED <<rules, abandoned>>
          /\ \A n \in RuleNames : ~BlockPending(n)' /\ ~UnblockScheduled(n)'
      BY <1>6 DEF Terminate, BlockPending, UnblockScheduled, UnblockQueued
    <2>2. CASE process = "running"
      <3>1. \A n \in RuleNames :
              StageOf(n)' = IF StageOf(n) \in {"requested", "refused"} THEN "free" ELSE StageOf(n)
        BY <2>1, StageByCase, StageAfter
      <3>2. Lifecycle!End
        BY <2>1, <2>2, <3>1 DEF Lifecycle!End
      <3>3. QED
        BY <3>2 DEF Lifecycle!LifecycleNext
    <2>3. CASE process # "running"
      <3>1. \A n \in RuleNames : StageOf(n)' = StageOf(n)
        BY <1>5, <2>1, <2>3, StageByCase, StageAfter
      <3>2. QED
        BY <2>1, <2>3, <3>1, MoveNone
    <2>4. QED
      BY <2>2, <2>3
  <1>7. ASSUME Start
        PROVE  Lifecycle!LifecycleNext
    <2>1. process = "down" /\ UNCHANGED <<pc, task, handlers, timer, rules>>
      BY <1>7 DEF Start
    <2>2. \A n \in RuleNames : /\ ~BlockPending(n) /\ ~UnblockScheduled(n)
                               /\ ~BlockPending(n)' /\ ~UnblockScheduled(n)'
      BY <1>5, <2>1 DEF BlockPending, UnblockScheduled, UnblockQueued
    <2>3. PICK listed \in SUBSET RuleNamesIn(rules) :
            /\ listed = RuleNamesIn(rules) \/ CanFail # {}
            /\ process' = "cleanup" /\ abandoned' = RuleNamesIn(rules) \ listed
      BY <1>7 DEF Start
    <2> DEFINE missed == abandoned'
    <2>4. missed \in SUBSET RuleNames /\ (missed = {} \/ CanFail # {})
      BY <1>0, <2>3 DEF PipelineInv, TasksTypeOK, RuleNamesIn, Rules
    <2>5. \A n \in RuleNames :
            StageOf(n)' = IF StageOf(n) \notin {"enforced", "stuck"} THEN StageOf(n)
                          ELSE IF n \in missed THEN "stuck" ELSE "enforced"
      BY <1>0, <2>1, <2>2, <2>3, StageByCase, StageAfter
    <2> HIDE DEF missed
    <2>6. Lifecycle!Retry
      BY <2>1, <2>3, <2>4, <2>5 DEF Lifecycle!Retry
    <2>7. QED
      BY <2>6 DEF Lifecycle!LifecycleNext
  <1>8. ASSUME NEW n \in RuleNames, RemoveLeftover(n)
        PROVE  Lifecycle!LifecycleNext
    <2>1. /\ process = "cleanup" /\ UNCHANGED <<process, pc, task, handlers, timer>>
          /\ n \in RuleNamesIn(rules) /\ n \notin abandoned
      BY <1>8 DEF RemoveLeftover, LifeInv
    <2>2. \A m \in RuleNames : /\ ~BlockPending(m) /\ ~UnblockScheduled(m)
                               /\ ~BlockPending(m)' /\ ~UnblockScheduled(m)'
      BY <1>5, <2>1 DEF BlockPending, UnblockScheduled, UnblockQueued
    <2>3. StageOf(n) = "enforced"
      BY <2>1, StageByCase
    <2>4. CASE rules' = {r \in rules : r.name # n} /\ abandoned' = abandoned
      <3>1. RuleNamesIn(rules') = RuleNamesIn(rules) \ {n}
        BY <2>4 DEF RuleNamesIn
      <3>2. StageOf(n)' = "free" /\ \A m \in RuleNames : m # n => StageOf(m)' = StageOf(m)
        BY <2>1, <2>2, <2>4, <3>1, StageByCase, StageAfter
      <3>3. Lifecycle!Move(n, "enforced", "free")
        BY <2>1, <2>3, <3>2, MoveOne
      <3>4. QED
        BY <3>3 DEF Lifecycle!Lift, Lifecycle!LifecycleNext
    <2>5. CASE CanFail # {} /\ abandoned' = abandoned \cup {n} /\ rules' = rules
      <3>1. StageOf(n)' = "stuck" /\ \A m \in RuleNames : m # n => StageOf(m)' = StageOf(m)
        BY <2>1, <2>2, <2>5, StageByCase, StageAfter
      <3>2. Lifecycle!Move(n, "enforced", "stuck")
        BY <2>1, <2>3, <3>1, MoveOne
      <3>3. QED
        BY <2>5, <3>2 DEF Lifecycle!FailToLift, Lifecycle!LifecycleNext
    <2>6. QED
      BY <1>8, <2>4, <2>5 DEF RemoveLeftover
  <1>9. ASSUME StartThreads
        PROVE  Lifecycle!LifecycleNext
    <2>1. /\ process = "cleanup" /\ process' = "running" /\ leftovers = {}
          /\ UNCHANGED <<pc, task, handlers, timer, rules, abandoned>>
      BY <1>9 DEF StartThreads
    <2>2. RuleNamesIn(rules) \subseteq abandoned
      BY <2>1 DEF PipelineInv, CleanupCovers
    <2>3. \A n \in RuleNames : /\ ~BlockPending(n) /\ ~UnblockScheduled(n)
                               /\ ~BlockPending(n)' /\ ~UnblockScheduled(n)'
      BY <1>5, <2>1 DEF BlockPending, UnblockScheduled, UnblockQueued
    <2>4. \A n \in RuleNames : StageOf(n)' = StageOf(n) /\ StageOf(n) # "enforced"
      BY <2>1, <2>2, <2>3, StageByCase, StageAfter
    <2>5. Lifecycle!Resume
      BY <2>1, <2>4 DEF Lifecycle!Resume
    <2>6. QED
      BY <2>5 DEF Lifecycle!LifecycleNext
  <1>10. ASSUME UNCHANGED taskVars
         PROVE  UNCHANGED Lifecycle!lifecycleVars
    <2>1. \A n : (BlockPending(n)' <=> BlockPending(n)) /\ (UnblockScheduled(n)' <=> UnblockScheduled(n))
      BY <1>10 DEF taskVars, BlockPending, UnblockScheduled, UnblockQueued
    <2>2. \A n \in RuleNames : StageOf(n)' = StageOf(n)
      BY <1>10, <2>1, StageByCase, StageAfter DEF taskVars
    <2>3. QED
      BY <1>10, <2>2, MoveNone DEF taskVars
  <1>11. QED
    BY <1>1, <1>2, <1>3, <1>4, <1>6, <1>7, <1>8, <1>9, <1>10
       DEF TasksNext, IoStep, CleanupStep, Inside

\* The pipeline implements the life cycle of a block: it is requested, put in
\* force at most once, and lifted after that, whatever the threads, the io
\* thread, the failures and the restarts do in between (main.cpp:35-106, 491-503).
THEOREM PipelineImplementsLifecycle == TasksSpec => ImplementsLifecycle
  <1>1. TasksSpec => []LifeInv
    <2>1. (PipelineInv /\ OrderInv) /\ (PipelineInv /\ OrderInv)' /\ LifeInv /\ [TasksNext]_taskVars
            => LifeInv'
      BY LifeStep
    <2>2. QED
      BY <2>1, LifeInit, OrderInvariant, PTL DEF TasksSpec
  <1>2. (PipelineInv /\ OrderInv) /\ LifeInv /\ [TasksNext]_taskVars
          => [Lifecycle!LifecycleNext]_Lifecycle!lifecycleVars
    BY LifecycleSteps
  <1>3. QED
    BY <1>1, <1>2, LifecycleInitially, OrderInvariant, PTL
       DEF TasksSpec, ImplementsLifecycle, Lifecycle!LifecycleSpec

-----------------------------------------------------------------------------
(* Which addresses the pipeline is asked to block.                         *)

\* Every rule, every block handler and every call in progress is for one of
\* the given addresses.
Only(As) ==
  /\ \A r \in rules : r.addr \in As
  /\ \A i \in DOMAIN handlers : handlers[i].op = "block" => handlers[i].addr \in As
  /\ \A t \in Threads : pc[t] # "idle" => task[t].addr \in As

LEMMA OnlyInit ==
  ASSUME NEW As
  PROVE  TasksInit => Only(As)
  BY DEF TasksInit, Only

\* The pipeline makes up no address: what only calls about addresses of As ask
\* for stays among them.
LEMMA OnlyStep ==
  ASSUME NEW As, TasksTypeOK, Only(As), [TasksNext]_taskVars,
         \A t \in Threads, a \in Addresses, time \in BlockTimes :
           CreateBlockTasks(t, a, time) => a \in As
  PROVE  Only(As)'
  <1> USE DEF Only, TasksTypeOK
  <1>1. ASSUME NEW t \in Threads, NEW a \in Addresses, NEW time \in BlockTimes,
               CreateBlockTasks(t, a, time)
        PROVE  Only(As)'
    <2>1. a \in As /\ UNCHANGED <<rules, handlers>>
      BY <1>1 DEF CreateBlockTasks
    <2>2. \A u \in Threads : u # t => pc'[u] = pc[u] /\ task'[u] = task[u]
      BY <1>1 DEF CreateBlockTasks
    <2>3. task'[t].addr = a
      BY <1>1 DEF CreateBlockTasks
    <2>4. QED
      BY <2>1, <2>2, <2>3
  <1>2. ASSUME NEW t \in Threads, AsyncBlock(t)
        PROVE  Only(As)'
    <2> DEFINE h == BlockOp(task[t].name, task[t].addr)
    <2>1. /\ handlers' = Append(handlers, h) /\ pc[t] = "post"
          /\ UNCHANGED <<rules, task>> /\ pc' = [pc EXCEPT ![t] = "arm"]
      BY <1>2 DEF AsyncBlock
    <2>2. h.addr \in As
      BY <2>1 DEF BlockOp
    <2>3. \A i \in DOMAIN handlers' : handlers'[i] = h \/ \E j \in DOMAIN handlers : handlers'[i] = handlers[j]
      BY <2>1, AppendProperties, LenProperties
    <2>4. QED
      BY <2>1, <2>2, <2>3
  <1>3. ASSUME NEW t \in Threads, AsyncUnblock(t) \/ Return(t)
        PROVE  Only(As)'
    BY <1>3 DEF AsyncUnblock, Return
  <1>4. ASSUME NEW n \in RuleNames, TimerExpires(n)
        PROVE  Only(As)'
    <2>1. handlers' = Append(handlers, UnblockOp(n)) /\ UNCHANGED <<rules, task, pc>>
      BY <1>4 DEF TimerExpires
    <2>2. \A i \in DOMAIN handlers' :
            handlers'[i] = UnblockOp(n) \/ \E j \in DOMAIN handlers : handlers'[i] = handlers[j]
      <3>1. UnblockOp(n) \in Handlers
        BY DEF UnblockOp, Handlers
      <3>2. QED
        BY <2>1, <3>1, AppendProperties, LenProperties
    <2>3. UnblockOp(n).op # "block"
      BY DEF UnblockOp
    <2>4. QED
      BY <2>1, <2>2, <2>3
  <1>5. ASSUME IoStep
        PROVE  Only(As)'
    <2>1. /\ handlers # <<>> /\ handlers' = Tail(handlers) /\ UNCHANGED <<task, pc>>
          /\ \A r \in rules' : r \in rules \/ (Head(handlers).op = "block" /\ r.addr = Head(handlers).addr)
      BY <1>5 DEF IoStep, RunBlock, RunUnblock
    <2>2. \A i \in DOMAIN handlers' : \E j \in DOMAIN handlers : handlers'[i] = handlers[j]
      BY <2>1, HeadTailProperties, LenProperties
    <2>3. Head(handlers) = handlers[1] /\ 1 \in DOMAIN handlers
      BY <2>1, QueueAfterRun
    <2>4. QED
      BY <2>1, <2>2, <2>3
  <1>6. ASSUME Tick \/ Start \/ CleanupStep
        PROVE  Only(As)'
    BY <1>6 DEF Tick, Start, CleanupStep, StartThreads, RemoveLeftover
  <1>7. CASE Terminate
    BY <1>7 DEF Terminate
  <1>8. CASE UNCHANGED taskVars
    BY <1>8 DEF taskVars
  <1>9. QED
    BY <1>1, <1>2, <1>3, <1>4, <1>5, <1>6, <1>7, <1>8 DEF TasksNext
=============================================================================
