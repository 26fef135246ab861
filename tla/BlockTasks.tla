----------------------------- MODULE BlockTasks -----------------------------
(***************************************************************************)
(* The blocking pipeline of RDPBlocker: event threads that decide to block *)
(* an address call create_block_remote_address_tasks, which posts a        *)
(* "block" handler to the io_context and arms a steady_timer whose handler *)
(* "unblock"s again.  One io thread runs the handlers and edits the        *)
(* Windows Firewall.  Firewall rules outlive the process; everything else  *)
(* is lost when it ends, and the next start removes the left-over rules.   *)
(***************************************************************************)
EXTENDS Integers, Sequences, FiniteSets

CONSTANTS
  Threads,          \* event threads that may create block tasks
  Addresses,        \* remote addresses
  RuleNames,        \* values of m_rule_prefix + random_string(8)
  BlockTimes,       \* values ApplicationBlockConfig::block_time() may return, in seconds
  TicksPerSecond,   \* steady-clock ticks per second
  CanFail,          \* firewall calls that may fail: "add", "remove", "enumerate"
  MaxTerminations,  \* bound on the number of times the process ends
  NoTask            \* no call of create_block_remote_address_tasks in progress

ASSUME BlockTimesAssumption == BlockTimes \subseteq Int
ASSUME TicksAssumption == TicksPerSecond \in Nat \ {0}
ASSUME TerminationsAssumption == MaxTerminations \in Nat

\* A call that goes on to make a rule has a positive block_time.
Tasks == [name : RuleNames, addr : Addresses, time : {s \in BlockTimes : s > 0}]

ASSUME NoTaskAssumption == NoTask \notin Tasks

VARIABLES
  process,      \* "down", "cleanup" (DeleteRulesByRegex is removing) or "running"
  leftovers,    \* names in vt_wait_delete that are still to be removed
  pc,           \* where each event thread is in create_block_remote_address_tasks
  task,         \* the arguments of that call
  handlers,     \* the completion queue of the io_context, in FIFO order
  timer,        \* ticks until the steady_timer of each rule expires, or Off
  rules,        \* the program's rules in the Windows Firewall
  abandoned,    \* history: rules a failed call left unlisted or in place
  terminations  \* number of times the process ended

taskVars == <<process, leftovers, pc, task, handlers, timer, rules, abandoned,
              terminations>>

Off == -1
BlockOp(n, a) == [op |-> "block", name |-> n, addr |-> a]
UnblockOp(n) == [op |-> "unblock", name |-> n]
Handlers == [op : {"block"}, name : RuleNames, addr : Addresses]
              \cup [op : {"unblock"}, name : RuleNames]
Rules == [name : RuleNames, addr : Addresses]

RuleNamesIn(rs) == {r.name : r \in rs}
Blocked(a) == \E r \in rules : r.addr = a
IsBlock(h, n) == h.op = "block" /\ h.name = n
IsUnblock(h, n) == h.op = "unblock" /\ h.name = n
UnblockQueued(n) == \E i \in DOMAIN handlers : IsUnblock(handlers[i], n)

\* A rule name is eight random letters (random_string): drawn fresh.
NamesInUse ==
  RuleNamesIn(rules)
    \cup {handlers[i].name : i \in DOMAIN handlers}
    \cup {n \in RuleNames : timer[n] # Off}
    \cup {task[t].name : t \in {u \in Threads : task[u] # NoTask}}

TasksInit ==
  /\ process = "down"
  /\ leftovers = {}
  /\ pc = [t \in Threads |-> "idle"]
  /\ task = [t \in Threads |-> NoTask]
  /\ handlers = <<>>
  /\ timer = [n \in RuleNames |-> Off]
  /\ rules = {}
  /\ abandoned = {}
  /\ terminations = 0

-----------------------------------------------------------------------------
(* Faulty variants of the actions below, used to validate the properties.  *)

\* A one-shot delete posted at once instead of from the timer's completion.
PostUnblockFirst(t) ==
  /\ pc[t] = "post"
  /\ handlers' = handlers \o <<UnblockOp(task[t].name), BlockOp(task[t].name, task[t].addr)>>
  /\ pc' = [pc EXCEPT ![t] = "done"]
  /\ UNCHANGED <<process, leftovers, task, timer, rules, abandoned, terminations>>

\* The timer is created but async_wait is forgotten.
ForgetAsyncWait(t) ==
  /\ pc[t] = "arm"
  /\ pc' = [pc EXCEPT ![t] = "done"]
  /\ UNCHANGED <<process, leftovers, task, handlers, timer, rules, abandoned, terminations>>

\* The task does not keep itself alive with shared_from_this: what it posted
\* and its timer go with it when the call returns.
ReturnDestroysTask(t) ==
  /\ pc[t] = "done"
  /\ pc' = [pc EXCEPT ![t] = "idle"]
  /\ task' = [task EXCEPT ![t] = NoTask]
  /\ handlers' = SelectSeq(handlers, LAMBDA h : h.name # task[t].name)
  /\ timer' = [timer EXCEPT ![task[t].name] = Off]
  /\ UNCHANGED <<process, leftovers, rules, abandoned, terminations>>

\* The timer takes the seconds of block_time for ticks.
ArmTicks(t) ==
  /\ pc[t] = "arm"
  /\ timer' = [timer EXCEPT ![task[t].name] = task[t].time]
  /\ pc' = [pc EXCEPT ![t] = "done"]
  /\ UNCHANGED <<process, leftovers, task, handlers, rules, abandoned, terminations>>

\* The removal goes by the address of the rule instead of by its name.
UnblockByAddress ==
  /\ handlers # <<>>
  /\ Head(handlers).op = "unblock"
  /\ handlers' = Tail(handlers)
  /\ rules' = {r \in rules : \A q \in rules : q.name = Head(handlers).name => q.addr # r.addr}
  /\ UNCHANGED <<process, leftovers, pc, task, timer, abandoned, terminations>>

\* The block handler holds a reference to the address of the event, which has
\* changed by the time the io thread runs it.
RunBlockByReference ==
  /\ handlers # <<>>
  /\ Head(handlers).op = "block"
  /\ handlers' = Tail(handlers)
  /\ \E a \in Addresses : rules' = rules \cup {[name |-> Head(handlers).name, addr |-> a]}
  /\ UNCHANGED <<process, leftovers, pc, task, timer, abandoned, terminations>>

\* A task is made whatever the block_time.
CreateWithoutCheck(t, a, time) ==
  /\ process = "running"
  /\ pc[t] = "idle"
  /\ \E n \in RuleNames \ NamesInUse :
       task' = [task EXCEPT ![t] = [name |-> n, addr |-> a, time |-> time]]
  /\ pc' = [pc EXCEPT ![t] = "post"]
  /\ UNCHANGED <<process, leftovers, handlers, timer, rules, abandoned, terminations>>

\* The program starts without removing the rules of its previous run.
StartWithoutCleanup ==
  /\ process = "down"
  /\ process' = "running"
  /\ UNCHANGED <<leftovers, pc, task, handlers, timer, rules, abandoned, terminations>>

-----------------------------------------------------------------------------
(* create_block_remote_address_tasks, run by an event thread.              *)

\* The call with a positive block_time: the task and its rule name are made.
\* With block_time <= 0 the call only logs a warning and changes nothing.
CreateBlockTasks(t, a, time) ==
  /\ process = "running"
  /\ pc[t] = "idle"
  /\ time > 0
  /\ \E n \in RuleNames \ NamesInUse :
       task' = [task EXCEPT ![t] = [name |-> n, addr |-> a, time |-> time]]
  /\ pc' = [pc EXCEPT ![t] = "post"]
  /\ UNCHANGED <<process, leftovers, handlers, timer, rules, abandoned, terminations>>

\* BlockRemoteAddressTask::async_block: io_context.post of the block handler.
AsyncBlock(t) ==
  /\ pc[t] = "post"
  /\ handlers' = Append(handlers, BlockOp(task[t].name, task[t].addr))
  /\ pc' = [pc EXCEPT ![t] = "arm"]
  /\ UNCHANGED <<process, leftovers, task, timer, rules, abandoned, terminations>>

\* BlockRemoteAddressTask::async_unblock: expires_from_now and async_wait.
AsyncUnblock(t) ==
  /\ pc[t] = "arm"
  /\ timer' = [timer EXCEPT ![task[t].name] = task[t].time * TicksPerSecond]
  /\ pc' = [pc EXCEPT ![t] = "done"]
  /\ UNCHANGED <<process, leftovers, task, handlers, rules, abandoned, terminations>>

\* The call returns to the event thread.
Return(t) ==
  /\ pc[t] = "done"
  /\ pc' = [pc EXCEPT ![t] = "idle"]
  /\ task' = [task EXCEPT ![t] = NoTask]
  /\ UNCHANGED <<process, leftovers, handlers, timer, rules, abandoned, terminations>>

-----------------------------------------------------------------------------
(* The io_context: one thread in io_context::run.                          *)

\* An expired timer's handler joins the completion queue behind the handlers
\* already posted.
TimerExpires(n) ==
  /\ process = "running"
  /\ timer[n] = 0
  /\ timer' = [timer EXCEPT ![n] = Off]
  /\ handlers' = Append(handlers, UnblockOp(n))
  /\ UNCHANGED <<process, leftovers, pc, task, rules, abandoned, terminations>>

\* BlockRemoteAddressTask::block: the result of BlockInboundIP is not looked at.
RunBlock ==
  /\ handlers # <<>>
  /\ Head(handlers).op = "block"
  /\ handlers' = Tail(handlers)
  /\ \/ rules' = rules \cup {[name |-> Head(handlers).name, addr |-> Head(handlers).addr]}
     \/ "add" \in CanFail /\ rules' = rules
  /\ UNCHANGED <<process, leftovers, pc, task, timer, abandoned, terminations>>

\* BlockRemoteAddressTask::unblock: the result of DeleteRuleByName is not
\* looked at, and a failed removal is not tried again.
RunUnblock ==
  /\ handlers # <<>>
  /\ Head(handlers).op = "unblock"
  /\ handlers' = Tail(handlers)
  /\ \/ /\ rules' = {r \in rules : r.name # Head(handlers).name}
        /\ UNCHANGED abandoned
     \/ /\ "remove" \in CanFail
        /\ abandoned' = abandoned \cup (RuleNamesIn(rules) \cap {Head(handlers).name})
        /\ UNCHANGED rules
  /\ UNCHANGED <<process, leftovers, pc, task, timer, terminations>>

\* The timers after one tick of the steady clock.
CountDown == [n \in RuleNames |-> IF timer[n] > 0 THEN timer[n] - 1 ELSE timer[n]]

\* The steady clock advances while some timer is waiting.
Tick ==
  /\ process = "running"
  /\ \E n \in RuleNames : timer[n] > 0
  /\ timer' = CountDown
  /\ UNCHANGED <<process, leftovers, pc, task, handlers, rules, abandoned, terminations>>

-----------------------------------------------------------------------------
(* The life of the process.                                                *)

\* The process ends: it is stopped or killed, crashes, or an event thread
\* whose Subscribe failed calls std::exit.  Only the firewall remembers.
Terminate ==
  /\ process # "down"
  /\ terminations < MaxTerminations
  /\ terminations' = terminations + 1
  /\ process' = "down"
  /\ leftovers' = {}
  /\ pc' = [t \in Threads |-> "idle"]
  /\ task' = [t \in Threads |-> NoTask]
  /\ handlers' = <<>>
  /\ timer' = [n \in RuleNames |-> Off]
  /\ UNCHANGED <<rules, abandoned>>

\* main reaches DeleteRulesByRegex(m_rule_prefix), which lists the rules it is
\* to remove.  An enumeration that fails, at once or on the way, leaves rules
\* unlisted, and main goes on regardless.
Start ==
  /\ process = "down"
  /\ process' = "cleanup"
  /\ \E listed \in SUBSET RuleNamesIn(rules) :
       /\ listed = RuleNamesIn(rules) \/ "enumerate" \in CanFail
       /\ leftovers' = listed
       /\ abandoned' = RuleNamesIn(rules) \ listed
  /\ UNCHANGED <<pc, task, handlers, timer, rules, terminations>>

\* One pRules->Remove(name) of DeleteRulesByRegex; its HRESULT is dropped.
RemoveLeftover(n) ==
  /\ process = "cleanup"
  /\ n \in leftovers
  /\ leftovers' = leftovers \ {n}
  /\ \/ rules' = {r \in rules : r.name # n} /\ UNCHANGED abandoned
     \/ "remove" \in CanFail /\ abandoned' = abandoned \cup {n} /\ UNCHANGED rules
  /\ UNCHANGED <<process, pc, task, handlers, timer, terminations>>

\* main starts the io thread and the event threads.
StartThreads ==
  /\ process = "cleanup"
  /\ leftovers = {}
  /\ process' = "running"
  /\ UNCHANGED <<leftovers, pc, task, handlers, timer, rules, abandoned, terminations>>

-----------------------------------------------------------------------------
IoStep == RunBlock \/ RunUnblock
CleanupStep == (\E n \in RuleNames : RemoveLeftover(n)) \/ StartThreads

TasksNext ==
  \/ \E t \in Threads, a \in Addresses, time \in BlockTimes : CreateBlockTasks(t, a, time)
  \/ \E t \in Threads : AsyncBlock(t) \/ AsyncUnblock(t) \/ Return(t)
  \/ \E n \in RuleNames : TimerExpires(n)
  \/ IoStep
  \/ Tick
  \/ Terminate
  \/ Start
  \/ CleanupStep

TasksSpec == TasksInit /\ [][TasksNext]_taskVars

\* The operating system schedules the threads, time passes, and the service
\* manager starts the program again (its start mode is Automatic).
TasksFairness ==
  /\ \A t \in Threads : WF_taskVars(AsyncBlock(t) \/ AsyncUnblock(t) \/ Return(t))
  /\ \A n \in RuleNames : WF_taskVars(TimerExpires(n))
  /\ WF_taskVars(IoStep)
  /\ WF_taskVars(Tick)
  /\ WF_taskVars(Start)
  /\ WF_taskVars(CleanupStep)

FairTasksSpec == TasksSpec /\ TasksFairness

-----------------------------------------------------------------------------
(* Properties.                                                             *)

\* Every variable keeps its type.
TasksTypeOK ==
  /\ process \in {"down", "cleanup", "running"}
  /\ leftovers \subseteq RuleNames
  /\ pc \in [Threads -> {"idle", "post", "arm", "done"}]
  /\ task \in [Threads -> Tasks \cup {NoTask}]
  /\ handlers \in Seq(Handlers)
  /\ timer \in [RuleNames -> Nat \cup {Off}]
  /\ rules \subseteq Rules
  /\ abandoned \subseteq RuleNames
  /\ terminations \in Nat

\* The removal of rule n is still to come: its timer is armed, its unblock
\* handler is queued, or an event thread is about to arm the timer.
UnblockScheduled(n) ==
  \/ timer[n] # Off
  \/ UnblockQueued(n)
  \/ \E t \in Threads : pc[t] = "arm" /\ task[t].name = n

\* While the program runs, every rule it has in the firewall has its removal
\* scheduled, unless a removal the code attempted failed: no interleaving of
\* event threads, timers, io thread, terminations and restarts leaves an
\* address blocked for ever (main.cpp:94-100, 491-493).
NoOrphanRule ==
  process = "running" =>
    \A r \in rules : UnblockScheduled(r.name) \/ r.name \in abandoned

\* The strengthening that makes NoOrphanRule inductive: a block handler still
\* queued has its removal scheduled behind it, and a process that is not yet
\* running has nothing under way.
IdleHasNoTask == \A t \in Threads : (pc[t] = "idle") <=> (task[t] = NoTask)

QuietUnlessRunning ==
  process # "running" => handlers = <<>> /\ \A t \in Threads : pc[t] = "idle"

CleanupCovers ==
  process = "cleanup" => RuleNamesIn(rules) \subseteq leftovers \cup abandoned

RemovalBehind(i, n) ==
  \/ timer[n] # Off
  \/ \E t \in Threads : pc[t] = "arm" /\ task[t].name = n
  \/ \E j \in DOMAIN handlers : j > i /\ IsUnblock(handlers[j], n)

EveryBlockHasRemoval ==
  \A i \in DOMAIN handlers, n \in RuleNames :
    IsBlock(handlers[i], n) => RemovalBehind(i, n)

PipelineInv ==
  /\ TasksTypeOK
  /\ IdleHasNoTask
  /\ QuietUnlessRunning
  /\ CleanupCovers
  /\ EveryBlockHasRemoval
  /\ NoOrphanRule

\* The unblock handler of a task never runs before its block handler: once
\* queued, or its timer armed, nothing of the block is still to be queued
\* behind it (main.cpp:97-100 posts first and arms second).
BlockRunsFirst ==
  /\ \A i, j \in DOMAIN handlers, n \in RuleNames :
       i < j => ~(IsUnblock(handlers[i], n) /\ IsBlock(handlers[j], n))
  /\ \A t \in Threads :
       pc[t] = "post" => timer[task[t].name] = Off /\ ~UnblockQueued(task[t].name)

\* The strengthening that makes BlockRunsFirst inductive: calls in progress
\* work on different rules.
DistinctTasks ==
  \A t, u \in Threads :
    (t # u /\ pc[t] # "idle" /\ pc[u] # "idle") => task[t].name # task[u].name

\* A removal is queued only after its timer, and the timer is armed once.
TimedOnce ==
  /\ \A t \in Threads :
       pc[t] = "arm" => timer[task[t].name] = Off /\ ~UnblockQueued(task[t].name)
  /\ \A n \in RuleNames : UnblockQueued(n) => timer[n] = Off

OrderInv == DistinctTasks /\ BlockRunsFirst /\ TimedOnce

\* A block stays in force until its own time is over: a rule whose timer still
\* runs, or is yet to be armed, is not removed, although other blocks of the
\* same address expire meanwhile (main.cpp:58-77, 193-194).
StaysWhileTimed ==
  [][\A r \in rules :
       /\ process = "running"
       /\ timer[r.name] # Off \/ \E t \in Threads : pc[t] = "arm" /\ task[t].name = r.name
       => r \in rules']_taskVars

-----------------------------------------------------------------------------
(* The pipeline implements the life cycle of a block.                      *)

BlockPending(n) ==
  \/ \E t \in Threads : pc[t] = "post" /\ task[t].name = n
  \/ \E i \in DOMAIN handlers : IsBlock(handlers[i], n)

StageOf(n) ==
  CASE n \in abandoned -> "stuck"
    [] n \in RuleNamesIn(rules) \ abandoned -> "enforced"
    [] BlockPending(n) /\ n \notin RuleNamesIn(rules) \cup abandoned -> "requested"
    [] UnblockScheduled(n) /\ ~BlockPending(n) /\ n \notin RuleNamesIn(rules) \cup abandoned -> "refused"
    [] OTHER -> "free"

Lifecycle == INSTANCE BlockLifecycle WITH
  Blocks <- RuleNames,
  MayFail <- CanFail # {},
  stage <- [n \in RuleNames |-> StageOf(n)],
  alive <- process = "running"

\* Each block is requested, put in force once and lifted after that, never
\* the other way round, whatever the threads, the io thread and the restarts
\* do in between (main.cpp:35-106, 491-503).
ImplementsLifecycle == Lifecycle!LifecycleSpec

\* Every rule the program adds is lifted again: by its timer while the
\* program runs, or by the clean-up of the next start (main.cpp:99, 491).
RuleLifted ==
  \A n \in RuleNames : (n \in RuleNamesIn(rules)) ~> (n \notin RuleNamesIn(rules))

\* A decision to block an address takes effect unless the process ends first
\* (main.cpp:96-97, 52-56).
BlockTakesEffect ==
  \A t \in Threads, a \in Addresses :
    (pc[t] = "post" /\ task[t].addr = a) ~> (Blocked(a) \/ process = "down")
=============================================================================
