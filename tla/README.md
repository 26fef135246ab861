# A TLA+ development of RDPBlocker

RDPBlocker watches the Security event log of a Windows machine for logins over
RDP and blocks the addresses of unwelcome ones in the Windows Firewall for a
while. This directory models the program in TLA+, checks the models with TLC
and proves with TLAPS every safety property that TLC finds to hold; liveness is
checked only. Line numbers are those of the files under `src/source/` unless a
path is given.

## The system

| Component | State | Operations | Interacts with |
|---|---|---|---|
| Event subscription (`subscribe_system_event.cpp`) | subscription handle, one queue per subscription | `Subscribe`, `SubscriptionCallback` → `Push`, `Pop`, `EventDataToMap` | the event-log service calls back on its own threads; one event thread pops |
| `concurrent_queue.h` | `m_queue`, `m_mutex`, condition variable | `push`, `pop`, `wait_pop`, `try_pop` | callback threads write, an event thread reads |
| Failed-login thread (`main.cpp:124-172, 197-254`) | `remote_address_map` of records | one handler per event 4625 | makes block tasks |
| Records and timer (`remote_address_status.cpp`, `timer.cpp`) | count, expire time and timer, block time and timer, in whole seconds of the wall clock | `is_expired`, `is_blocked`, setters | used by the failed-login thread only |
| Successful-login thread (`main.cpp:174-195, 266-361`) | the bind table, in `g_config` | one handler per event 4624 | makes block tasks |
| Blocking pipeline (`main.cpp:34-106`) | completion queue and timers of the `io_context` | `async_block`, `async_unblock`, `block`, `unblock` | event threads post, one io thread runs the handlers |
| Firewall controller (`firewall_controller.cpp`) | the rules of the Windows Firewall, which outlive the process | `BlockInboundIP`, `DeleteRuleByName`, `DeleteRulesByRegex`, `IsFireWallEnabled` | COM; called by main at start, afterwards by the io thread |
| Process mutex (`application_mutex.cpp`) | a named kernel mutex | `lock`, `close` | other instances of the program |
| Configuration (`application_config.cpp`, `src/inno/Release/config.yaml`) | thresholds, times, name lists, IP expressions | `block_time`, `is_white_address`, name and bind checks, `load_config_file` | read by both event threads |
| Start-up (`main.cpp:364-525`) | how far `main` has got, the threads it started | self check, arguments, mutex, COM, firewall check, clean-up, threads | everything |

What is hard here: two event threads and the io thread interleave on one
completion queue; firewall rules survive a process whose timers do not; the
results of firewall calls are dropped; records are timed by the wall clock in
whole seconds and blocks by the steady clock; workstation names become regular
expressions; two instances race on a mutex that only has to exist, and that is
one for each Windows session while the firewall is one for the system.
`PROJECT.json` lists each such hazard with its line and the properties aimed
at it.

What makes each part correct: every block is put in force once, lifted after
that and never left behind (pipeline); one block at a time per address, for
exactly the failures of its current chain (failed logins); verdicts that stay
the same and whitelists that cannot be got around (successful logins); atomic,
first-in-first-out, without lost wakeups (queue); one instance at a time
(mutex); no half-made rule, no unrelated rule removed (firewall controller).

## The modules

| Module | Models |
|---|---|
| `BlockTasks` | the pipeline: event threads in `create_block_remote_address_tasks` (`CreateBlockTasks`, `AsyncBlock`, `AsyncUnblock`, `Return`), the io thread (`TimerExpires`, `RunBlock`, `RunUnblock`, `Tick`), the life of the process (`Terminate`, `Start`, `RemoveLeftover`, `StartThreads`) |
| `BlockLifecycle` | the abstract specification of one block: free, requested, enforced, free again; or refused, or stuck when a firewall call failed |
| `RemoteAddressStatus` | the record of an address and its `Timer`, as operators |
| `FailBan` | the failed-login thread; EXTENDS `BlockTasks` and `RemoteAddressStatus` |
| `WorkstationCheck` | the successful-login thread with the bind table; EXTENDS `BlockTasks` |
| `ConcurrentQueue` | the queue, one step between two synchronisation operations |
| `FifoQueue` | the abstract specification of the queue: atomic, first in, first out |
| `ApplicationMutex` | `lock` in several instances of the program, each in some Windows session |
| `EventSubscription` | the way of an event into the program: `Subscribe`, the callbacks with the two calls of `EvtRender` and the error they judge by, `Push`, the event thread with what `EventDataToMap` throws; EXTENDS `ConcurrentQueue`, whose writers are the callback threads |
| `Startup` | `main` in several instances: self check, arguments, `load_config_file` section by section, the mutex, COM, the firewall check, the clean-up, the threads and their subscriptions, each with its exits; EXTENDS `ApplicationMutex` |
| `FirewallController` | the COM calls that edit the firewall, one step each |
| `FirewallCalls` | the abstract specification of these calls, as the pipeline takes them: a rule is added or not, a name removed or given up, and the clean-up notes the rules of earlier runs, except those it could not read |
| `Configuration` | `is_white_address` with the installed expressions |
| `BlockTasksProofs`, `FailBanProofs`, `WorkstationCheckProofs`, `ConcurrentQueueProofs`, `EventSubscriptionProofs`, `StartupProofs` (with those of the mutex), `FirewallControllerProofs`, `ConfigurationProofs` | the proofs |
| `MC*` | constants and symmetry for TLC |

The operators defined under "faulty variants" are not part of a model: each is
a wrong version of an action or operator, such as a dropped check, with which
the properties are shown to fail.

How the state corresponds to the code:

* `BlockTasks!handlers` is the completion queue of the `io_context` and
  `timer[n]` the `steady_timer` of the task whose rule is `n`. A handler is
  what was bound: block `n` for address `a`, or unblock `n`. `pc[t]` and
  `task[t]` say where event thread `t` is in the call. `rules` is the part of
  the firewall that the program wrote. One `RunBlock` or `RunUnblock` stands
  for the calls `FirewallController` shows one by one.
* `leftovers` is `vt_wait_delete`. A clean-up that fails in its enumeration
  lists some of the rules, or none. The history variable `abandoned` holds the
  names of rules that it did not list, or whose removal was attempted and
  failed; the code keeps no such thing, since it drops the result
  (`main.cpp:61, 493`, `firewall_controller.cpp:267, 317, 340`).
* `FailBan!records` is `remote_address_map`; `ledger` is a history variable
  that is never purged and serves as reference. `clock` counts steady ticks,
  `Now` is `std::time(0)`.
* `WorkstationCheck!binds` is `m_bind_table`; `allowed` and `refused` are
  history. A regular expression is a model value and `Matches` the relation
  "a search for this expression succeeds in this name".
* `ApplicationMutex!handles` is the set of instances whose `m_handle` is open.
  `session[p]` is the Windows session an instance is started in. The mutex is
  named without `Global\` (`application_config.cpp:161`), so that each session
  has one of its own, which exists while an instance of that session has it
  open (`Exists`).
* `EventSubscription!render` and `status` say where a callback is in
  `GetEventData` and which status it has so far; `handle` is
  the subscription. An event in the log is a value that is pushed at most
  once; `Odd` are those for which `EventDataToMap` throws, which ends the
  process since no event thread catches it.
* `Startup!stage` is the line of `main` an instance has reached; of the
  configuration only the two switches of the event threads are kept. `blocking`
  and `leftover` are the firewall as far as the instances can take each other's
  rules: all rules have the same prefix, and `DeleteRulesByRegex` removes
  those, all or, when a call fails, some of them. The firewall is the same in
  all sessions. `met` is history.

Abstractions: rule names are random (eight letters) and taken to be fresh; the
wall clock is never set back and advances with the steady clock; the readings
of `std::time` in one handler are one instant, but time may pass between the
steps of `create_block_remote_address_tasks` and of the io thread; the end of
the process, of whatever cause (service stop, exception in a thread,
`std::exit`, power), is one action that may come at any point. `Start` stands
for a start that gets past the mutex and the firewall check
(`main.cpp:469-486`), which `Startup` shows step by step. `EvtSubscribe` and
the assignment of its handle are one step. `GetEventData` ignores the result of
the second `EvtRender` and judges it by `GetLastError`
(`subscribe_system_event.cpp:85-87`), where the error of the first call may be
left over. Whether a successful `EvtRender` resets it is the constant
`ResetsLastError`; nothing in the interface promises that it does. With `TRUE`,
as in `event_safety`, every event that was rendered is handled; with `FALSE`
TLC shows one that is rendered and dropped (`DeliveredIsHandled`), so the
program depends on it. Every proof is for both. What the static destructors do
under the threads that still run when an event thread calls `std::exit` is
undefined behaviour of a process that ends, and not modelled.

## The runs

| Run | Question | Outcome |
|---|---|---|
| `tasks_safety` | is a rule ever orphaned, does an unblock ever overtake its block, is a rule removed before its own time, does the pipeline implement `BlockLifecycle`? | no, no, no, yes |
| `tasks_liveness` | does every block take effect and end, when firewall calls succeed? | yes |
| `failban_safety` | at most one live block per address; does purging records late change a count; is an address blocked for the whole block time, is any blocked without cause; when may a login at the threshold go without a block? | holds; no; yes, no; only while the record of an earlier block outlasts its time |
| `failban_gap` | is every login above the threshold blocked, as the configuration says? | violated |
| `workstation_safety` | do verdicts and bindings stay, is the whitelist respected, and is no rule orphaned when a malformed name ends the process? | yes |
| `workstation_auto_bind` | does an automatic binding bind one name? | violated |
| `event_safety` | is an event lost or taken twice between the event-log service and the event thread, the queue's mutual exclusion, lost wakeups and refinement of `FifoQueue` under it; is every delivered event handled? | no; all hold; yes, if `EvtRender` resets the last error, unless the process ends |
| `startup_safety` | does an instance run on a configuration read in part or edit the firewall without the mutex, do two instances of a session run together without having raced; do all subscriptions come to listen? | no to all three; yes |
| `startup_interference` | do two instances of a session never disturb each other, as `main.cpp:469` says? | violated |
| `startup_sessions` | does an instance that runs keep its rules when another is started later, in whatever session? | violated |
| `firewall_safety` | is the firewall ever given a half-made rule, an unrelated rule removed; do the functions implement `FirewallCalls`, so that no left-over is missed that could be read? | no, no; yes |
| `configuration_sound` | which addresses are on the whitelist? | those of the documented ranges but for the ones in `Missed` |

### Where code and documentation disagree

Shown by a run:

1. A record is blocked until more than `block_time` whole seconds have passed
   since the call that made the block returned, the rule is removed
   `block_time` seconds after the timer was armed: in between, which is up to a
   second and longer when the call was slow, a failed login above the threshold
   leads to no block (`main.cpp:159, 163-165`, `timer.cpp:24`,
   `config.yaml:10`; `failban_gap`).
2. An automatically bound workstation name is used as a regular expression
   that is searched for, so PC1 admits PC10 (`application_config.cpp:77, 101`,
   `config.yaml:28`; `workstation_auto_bind`).
3. `ApplicationMutex::lock` opens and then creates the mutex without looking at
   `ERROR_ALREADY_EXISTS`: two instances of a session may both run, and the
   clean-up of the second then takes the rules of the first (`main.cpp:469`;
   `startup_interference`).
4. The mutex is one for each session. An instance started by a user does not
   see that of the service, runs beside it without any race, and its clean-up
   takes the rules of the service (`application_config.cpp:161`,
   `main.cpp:469`; `startup_sessions`).
5. The expression for 100.64.0.0/10 misses part of the range
   (`config.yaml:63-64`): `Missed`, in `configuration_sound`.

Met in reading the code, and modelled as the code has it, but with no run: an
address is blocked at the threshold, where the configuration says above it
(`main.cpp:157`, `config.yaml:13`); every failed login restarts the expire time
(`main.cpp:152`), so the failures need not fall within one period; a refused
instance keeps the mutex in existence until it has left, and may have a third
one refused although none runs; a rule that could not be removed, or that the
clean-up did not list, stays until a later start (`main.cpp:61, 493`), and the
properties excuse it by name; with `random_delay_min = random_delay_max` there
is no delay (`random_utils.cpp:5`, `config.yaml:2`); the clean-up also removes
rules of others that have the prefix somewhere in their names
(`firewall_controller.cpp:329`); `RemoteAddressStatus::get_expire_time` returns
`m_block_time` (never called); `BlockInboundIP` returns false even when the
rule was added (`firewall_controller.cpp:250`; its result is not used).

### Bounds, and why they are enough

* `BlockTasks`: two event threads, as in the program; three rule names (two
  calls in progress and one block that lives on) and one address in
  `tasks_safety`, since no step of the pipeline compares addresses; block times
  0 and 1 of two ticks, so that a task is refused and a timer is seen waiting;
  two terminations, so that a clean-up is interrupted and repeated.
  `tasks_liveness` has two addresses and two rule names, and a tick of a second.
* `FailBan`: one address that counts, one on the whitelist, one malformed;
  threshold 2, block times 0 and 2 s of two ticks, an expire time of 1 s,
  shorter than the block (4 s in `failban_gap`, longer than it); twelve ticks
  are enough for a chain to be blocked, unblocked, expire and start again. Calls
  that remove or enumerate may fail; that a rule fails to be added is left to
  `tasks_safety`, since it leaves the address unblocked.
* `WorkstationCheck`: a configured and an unconfigured user; names that match,
  contain one another, are malformed, white or blocked.
* `EventSubscription`: two callback threads and one event thread, as a
  subscription has, and three events, one of them such that `EventDataToMap`
  throws; each is delivered at most once, in any order. The queue is checked in
  this composition; its proofs are for any number of readers and writers.
* `Startup`: two instances, in one session or in two, and three starts, so that
  one may start again while the other runs or leaves; `startup_interference`
  (one session) and `startup_sessions` (two) need two starts.
* `FirewallController`: two rules of the program, one unrelated, one with a
  similar name, two edits by others, two ends of the process.
* `Configuration`: the first number of an address at and around every
  documented boundary, with all second numbers.

`CHECK_DEADLOCK FALSE` is given where the program may only wait for events, or
a bound (ticks, starts, names that are all stuck) ends the instance.

### Fairness

`FairTasksSpec` asks for weak fairness of each event thread inside a call, of
the io thread, of the timers and the clock (the operating system schedules
threads that are not blocked, and time passes), and of the start and the
clean-up: the service has start mode Automatic
(`src/inno/Release/RDPBlocker_service.xml`), so it is started again at the next
boot at the latest. Nothing is assumed of new logins or of terminations.
`FairSubscriptionSpec` asks for weak fairness of each callback, of the event
thread and of a thread that does not need the mutex of the queue, and strong
fairness of one that does: critical sections are short, the mutex is free again
and again, and a waiting thread gets it in the end. Nothing is assumed of new
events, spurious wakeups or the end of the process.
`FairStartupSpec` asks for weak fairness of `main` and of the threads it
starts in each instance, and nothing of launches, logins and processes that are
ended from outside.

## The proofs

TLAPS checks, for all values of the constants that satisfy their assumptions,
every safety property of the passing runs, the refinements among them. What
follows is the argument of each, and why its invariant is as strong as it is.

**`BlockTasksProofs`.** `NoOrphanRule` is not inductive: `RunBlock` turns a
queued handler into a rule, so the removal must already be scheduled *behind*
that handler (`EveryBlockHasRemoval`); and `StartThreads` turns left-overs into
rules of a running program, so the clean-up must have covered them
(`CleanupCovers`). With `IdleHasNoTask` and `QuietUnlessRunning` this is
`PipelineInv` (`PipelineInvariant`, from it `RulesAreLifted`). `BlockRunsFirst`
needs in addition that two calls in progress have different rule names
(`DistinctTasks`), and `StaysWhileTimed` that a rule never has two of a running
timer, a queued removal and a call about to arm the timer (`TimedOnce`);
together they are `OrderInv` (`OrderInvariant`, `BlocksRunFirst`,
`BlocksStayWhileTimed`). `PipelineImplementsLifecycle` maps each step of the
pipeline to a step of `BlockLifecycle` or to a stutter. It rests on `LifeInv`:
each handler is queued once, a block still to be made has no rule yet, an
abandoned rule is in the firewall with nothing under way for it, and what the
clean-up has before it are rules it can remove.

**`FailBanProofs`.** Every step of the failed-login thread is a step of the
pipeline or leaves it alone (`FailBanImplementsTasks`), so that all theorems
above hold of it too. `PurgesAreInvisible` compares the records with a ledger
that forgets nothing (`AgreeInv`): where there is no record, the entry of the
ledger has lapsed, and it stays lapsed as time goes on. `OneLiveBlock` rests on
`LiveInv`: a block whose timer runs is carried by the call that armed it, which
has not returned yet (`CallLive`), or by a record that outlasts the timer
(`RecordLive`), although the timer counts ticks from one moment and the record
whole seconds from another. The record is then blocked, so that neither a purge
nor another failed login starts a second block. `BlocksAreEnforced` goes the
other way, from the ledger to the rule (`BookInv`, `CoverInv`: as long as a
block is in its term there is a rule, or a handler or a call on the way to it,
whose time left is at least that of the term). It assumes `"add" \notin
CanFail`: a rule that cannot be added leaves the address unblocked, and the
code does not look; removals and enumerations may fail, which never takes a
rule away. `MissesAreWhileRecordOutlasts`, under the same assumption, says how
far the first disagreement above goes: a failed login that is only counted
finds the record still blocked (`StillBlocked`), so that either the term of
that block runs and `BlocksAreEnforced` gives the rule, or it is over by no
more than the time from the decision (`since`) to the end of the second in
which the call returned (`from`), since the record counts from there
(`OutlastsBriefly`). `NobodyBlockedWithoutCause` is the converse of both: a
record that was ever given a block time keeps the count for it (`CauseInv`), a
running timer is backed by such a record (`LiveInv`), and since the pipeline
makes up no address (`Only`, in `BlockTasksProofs`) no rule is for a
whitelisted one. `FailBanKeepsPipelinePromises` states what carries over from
the pipeline.

**`WorkstationCheckProofs`.** `CheckImplementsTasks`, as above.
`VerdictsAlwaysAgree` needs the reason of each verdict in terms no later login
changes (`VerdictInv`): a record in the bind table decides for good
(`BindingsAreKept`), and a user without one who was refused is not bound
automatically. `OnlyBlockableIsBlocked` rests on `Only` as above: the thread
asks for addresses that may be blocked, and the pipeline makes up no other.
`CheckKeepsPipelinePromises` states what carries over from the pipeline.
`AutoBindWorksForUnlikeNames` assumes that no name, taken for an expression, is
found in another one; then a user bound automatically is allowed from one
workstation, since the records that are not configured hold names
(`NamesAreBound`). That assumption is not true of real names, as the second
disagreement shows; the theorem says that nothing else is amiss there. Addresses
that are no addresses are assumed to be different from those that are
(`WorkstationAssumption`).

**`ConcurrentQueueProofs`.** `MutualExclusion`, `FrontExists`, `WakeupsArrive`
and `QueueImplementsFifo` rest on one inductive invariant, `QueueInv`: that a
reader about to pop finds a value needs mutual exclusion, so that no other
reader took it since; and a value pushed while every reader waits comes with a
writer that is still to notify. In the refinement `PushAndUnlock` is the
abstract push, `PopAndUnlock` the abstract pop, and every other step a stutter.
Since values and readers are parameters, this covers queues of any length.

**`EventSubscriptionProofs`.** `SubscriptionImplementsQueue` carries the
theorems of the queue over to the subscription
(`SubscriptionKeepsQueuePromises`). The step of it holds by how the module is
composed; it is a link of the proofs and no property of its own, and so is
`StartupImplementsMutex` below. `EventsAreAccounted` says that every
event is in exactly one of six places; its invariant adds that the places
themselves hold no event twice: two callbacks have different events in hand and
in `push`, and the queue no value twice (`HandsDiffer`, `PushersDiffer`,
`QueueDiffers`).

**`StartupProofs`.** For the mutex alone, `HandlesAlwaysMatch` and
`LateStartersAreRefused`, from `MutexInv`: only `OpenMissing` leads to
"creating", and a running instance has the mutex of its session open.
`StartupImplementsMutex` shows that the whole of `main` uses the mutex in this
way. `AlwaysAsConfigured` and `AlwaysUnderMutex` follow from `StartupInv`: the
stage of an instance fits its use of the mutex and what it has read so far
(`StagesMatch`), threads run only in the last two stages (`ThreadsMatch`), and
an instance that got past the open has met nobody of its session that still
runs (`MetNobody`, from which `RunningTogetherTakesARace` follows).
`NoInterferenceWithoutRaces` states under which two conditions the comment in
`main` is true: there is a single session, and no two instances carry out
`lock` at the same time (`OneAtALock`). Then the one that creates the mutex or
has created it is alone (`OneGoesOn`), and nobody else has rules for its
clean-up to take.

**`FirewallControllerProofs`.** `NoHalfMadeRule` speaks of the firewall only;
`DraftMatches` adds that the setters called so far have set their fields to
what was asked for, so that the draft is the whole rule when the last one has
returned (`DraftInv`). `UnrelatedStay` needs that only names with the prefix
are ever noted for removal (`NamesInv`), `CleanupListsEverything` that each own
rule is still to be delivered by the enumerator, or noted, or was passed over,
the rules behind a failure of `Next` among the last (`LoopInv`).
`ControllerImplementsCalls` maps every COM call to a step of `FirewallCalls` or
to a stutter: the setters and everything that fails before `Add` are stutters
or `FailToAdd`, the end of the enumerating loop is the clean-up, and each
`Remove` takes one name. Its invariant `CallInv` adds that one call at a time
works on the firewall, that a name belongs to one rule, that the rule being
made is not there yet and that no name is to be removed twice. This is what the
single steps `RunBlock`, `RunUnblock` and `Start` of `BlockTasks` stand for.

**`ConfigurationProofs`.** `WhitelistAsWritten` splits the expressions by the
number of digits of an address's numbers, for all of 0 to 255 where TLC takes
the boundaries: what matches lies in the ranges (`ExactlyTwo`, `ThreeDigits`,
`OnlyDocumented`), and what lies there has the digits asked for (`WritesTwo`,
`WritesThree`, `DocumentedMatch`), but for `Missed`, which is the fifth
disagreement in full.

With `MissesAreWhileRecordOutlasts`, `AutoBindWorksForUnlikeNames`,
`NoInterferenceWithoutRaces` and `WhitelistAsWritten` there is, for each of the
five disagreements, a theorem that says where it ends.

The assumptions are those named in the modules: block times are integers, there
is at least one tick in a second, `NoTask` is no task, the failed-login thread
is a thread, the queue has a reader and a value, names of the program's rules
are not those of others.

Only model-checked: the four liveness properties `RuleLifted`,
`BlockTakesEffect`, `DeliveredIsHandled` and `AllListenOrNone`, since liveness
under fairness and whatever rests on ENABLED is out of the prover's reach; and
the four violations, which are shown by their counterexamples. Results that
need an induction over data are out of reach as well; none of the above does.

## Where this can go on

Every component in the table at the top is modelled. What could be added:

1. One module with both event threads, their two queues and the pipeline. Today
   `FailBan` and `WorkstationCheck` are each composed with the pipeline, and
   `EventSubscription` with one queue. The two event threads share nothing but
   the completion queue and the firewall, and `BlockTasks` has both of them as
   callers that may block any address at any time.
2. Name collisions: two of 26^8 rule names that coincide make `Remove` by name
   take the wrong rule.
3. Time: the wall clock set back, and a handler of the failed-login thread that
   lasts longer than a second between its readings of `std::time`.

Not modelled, and why:

* the logger (output only), the UTF conversions (pure, names are model values),
  the checksum of the program file (a pure computation of Windows; its verdict
  is a choice in `Startup`), the installer and the build files (packaging);
* the values of the configuration beyond the two switches in `Startup` (they
  are constants of the modules that use them) and the parsing of YAML, XML and
  arguments, of which only success, failure and what is read are kept;
* operations the program never calls: `unlock`, `empty` and `size` of the
  queue, `SetFireWallRuleLocalPorts`, `DeleteRule`, the unused accessors of
  records and timers, moves and swaps of open handles;
* the growth of the queue, which has no bound in the code and a finite number
  of events here, and the undefined behaviour of static destructors under
  running threads.
