------------------------------ MODULE FailBan -------------------------------
(***************************************************************************)
(* The failed-login thread of RDPBlocker (process_rdp_auth_failed_event)   *)
(* on top of the blocking pipeline.  It counts failed logins per remote    *)
(* address, forgets records that have expired, and blocks an address whose *)
(* count reaches the threshold.  Records are timed by the wall clock,      *)
(* which counts whole seconds, while the pipeline's timers use the finer   *)
(* steady clock.                                                           *)
(***************************************************************************)
EXTENDS BlockTasks, RemoteAddressStatus

CONSTANTS
  FailThread,   \* the event thread that handles failed logins
  Threshold,    \* m_fail_ban.m_threshold
  ExpireTime,   \* m_fail_ban.m_expire_time, in seconds
  Whitelist,    \* addresses some whitelist expression matches
  Invalid,      \* values of IpAddress that are no address, "-" and "" included
  MaxTicks,     \* bound on the clock
  MaxCount      \* bound on the failed logins counted for an address

ASSUME FailBanAssumption ==
  /\ FailThread \in Threads
  /\ Threshold \in Int
  /\ ExpireTime \in Int
  /\ Whitelist \subseteq Addresses
  /\ Invalid \cap Addresses = {}
  /\ MaxTicks \in Nat
  /\ MaxCount \in Nat

VARIABLES
  records,   \* remote_address_map: the statuses by address
  clock,     \* ticks since the program was first started
  ledger     \* history: what each address did, never purged

failBanVars == <<records, clock, ledger>>
vars == <<taskVars, failBanVars>>

\* std::time(0)
Now == clock \div TicksPerSecond

NoEntry == [count |-> 0, first |-> 0, last |-> 0, time |-> 0, from |-> 0, since |-> 0]
NoLedger == [a \in Addresses |-> NoEntry]

-----------------------------------------------------------------------------
(* Reference: the ledger, which records failures and blocks by time and    *)
(* forgets nothing.                                                        *)

\* A chain of failed logins has lapsed when nothing came for longer than the
\* expire time and the address is no longer blocked.
Lapsed(e) ==
  /\ ExpireTime > 0
  /\ Now - e.last > ExpireTime
  /\ Now - e.from > e.time

LedgerEntry(e) ==
  IF e.count = 0 \/ Lapsed(e)
  THEN [NoEntry EXCEPT !.count = 1, !.first = Now, !.last = Now]
  ELSE [e EXCEPT !.count = @ + 1, !.last = Now]

NoteFailure(a) == ledger' = [ledger EXCEPT ![a] = LedgerEntry(@)]

-----------------------------------------------------------------------------
(* The handling of one failed login.                                       *)

\* Faulty variants, used to validate the properties.

\* Expired records are purged without a look at is_blocked.
PurgeBlockedToo(map) ==
  LET kept == {a \in DOMAIN map : ~is_expired(map[a], Now)} IN [a \in kept |-> map[a]]

\* delete_expire_remote_address
delete_expire_remote_address(map) ==
  LET kept == {a \in DOMAIN map : is_blocked(map[a], Now) \/ ~is_expired(map[a], Now)}
  IN [a \in kept |-> map[a]]

\* The record of a after a failed login: found or made, its expire timer
\* restarted, its count increased.
Counted(map, a) ==
  LET found == IF a \in DOMAIN map
               THEN map[a]
               ELSE set_expire_time(NewStatus(Now), ExpireTime, Now)
  IN set_count(reset_expire_timer(found, Now), found.count + 1)

\* A faulty variant: the block is made when the count meets the threshold only.
ShouldBlockOnce(st) == st.count = Threshold /\ ~is_blocked(st, Now)

ShouldBlock(st) == st.count >= Threshold /\ ~is_blocked(st, Now)

Put(map, a, st) == [x \in DOMAIN map \cup {a} |-> IF x = a THEN st ELSE map[x]]

\* A failed-login event is popped while the thread waits for one.
Waiting == process = "running" /\ pc[FailThread] = "idle"

\* A faulty variant: the whitelist is not asked before counting.
CountBeforeWhitelist(a) ==
  /\ Waiting
  /\ a \in Invalid \cup Whitelist
  /\ LET map == delete_expire_remote_address(records) IN
       records' = IF a \in Whitelist THEN Put(map, a, Counted(map, a)) ELSE map
  /\ UNCHANGED <<taskVars, clock, ledger>>

\* The event's address is missing, malformed or whitelisted.
IgnoreLogin(a) ==
  /\ Waiting
  /\ a \in Invalid \cup Whitelist
  /\ records' = delete_expire_remote_address(records)
  /\ UNCHANGED <<taskVars, clock, ledger>>

\* The failed login is counted, and that is all.
CountLogin(a) ==
  /\ Waiting
  /\ a \in Addresses \ Whitelist
  /\ LET map == delete_expire_remote_address(records) IN
       /\ Counted(map, a).count <= MaxCount
       /\ ~ShouldBlock(Counted(map, a))
       /\ records' = Put(map, a, Counted(map, a))
  /\ NoteFailure(a)
  /\ UNCHANGED <<taskVars, clock>>

\* The failed login makes the thread block the address.
BlockAddress(a, time) ==
  /\ Waiting
  /\ a \in Addresses \ Whitelist
  /\ LET map == delete_expire_remote_address(records) IN
       /\ Counted(map, a).count <= MaxCount
       /\ ShouldBlock(Counted(map, a))
       /\ records' = Put(map, a, Counted(map, a))
  /\ CreateBlockTasks(FailThread, a, time)
  /\ ledger' = [ledger EXCEPT ![a] = [LedgerEntry(@) EXCEPT !.time = 0, !.since = clock]]
  /\ UNCHANGED clock

\* The same with a block_time <= 0: no task, but the record gets the time.
SkipBlock(a, time) ==
  /\ Waiting
  /\ a \in Addresses \ Whitelist
  /\ time <= 0
  /\ LET map == delete_expire_remote_address(records) IN
       /\ Counted(map, a).count <= MaxCount
       /\ ShouldBlock(Counted(map, a))
       /\ records' = Put(map, a, set_block_time(Counted(map, a), time, Now))
  /\ NoteFailure(a)
  /\ UNCHANGED <<taskVars, clock>>

\* create_block_remote_address_tasks has returned: set_block_time.
SetBlockTime ==
  /\ Return(FailThread)
  /\ LET a == task[FailThread].addr
         time == task[FailThread].time
     IN /\ records' = [records EXCEPT ![a] = set_block_time(@, time, Now)]
        /\ ledger' = [ledger EXCEPT ![a].time = time, ![a].from = Now]
  /\ UNCHANGED clock

-----------------------------------------------------------------------------
\* Both clocks advance.
ClockTick ==
  /\ process = "running"
  /\ clock < MaxTicks
  /\ clock' = clock + 1
  /\ timer' = CountDown
  /\ UNCHANGED <<process, leftovers, pc, task, handlers, rules, abandoned, terminations>>
  /\ UNCHANGED <<records, ledger>>

\* The program ends, and its records with it.
EndOfRecords ==
  /\ Terminate
  /\ records' = <<>>
  /\ ledger' = NoLedger
  /\ UNCHANGED clock

PipelineStep ==
  /\ \/ AsyncBlock(FailThread)
     \/ AsyncUnblock(FailThread)
     \/ \E n \in RuleNames : TimerExpires(n)
     \/ IoStep
     \/ Start
     \/ CleanupStep
  /\ UNCHANGED failBanVars

FailBanInit ==
  /\ TasksInit
  /\ records = <<>>
  /\ clock = 0
  /\ ledger = NoLedger

FailBanNext ==
  \/ \E a \in Addresses \cup Invalid : IgnoreLogin(a) \/ CountLogin(a)
  \/ \E a \in Addresses, time \in BlockTimes : BlockAddress(a, time) \/ SkipBlock(a, time)
  \/ SetBlockTime
  \/ PipelineStep
  \/ ClockTick
  \/ EndOfRecords

FailBanSpec == FailBanInit /\ [][FailBanNext]_vars

-----------------------------------------------------------------------------
(* Properties.                                                             *)

Statuses == [count : Nat, expire_time : Int, expire_timer : Nat, block_time : Int, blocked_timer : Nat]

\* Every variable keeps its type.
FailBanTypeOK ==
  /\ TasksTypeOK
  /\ DOMAIN records \subseteq Addresses \ Whitelist
  /\ \A a \in DOMAIN records : records[a] \in Statuses
  /\ clock \in 0 .. MaxTicks

\* Block n of address a is in the firewall or on its way, with time to run.
LiveBlock(n, a) ==
  /\ timer[n] > 0
  /\ \/ [name |-> n, addr |-> a] \in rules
     \/ \E i \in DOMAIN handlers : IsBlock(handlers[i], n) /\ handlers[i].addr = a

\* An address never has two blocks running at a time, although whether it is
\* blocked is judged by the wall clock in whole seconds and the block is timed
\* by the steady clock (main.cpp:157-165 against 74, timer.cpp:22-25).
AtMostOneLiveBlock ==
  \A a \in Addresses, n, m \in RuleNames : LiveBlock(n, a) /\ LiveBlock(m, a) => n = m

\* For block_time seconds after the decision to block an address, record and
\* firewall agree: the record is blocked, and a rule is in the firewall or on
\* its way there.  Neither the rounding of the record's clock, nor the time the
\* call takes, nor a purge lets go of the address early (main.cpp:163-165,
\* 202-206, remote_address_status.cpp:67-76).
BlockedIsEnforced ==
  \A a \in Addresses :
    ledger[a].time > 0 /\ clock - ledger[a].since < ledger[a].time * TicksPerSecond
      => /\ a \in DOMAIN records /\ is_blocked(records[a], Now)
         /\ \E n \in RuleNames : LiveBlock(n, a)

\* Nobody is blocked without cause: no rule, queued or in the firewall, is for a
\* whitelisted address, and while a block has time to run the record of its
\* address stays, with a count that has reached the threshold
\* (main.cpp:137-162, 197-218).
BlockedForCause ==
  /\ \A r \in rules : r.addr \notin Whitelist
  /\ \A i \in DOMAIN handlers : handlers[i].op = "block" => handlers[i].addr \notin Whitelist
  /\ \A a \in Addresses, n \in RuleNames :
       LiveBlock(n, a) => a \in DOMAIN records /\ records[a].count >= Threshold

\* Purging records only when some event arrives is invisible: a record counts
\* exactly the failed logins of the address's current chain, and an address
\* without record has none going (main.cpp:197-218, 239).
PurgeIsInvisible ==
  \A a \in Addresses :
    IF a \in DOMAIN records
    THEN records[a].count = ledger[a].count
    ELSE ledger[a].count > 0 => Lapsed(ledger[a])

\* The time of the last block of a is over, but its record has yet to notice:
\* it counts the block time again from the second in which the call returned.
\* That lasts as long as the call took, rounded up to the end of that second.
RecordOutlasts(a) ==
  LET e == ledger[a]
      over == e.since + e.time * TicksPerSecond
      late == (e.from + 1) * TicksPerSecond - e.since
  IN e.time > 0 /\ over <= clock /\ clock < over + late

\* A failed login at or above the threshold leaves its address free only when a
\* time of 0 or less is drawn for it, and while the record outlasts an earlier
\* block, which is by less than a second more than that block's call took
\* (main.cpp:157-165, timer.cpp:22-25).
MissedWhileRecordOutlasts ==
  [][\A a \in Addresses :
       ledger'[a].count > ledger[a].count /\ ledger'[a].count >= Threshold
       => \/ Blocked(a)
          \/ \E i \in DOMAIN handlers : handlers[i].op = "block" /\ handlers[i].addr = a
          \/ pc'[FailThread] = "post"
          \/ \E time \in BlockTimes : SkipBlock(a, time)
          \/ RecordOutlasts(a)]_vars

-----------------------------------------------------------------------------
(* What the configuration file says of the failban function.               *)

\* "Network logins exceeding the threshold will be blocked" (config.yaml:10):
\* after such a login the address is blocked, or its block is under way.
ExceedingIsBlocked ==
  [][\A a \in Addresses :
       /\ ledger'[a].count > ledger[a].count
       /\ ledger'[a].count > Threshold
       => \/ Blocked(a)
          \/ \E i \in DOMAIN handlers : handlers[i].op = "block" /\ handlers[i].addr = a
          \/ pc'[FailThread] = "post"]_vars
=============================================================================
