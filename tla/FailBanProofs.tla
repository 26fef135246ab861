---------------------------- MODULE FailBanProofs ----------------------------
(***************************************************************************)
(* Proofs about the failed-login thread, for any threshold, expire time,   *)
(* addresses and whitelist, and on top of any blocking pipeline.           *)
(***************************************************************************)
EXTENDS FailBan, BlockTasksProofs

-----------------------------------------------------------------------------
(* The wall clock.                                                         *)

LEMMA Products ==
  ASSUME NEW x \in Int, NEW y \in Int, NEW d \in Int, d > 0
  PROVE  /\ x * d \in Int
         /\ x <= y => x * d <= y * d
         /\ x * d < y * d => x < y
         /\ (x + y) * d = x * d + y * d
  BY SMT

LEMMA Quotients ==
  ASSUME NEW c \in Nat, NEW d \in Int, d > 0
  PROVE  /\ c \div d \in Nat
         /\ (c \div d) * d <= c
         /\ c < (c \div d) * d + d
  BY SMT

\* std::time(0) is the second the clock is in.
LEMMA SecondOf ==
  ASSUME NEW c \in Nat
  PROVE  /\ c \div TicksPerSecond \in Nat
         /\ (c \div TicksPerSecond) * TicksPerSecond \in Int
         /\ (c \div TicksPerSecond) * TicksPerSecond <= c
         /\ c < (c \div TicksPerSecond) * TicksPerSecond + TicksPerSecond
  <1>1. TicksPerSecond \in Int /\ TicksPerSecond > 0
    BY TicksAssumption, SMT
  <1>2. c \div TicksPerSecond \in Nat
    BY <1>1, Quotients
  <1>3. QED
    BY <1>1, <1>2, Quotients, Products

LEMMA LaterSecond ==
  ASSUME NEW c \in Nat, NEW d \in Nat, c <= d
  PROVE  c \div TicksPerSecond <= d \div TicksPerSecond
  <1> DEFINE s == c \div TicksPerSecond
             t == d \div TicksPerSecond
  <1>1. s \in Nat /\ t \in Nat /\ TicksPerSecond \in Int /\ TicksPerSecond > 0
    BY SecondOf, TicksAssumption
  <1>2. /\ s * TicksPerSecond <= c /\ d < t * TicksPerSecond + TicksPerSecond
        /\ s * TicksPerSecond \in Int /\ t * TicksPerSecond \in Int
    BY SecondOf
  <1> HIDE DEF s, t
  <1>3. (t + 1) * TicksPerSecond = t * TicksPerSecond + TicksPerSecond
    <2>1. 1 * TicksPerSecond = TicksPerSecond
      BY <1>1
    <2>2. QED
      BY <1>1, <2>1, Products
  <1>4. s * TicksPerSecond < (t + 1) * TicksPerSecond
    BY <1>1, <1>2, <1>3
  <1>5. s < t + 1
    <2>1. t + 1 \in Int
      BY <1>1
    <2>2. QED
      BY <1>1, <1>4, <2>1, Products
  <1>6. QED
    BY <1>1, <1>5 DEF s, t

-----------------------------------------------------------------------------
(* The thread uses the pipeline as BlockTasks has it.                      *)

LEMMA TasksSteps == TasksTypeOK /\ [FailBanNext]_vars => [TasksNext]_taskVars
  <1> SUFFICES ASSUME TasksTypeOK, [FailBanNext]_vars
               PROVE  TasksNext \/ UNCHANGED taskVars
    OBVIOUS
  <1> USE FailBanAssumption
  <1>1. ASSUME NEW a, NEW time, IgnoreLogin(a) \/ CountLogin(a) \/ SkipBlock(a, time)
        PROVE  UNCHANGED taskVars
    BY <1>1 DEF IgnoreLogin, CountLogin, SkipBlock
  <1>2. ASSUME NEW a \in Addresses, NEW time \in BlockTimes, BlockAddress(a, time)
        PROVE  TasksNext
    BY <1>2 DEF BlockAddress, TasksNext
  <1>3. ASSUME SetBlockTime \/ PipelineStep \/ EndOfRecords
        PROVE  TasksNext
    BY <1>3 DEF SetBlockTime, PipelineStep, EndOfRecords, TasksNext
  <1>4. ASSUME ClockTick
        PROVE  Tick \/ UNCHANGED taskVars
    <2>1. CASE \E n \in RuleNames : timer[n] > 0
      BY <1>4, <2>1 DEF ClockTick, Tick
    <2>2. CASE ~\E n \in RuleNames : timer[n] > 0
      <3>1. CountDown = timer
        BY <2>2 DEF CountDown, TasksTypeOK
      <3>2. QED
        BY <1>4, <3>1 DEF ClockTick, taskVars
    <2>3. QED
      BY <2>1, <2>2
  <1>5. CASE UNCHANGED vars
    BY <1>5 DEF vars
  <1>6. QED
    BY <1>1, <1>2, <1>3, <1>4, <1>5 DEF FailBanNext, TasksNext

\* What is proved of the pipeline holds below the thread: above all, every
\* rule it adds has its removal scheduled.
THEOREM FailBanImplementsTasks == FailBanSpec => TasksSpec /\ []TasksTypeOK
  <1> DEFINE I == TasksTypeOK /\ IdleHasNoTask
  <1>1. FailBanInit => I /\ TasksInit
    BY TypingInit DEF FailBanInit, TasksInit, IdleHasNoTask
  <1>2. I /\ [FailBanNext]_vars => I' /\ [TasksNext]_taskVars
    BY TasksSteps, TypingStep
  <1>3. QED
    BY <1>1, <1>2, PTL DEF FailBanSpec, TasksSpec

-----------------------------------------------------------------------------
(* Type correctness.                                                       *)

Entries == [count : Nat, first : Nat, last : Nat, time : Int, from : Nat, since : Nat]

RecordsTypeOK ==
  /\ DOMAIN records \subseteq Addresses \ Whitelist
  /\ \A a \in DOMAIN records : records[a] \in Statuses
  /\ clock \in 0 .. MaxTicks
  /\ ledger \in [Addresses -> Entries]

LEMMA NowIsNat == RecordsTypeOK => clock \in Nat /\ Now \in Nat
  BY SecondOf, FailBanAssumption DEF RecordsTypeOK, Now

\* A purge only removes records.
LEMMA Purged ==
  ASSUME NEW map, NEW a
  PROVE  /\ a \in DOMAIN delete_expire_remote_address(map)
              <=> a \in DOMAIN map /\ (is_blocked(map[a], Now) \/ ~is_expired(map[a], Now))
         /\ a \in DOMAIN delete_expire_remote_address(map)
              => delete_expire_remote_address(map)[a] = map[a]
  BY DEF delete_expire_remote_address

\* What the setters of a status change, and what they leave alone.
LEMMA SetterFields ==
  ASSUME NEW st \in Statuses, NEW n \in Nat, NEW time \in Int, NEW now \in Nat
  PROVE  /\ set_count(st, n) \in Statuses
         /\ set_count(st, n).count = n
         /\ set_count(st, n).expire_time = st.expire_time
         /\ set_count(st, n).expire_timer = st.expire_timer
         /\ set_count(st, n).block_time = st.block_time
         /\ set_count(st, n).blocked_timer = st.blocked_timer
         /\ set_expire_time(st, time, now) \in Statuses
         /\ set_expire_time(st, time, now).count = st.count
         /\ set_expire_time(st, time, now).expire_time = time
         /\ set_expire_time(st, time, now).block_time = st.block_time
         /\ reset_expire_timer(st, now) \in Statuses
         /\ reset_expire_timer(st, now).count = st.count
         /\ reset_expire_timer(st, now).expire_time = st.expire_time
         /\ reset_expire_timer(st, now).expire_timer = now
         /\ reset_expire_timer(st, now).block_time = st.block_time
         /\ reset_expire_timer(st, now).blocked_timer = st.blocked_timer
  BY DEF set_count, set_expire_time, reset_expire_timer, Statuses

LEMMA NewStatusFields ==
  ASSUME NEW now \in Nat
  PROVE  NewStatus(now) \in Statuses /\ NewStatus(now).count = 0 /\ NewStatus(now).block_time = 0
  BY DEF NewStatus, Statuses

\* What counting a failed login makes of a status.
LEMMA CountedFields ==
  ASSUME NEW map, NEW a, NEW now \in Nat, now = Now,
         a \in DOMAIN map => map[a] \in Statuses
  PROVE  LET c == Counted(map, a)
         IN  /\ c \in Statuses
             /\ c.expire_timer = now
             /\ a \in DOMAIN map =>
                  /\ c.count = map[a].count + 1 /\ c.expire_time = map[a].expire_time
                  /\ c.block_time = map[a].block_time /\ c.blocked_timer = map[a].blocked_timer
             /\ a \notin DOMAIN map =>
                  c.count = 1 /\ c.expire_time = ExpireTime /\ c.block_time = 0
  <1> DEFINE found == IF a \in DOMAIN map
                      THEN map[a]
                      ELSE set_expire_time(NewStatus(now), ExpireTime, now)
             c == Counted(map, a)
  <1>0. ExpireTime \in Int /\ NewStatus(now) \in Statuses
    BY FailBanAssumption, NewStatusFields
  <1>1. found \in Statuses /\ found.count \in Nat
    <2>1. found \in Statuses
      BY <1>0, SetterFields
    <2>2. QED
      BY <2>1 DEF Statuses
  <1>2. c = set_count(reset_expire_timer(found, now), found.count + 1)
    BY DEF Counted
  <1>3. a \notin DOMAIN map => found.count = 0 /\ found.expire_time = ExpireTime /\ found.block_time = 0
    BY <1>0, SetterFields, NewStatusFields
  <1> HIDE DEF c
  <1>4. /\ c \in Statuses
        /\ c.expire_timer = now /\ c.count = found.count + 1
        /\ c.expire_time = found.expire_time
        /\ c.block_time = found.block_time /\ c.blocked_timer = found.blocked_timer
    <2> HIDE DEF found
    <2>1. reset_expire_timer(found, now) \in Statuses
      BY <1>1, SetterFields
    <2>2. found.count + 1 \in Nat
      BY <1>1
    <2>3. QED
      BY <1>1, <1>2, <2>1, <2>2, SetterFields
  <1>5. QED
    BY <1>3, <1>4 DEF c

LEMMA PutStatus ==
  ASSUME NEW map, NEW a, NEW st
  PROVE  /\ DOMAIN Put(map, a, st) = DOMAIN map \cup {a}
         /\ Put(map, a, st)[a] = st
         /\ \A x \in DOMAIN map : x # a => Put(map, a, st)[x] = map[x]
  BY DEF Put

LEMMA BlockTimeFields ==
  ASSUME NEW st \in Statuses, NEW time \in Int, NEW now \in Nat
  PROVE  LET s == set_block_time(st, time, now)
         IN  /\ s \in Statuses
             /\ s.count = st.count /\ s.expire_time = st.expire_time
             /\ s.expire_timer = st.expire_timer
             /\ s.block_time = time /\ s.blocked_timer = now
  BY DEF set_block_time, Statuses

LEMMA LedgerFields ==
  ASSUME RecordsTypeOK, NEW e \in Entries
  PROVE  /\ LedgerEntry(e) \in Entries
         /\ LedgerEntry(e).last = Now
         /\ e.count = 0 \/ Lapsed(e) =>
              /\ LedgerEntry(e).count = 1 /\ LedgerEntry(e).time = 0 /\ LedgerEntry(e).from = 0
              /\ LedgerEntry(e).since = 0
         /\ ~(e.count = 0 \/ Lapsed(e)) =>
              /\ LedgerEntry(e).count = e.count + 1 /\ LedgerEntry(e).time = e.time
              /\ LedgerEntry(e).from = e.from /\ LedgerEntry(e).since = e.since
  <1>1. Now \in Nat
    BY NowIsNat
  <1>2. CASE e.count = 0 \/ Lapsed(e)
    <2>1. LedgerEntry(e) = [count |-> 1, first |-> Now, last |-> Now, time |-> 0, from |-> 0, since |-> 0]
      BY <1>2 DEF LedgerEntry, NoEntry
    <2>2. QED
      BY <1>1, <1>2, <2>1 DEF Entries
  <1>3. CASE ~(e.count = 0 \/ Lapsed(e))
    <2> DEFINE l == [e EXCEPT !.count = e.count + 1, !.last = Now]
    <2>1. LedgerEntry(e) = l
      BY <1>3 DEF LedgerEntry
    <2>2. e.count + 1 \in Nat
      BY DEF Entries
    <2>3. /\ l \in Entries /\ l.count = e.count + 1 /\ l.last = Now
          /\ l.time = e.time /\ l.from = e.from /\ l.since = e.since
      BY <1>1, <2>2 DEF Entries
    <2>4. QED
      BY <1>3, <2>1, <2>3
  <1>4. QED
    BY <1>2, <1>3

LEMMA DecisionFields ==
  ASSUME NEW e \in Entries, NEW s \in Nat, NEW time \in Int
  PROVE  LET d == [e EXCEPT !.time = time, !.since = s]
         IN  /\ d \in Entries /\ d.time = time /\ d.since = s
             /\ d.count = e.count /\ d.last = e.last /\ d.from = e.from
  BY DEF Entries

\* What a counted failed login leaves of the records.
LEMMA RecordsAfterCount ==
  ASSUME RecordsTypeOK, NEW a \in Addresses \ Whitelist, NEW st \in Statuses,
         records' = Put(delete_expire_remote_address(records), a, st)
  PROVE  /\ DOMAIN records' \subseteq Addresses \ Whitelist
         /\ \A x \in DOMAIN records' : records'[x] \in Statuses
         /\ a \in DOMAIN records' /\ records'[a] = st
         /\ \A x : x # a => /\ x \in DOMAIN records' <=>
                                 x \in DOMAIN records /\ (is_blocked(records[x], Now) \/ ~is_expired(records[x], Now))
                            /\ x \in DOMAIN records' => records'[x] = records[x]
  <1> DEFINE map == delete_expire_remote_address(records)
  <1>1. \A x : /\ x \in DOMAIN map <=>
                    x \in DOMAIN records /\ (is_blocked(records[x], Now) \/ ~is_expired(records[x], Now))
               /\ x \in DOMAIN map => map[x] = records[x]
    BY Purged
  <1> HIDE DEF map
  <1>2. /\ DOMAIN records' = DOMAIN map \cup {a} /\ records'[a] = st
        /\ \A x \in DOMAIN map : x # a => records'[x] = map[x]
    BY DEF map, Put
  <1>3. QED
    BY <1>1, <1>2 DEF RecordsTypeOK

\* The status a failed login makes.
LEMMA CountedStatus ==
  ASSUME RecordsTypeOK, NEW a
  PROVE  Counted(delete_expire_remote_address(records), a) \in Statuses
  <1> DEFINE map == delete_expire_remote_address(records)
  <1>1. a \in DOMAIN map => map[a] \in Statuses
    BY Purged DEF RecordsTypeOK
  <1>2. Now \in Nat
    BY NowIsNat
  <1> HIDE DEF map
  <1>3. Counted(map, a) \in Statuses
    BY <1>1, <1>2, CountedFields
  <1>4. QED
    BY <1>3 DEF map

LEMMA RecordsInit == FailBanInit => RecordsTypeOK
  BY FailBanAssumption DEF FailBanInit, RecordsTypeOK, NoLedger, NoEntry, Entries

\* A call in progress is about an address with a record.
CalledForRecord == pc[FailThread] # "idle" => task[FailThread].addr \in DOMAIN records

\* The arguments of the call in progress.
LEMMA CallFields ==
  ASSUME PipelineInv, pc[FailThread] # "idle"
  PROVE  /\ task[FailThread] \in Tasks
         /\ task[FailThread].name \in RuleNames
         /\ task[FailThread].addr \in Addresses
         /\ task[FailThread].time \in Int /\ task[FailThread].time > 0
  BY BusyThread, TaskFields, FailBanAssumption

LEMMA RecordsStep ==
  ASSUME PipelineInv, RecordsTypeOK, CalledForRecord, [FailBanNext]_vars
  PROVE  RecordsTypeOK'
  <1> USE FailBanAssumption
  <1>0. Now \in Nat /\ clock \in Nat
    BY NowIsNat
  <1>1. ASSUME NEW a, IgnoreLogin(a)
        PROVE  RecordsTypeOK'
    BY <1>1, Purged DEF IgnoreLogin, RecordsTypeOK
  <1>2. ASSUME NEW a, CountLogin(a)
        PROVE  RecordsTypeOK'
    <2>1. DOMAIN records' \subseteq Addresses \ Whitelist /\ \A x \in DOMAIN records' : records'[x] \in Statuses
      BY <1>2, CountedStatus, RecordsAfterCount DEF CountLogin
    <2>2. ledger' \in [Addresses -> Entries]
      BY <1>2, LedgerFields DEF CountLogin, NoteFailure, RecordsTypeOK
    <2>3. QED
      BY <1>2, <2>1, <2>2 DEF CountLogin, RecordsTypeOK
  <1>3. ASSUME NEW a \in Addresses, NEW time \in BlockTimes, BlockAddress(a, time)
        PROVE  RecordsTypeOK'
    <2>1. DOMAIN records' \subseteq Addresses \ Whitelist /\ \A x \in DOMAIN records' : records'[x] \in Statuses
      BY <1>3, CountedStatus, RecordsAfterCount DEF BlockAddress
    <2>2. LedgerEntry(ledger[a]) \in Entries
      BY LedgerFields DEF RecordsTypeOK
    <2>3. [LedgerEntry(ledger[a]) EXCEPT !.time = 0, !.since = clock] \in Entries
      <3> DEFINE e == LedgerEntry(ledger[a])
      <3>1. e \in Entries /\ clock \in Nat /\ 0 \in Int
        BY <1>0, <2>2
      <3> HIDE DEF e
      <3>2. [e EXCEPT !.time = 0, !.since = clock] \in Entries
        BY <3>1, DecisionFields
      <3>3. QED
        BY <3>2 DEF e
    <2>4. ledger' \in [Addresses -> Entries]
      BY <1>3, <2>3 DEF BlockAddress, RecordsTypeOK
    <2>5. QED
      BY <1>3, <2>1, <2>4 DEF BlockAddress, RecordsTypeOK
  <1>4. ASSUME NEW a \in Addresses, NEW time \in BlockTimes, SkipBlock(a, time)
        PROVE  RecordsTypeOK'
    <2> DEFINE c == Counted(delete_expire_remote_address(records), a)
    <2>1. set_block_time(c, time, Now) \in Statuses
      BY <1>0, CountedStatus, BlockTimeFields, BlockTimesAssumption
    <2>2. DOMAIN records' \subseteq Addresses \ Whitelist /\ \A x \in DOMAIN records' : records'[x] \in Statuses
      BY <1>4, <2>1, RecordsAfterCount DEF SkipBlock
    <2>3. ledger' \in [Addresses -> Entries]
      BY <1>4, LedgerFields DEF SkipBlock, NoteFailure, RecordsTypeOK
    <2>4. QED
      BY <1>4, <2>2, <2>3 DEF SkipBlock, RecordsTypeOK
  <1>5. CASE SetBlockTime
    <2> DEFINE a == task[FailThread].addr
               time == task[FailThread].time
    <2>1. pc[FailThread] # "idle"
      BY <1>5 DEF SetBlockTime, Return
    <2>2. a \in Addresses /\ time \in Int /\ a \in DOMAIN records
      BY <2>1, CallFields DEF CalledForRecord
    <2>3. set_block_time(records[a], time, Now) \in Statuses
      BY <1>0, <2>2, BlockTimeFields DEF RecordsTypeOK
    <2>4. DOMAIN records' \subseteq Addresses \ Whitelist /\ \A x \in DOMAIN records' : records'[x] \in Statuses
      BY <1>5, <2>2, <2>3 DEF SetBlockTime, RecordsTypeOK
    <2>5. [ledger[a] EXCEPT !.time = time, !.from = Now] \in Entries
      BY <1>0, <2>2 DEF RecordsTypeOK, Entries
    <2>6. ledger' = [ledger EXCEPT ![a] = [ledger[a] EXCEPT !.time = time, !.from = Now]]
      BY <1>5, <2>2 DEF SetBlockTime, RecordsTypeOK, Entries
    <2>7. ledger' \in [Addresses -> Entries]
      BY <2>2, <2>5, <2>6 DEF RecordsTypeOK
    <2>8. QED
      BY <1>5, <2>4, <2>7 DEF SetBlockTime, RecordsTypeOK
  <1>6. CASE ClockTick
    BY <1>6 DEF ClockTick, RecordsTypeOK
  <1>7. CASE EndOfRecords
    BY <1>7 DEF EndOfRecords, RecordsTypeOK, NoLedger, NoEntry, Entries
  <1>8. CASE UNCHANGED failBanVars
    BY <1>8 DEF failBanVars, RecordsTypeOK
  <1>9. QED
    BY <1>1, <1>2, <1>3, <1>4, <1>5, <1>6, <1>7, <1>8 DEF FailBanNext, PipelineStep, vars

LEMMA CalledStep ==
  ASSUME PipelineInv, RecordsTypeOK, CalledForRecord, [FailBanNext]_vars
  PROVE  CalledForRecord'
  <1> USE FailBanAssumption DEF CalledForRecord
  <1>0. pc \in [Threads -> {"idle", "post", "arm", "done"}] /\ task \in [Threads -> Tasks \cup {NoTask}]
    BY DEF PipelineInv, TasksTypeOK
  <1>1. ASSUME NEW a, NEW time, IgnoreLogin(a) \/ CountLogin(a) \/ SkipBlock(a, time)
        PROVE  CalledForRecord'
    BY <1>1 DEF IgnoreLogin, CountLogin, SkipBlock, Waiting, taskVars
  <1>2. ASSUME NEW a \in Addresses, NEW time \in BlockTimes, BlockAddress(a, time)
        PROVE  CalledForRecord'
    <2>1. a \in DOMAIN records'
      BY <1>2, CountedStatus, RecordsAfterCount DEF BlockAddress
    <2>2. task'[FailThread].addr = a
      BY <1>0, <1>2 DEF BlockAddress, CreateBlockTasks
    <2>3. QED
      BY <2>1, <2>2
  <1>3. CASE SetBlockTime
    BY <1>0, <1>3 DEF SetBlockTime, Return
  <1>4. CASE ClockTick
    BY <1>4 DEF ClockTick
  <1>5. CASE EndOfRecords
    BY <1>5 DEF EndOfRecords, Terminate
  <1>6. ASSUME UNCHANGED records, AsyncBlock(FailThread) \/ AsyncUnblock(FailThread)
        PROVE  CalledForRecord'
    BY <1>0, <1>6 DEF AsyncBlock, AsyncUnblock
  <1>7. ASSUME UNCHANGED <<records, pc, task>>
        PROVE  CalledForRecord'
    BY <1>7
  <1>8. QED
    BY <1>1, <1>2, <1>3, <1>4, <1>5, <1>6, <1>7
       DEF FailBanNext, PipelineStep, vars, failBanVars, taskVars, IoStep, CleanupStep, TimerExpires,
           RunBlock, RunUnblock, Start, RemoveLeftover, StartThreads

LEMMA CalledInit == FailBanInit => CalledForRecord
  BY FailBanAssumption DEF FailBanInit, TasksInit, CalledForRecord

\* Every variable of the thread and of the pipeline keeps its type.
THEOREM FailBanTypeCorrect == FailBanSpec => [](FailBanTypeOK /\ RecordsTypeOK /\ CalledForRecord)
  <1>1. PipelineInv /\ (RecordsTypeOK /\ CalledForRecord) /\ [FailBanNext]_vars
          => (RecordsTypeOK /\ CalledForRecord)'
    BY RecordsStep, CalledStep
  <1>2. FailBanSpec => [](RecordsTypeOK /\ CalledForRecord)
    BY <1>1, RecordsInit, CalledInit, FailBanImplementsTasks, PipelineInvariant, PTL DEF FailBanSpec
  <1>3. TasksTypeOK /\ RecordsTypeOK => FailBanTypeOK
    BY DEF FailBanTypeOK, RecordsTypeOK
  <1>4. QED
    BY <1>2, <1>3, FailBanImplementsTasks, PTL

-----------------------------------------------------------------------------
(* Purging is invisible.                                                   *)

LapsedAt(e, now) == ExpireTime > 0 /\ now - e.last > ExpireTime /\ now - e.from > e.time

\* Status st and ledger entry e tell the same of an address.  The times of a
\* block are the same, or the status shows no block and the entry, if it lives
\* until the status has expired, shows none then.
Agrees(st, e, now) ==
  /\ st.count = e.count /\ e.count > 0
  /\ st.expire_time = ExpireTime /\ st.expire_timer = e.last
  /\ e.last <= now /\ e.from <= now
  /\ \/ st.block_time > 0 /\ st.block_time = e.time /\ st.blocked_timer = e.from
     \/ /\ ~is_blocked(st, now)
        /\ now - e.from > e.time \/ (e.time = 0 /\ e.from <= e.last)

AgreeInv ==
  \A a \in Addresses :
    IF a \in DOMAIN records
    THEN Agrees(records[a], ledger[a], Now)
    ELSE ledger[a].count = 0 \/ LapsedAt(ledger[a], Now)

LEMMA StatusTypes ==
  ASSUME NEW st \in Statuses
  PROVE  /\ st.count \in Nat /\ st.expire_time \in Int /\ st.expire_timer \in Nat
         /\ st.block_time \in Int /\ st.blocked_timer \in Nat
  BY DEF Statuses

LEMMA EntryTypes ==
  ASSUME NEW e \in Entries
  PROVE  /\ e.count \in Nat /\ e.last \in Nat /\ e.time \in Int /\ e.from \in Nat /\ e.since \in Nat
  BY DEF Entries

LEMMA LapsedNow == \A e : Lapsed(e) <=> LapsedAt(e, Now)
  BY DEF Lapsed, LapsedAt

\* Nothing of this is undone by time.
LEMMA AgreesLater ==
  ASSUME NEW st \in Statuses, NEW e \in Entries, NEW now \in Nat, NEW later \in Nat, now <= later
  PROVE  /\ Agrees(st, e, now) => Agrees(st, e, later)
         /\ LapsedAt(e, now) => LapsedAt(e, later)
  BY StatusTypes, EntryTypes, FailBanAssumption
     DEF Agrees, LapsedAt, is_blocked, is_timeout, elapsed

\* A purge takes the status exactly when the entry has lapsed.
LEMMA PurgedWhenLapsed ==
  ASSUME NEW st \in Statuses, NEW e \in Entries, NEW now \in Nat, Agrees(st, e, now)
  PROVE  LapsedAt(e, now) <=> ~is_blocked(st, now) /\ is_expired(st, now)
  BY StatusTypes, EntryTypes, FailBanAssumption
     DEF Agrees, LapsedAt, is_blocked, is_expired, is_timeout, elapsed

\* Counting a failed login keeps the two in agreement.
LEMMA CountingAgrees ==
  ASSUME RecordsTypeOK, AgreeInv, NEW a \in Addresses
  PROVE  LET c == Counted(delete_expire_remote_address(records), a)
             e == LedgerEntry(ledger[a])
         IN  /\ c \in Statuses /\ e \in Entries /\ e.last = Now
             /\ Agrees(c, e, Now)
  <1> DEFINE map == delete_expire_remote_address(records)
             c == Counted(map, a)
             e == LedgerEntry(ledger[a])
             now == Now
  <1>1. now \in Nat /\ ledger[a] \in Entries /\ c \in Statuses /\ e \in Entries
    BY NowIsNat, CountedStatus, LedgerFields DEF RecordsTypeOK
  <1>2. a \in DOMAIN map =>
          /\ a \in DOMAIN records /\ map[a] = records[a] /\ records[a] \in Statuses
          /\ ~(ledger[a].count = 0 \/ LapsedAt(ledger[a], now))
    <2> SUFFICES ASSUME a \in DOMAIN map
                 PROVE  /\ a \in DOMAIN records /\ map[a] = records[a] /\ records[a] \in Statuses
                        /\ ~(ledger[a].count = 0 \/ LapsedAt(ledger[a], now))
      OBVIOUS
    <2>1. /\ a \in DOMAIN records /\ map[a] = records[a]
          /\ is_blocked(records[a], now) \/ ~is_expired(records[a], now)
      BY Purged
    <2>2. records[a] \in Statuses /\ Agrees(records[a], ledger[a], now)
      BY <2>1 DEF RecordsTypeOK, AgreeInv
    <2>3. ledger[a].count # 0
      BY <1>1, <2>2, EntryTypes DEF Agrees
    <2>4. ~LapsedAt(ledger[a], now)
      BY <1>1, <2>1, <2>2, PurgedWhenLapsed
    <2>5. QED
      BY <2>1, <2>2, <2>3, <2>4
  <1>3. a \notin DOMAIN map => ledger[a].count = 0 \/ LapsedAt(ledger[a], now)
    <2>1. CASE a \in DOMAIN records
      <3>1. records[a] \in Statuses /\ Agrees(records[a], ledger[a], now)
        BY <2>1 DEF RecordsTypeOK, AgreeInv
      <3>2. a \notin DOMAIN map => ~is_blocked(records[a], now) /\ is_expired(records[a], now)
        BY <2>1, Purged
      <3>3. QED
        BY <1>1, <3>1, <3>2, PurgedWhenLapsed
    <2>2. CASE a \notin DOMAIN records
      BY <2>2 DEF AgreeInv
    <2>3. QED
      BY <2>1, <2>2
  <1>4. e.last = now
    BY <1>1, LedgerFields
  <1>5. Agrees(c, e, now)
    <2>1. CASE a \in DOMAIN map
      <3>1. Agrees(records[a], ledger[a], now) /\ map[a] = records[a] /\ map[a] \in Statuses
        BY <1>2, <2>1 DEF AgreeInv
      <3>2. /\ e.count = ledger[a].count + 1 /\ e.time = ledger[a].time /\ e.from = ledger[a].from
        BY <1>1, <1>2, <2>1, LapsedNow, LedgerFields
      <3>3. /\ c.count = map[a].count + 1 /\ c.expire_time = map[a].expire_time
            /\ c.expire_timer = now
            /\ c.block_time = map[a].block_time /\ c.blocked_timer = map[a].blocked_timer
        <4>1. a \in DOMAIN map => map[a] \in Statuses
          BY <3>1
        <4> HIDE DEF map
        <4>2. QED
          BY <1>1, <2>1, <4>1, CountedFields
      <3> HIDE DEF c, e, map, now
      <3>4. ledger[a].last \in Nat /\ ledger[a].count \in Nat /\ ledger[a].from \in Nat /\ ledger[a].time \in Int
        BY <1>1, EntryTypes
      <3>5. QED
        BY <1>1, <1>4, <3>1, <3>2, <3>3, <3>4, StatusTypes DEF Agrees, is_blocked, is_timeout, elapsed
    <2>2. CASE a \notin DOMAIN map
      <3>1. e.count = 1 /\ e.time = 0 /\ e.from = 0
        BY <1>1, <1>3, <2>2, LapsedNow, LedgerFields
      <3>2. c.count = 1 /\ c.expire_time = ExpireTime /\ c.block_time = 0 /\ c.expire_timer = now
        <4> HIDE DEF map
        <4>1. QED
          BY <1>1, <2>2, CountedFields
      <3> HIDE DEF c, e, map, now
      <3>3. QED
        BY <1>1, <1>4, <3>1, <3>2 DEF Agrees, is_blocked
    <2>3. QED
      BY <2>1, <2>2
  <1>6. QED
    BY <1>1, <1>4, <1>5

LEMMA AgreeInit == FailBanInit => AgreeInv
  BY DEF FailBanInit, AgreeInv, NoLedger, NoEntry

\* The addresses a failed login is not about.
LEMMA OthersAgree ==
  ASSUME RecordsTypeOK, AgreeInv, NEW x \in Addresses,
         x \in DOMAIN records' <=>
           x \in DOMAIN records /\ (is_blocked(records[x], Now) \/ ~is_expired(records[x], Now)),
         x \in DOMAIN records' => records'[x] = records[x],
         ledger'[x] = ledger[x]
  PROVE  IF x \in DOMAIN records'
         THEN Agrees(records'[x], ledger'[x], Now)
         ELSE ledger'[x].count = 0 \/ LapsedAt(ledger'[x], Now)
  <1>1. CASE x \in DOMAIN records
    <2>1. /\ records[x] \in Statuses /\ ledger[x] \in Entries /\ Now \in Nat
          /\ Agrees(records[x], ledger[x], Now)
      BY <1>1, NowIsNat DEF RecordsTypeOK, AgreeInv
    <2>2. QED
      BY <1>1, <2>1, PurgedWhenLapsed
  <1>2. CASE x \notin DOMAIN records
    BY <1>2 DEF AgreeInv
  <1>3. QED
    BY <1>1, <1>2

\* A failed login leaves the statuses in agreement with the ledger when it does
\* so for its own address.
LEMMA AgreeAfterCount ==
  ASSUME RecordsTypeOK, AgreeInv, NEW a \in Addresses \ Whitelist,
         NEW st \in Statuses, NEW e \in Entries, Agrees(st, e, Now),
         records' = Put(delete_expire_remote_address(records), a, st),
         ledger' = [ledger EXCEPT ![a] = e],
         clock' = clock
  PROVE  AgreeInv'
  <1>1. Now' = Now
    BY DEF Now
  <1>2. ledger'[a] = e /\ \A x \in Addresses : x # a => ledger'[x] = ledger[x]
    BY DEF RecordsTypeOK
  <1>3. ASSUME NEW x \in Addresses, x # a
        PROVE  IF x \in DOMAIN records'
               THEN Agrees(records'[x], ledger'[x], Now)
               ELSE ledger'[x].count = 0 \/ LapsedAt(ledger'[x], Now)
    <2>1. /\ x \in DOMAIN records' <=>
               x \in DOMAIN records /\ (is_blocked(records[x], Now) \/ ~is_expired(records[x], Now))
          /\ x \in DOMAIN records' => records'[x] = records[x]
      BY <1>3, RecordsAfterCount
    <2>2. QED
      BY <1>2, <1>3, <2>1, OthersAgree
  <1>4. a \in DOMAIN records' /\ records'[a] = st
    BY RecordsAfterCount
  <1>5. \A x \in Addresses :
          IF x \in DOMAIN records'
          THEN Agrees(records'[x], ledger'[x], Now')
          ELSE ledger'[x].count = 0 \/ LapsedAt(ledger'[x], Now')
    BY <1>1, <1>2, <1>3, <1>4
  <1>6. QED
    BY <1>5 DEF AgreeInv

LEMMA AgreeStep ==
  ASSUME PipelineInv, RecordsTypeOK, CalledForRecord, AgreeInv, [FailBanNext]_vars
  PROVE  AgreeInv'
  <1> USE FailBanAssumption
  <1>0. Now \in Nat /\ clock \in Nat
    BY NowIsNat
  <1>1. ASSUME NEW a, IgnoreLogin(a)
        PROVE  AgreeInv'
    <2>1. records' = delete_expire_remote_address(records) /\ UNCHANGED <<ledger, clock>>
      BY <1>1 DEF IgnoreLogin
    <2>2. ASSUME NEW x \in Addresses
          PROVE  IF x \in DOMAIN records'
                 THEN Agrees(records'[x], ledger'[x], Now)
                 ELSE ledger'[x].count = 0 \/ LapsedAt(ledger'[x], Now)
      BY <2>1, <2>2, Purged, OthersAgree
    <2>3. Now' = Now
      BY <2>1 DEF Now
    <2>4. QED
      BY <2>2, <2>3 DEF AgreeInv
  <1>2. ASSUME NEW a, CountLogin(a)
        PROVE  AgreeInv'
    <2> DEFINE c == Counted(delete_expire_remote_address(records), a)
               e == LedgerEntry(ledger[a])
    <2>1. /\ a \in Addresses \ Whitelist
          /\ records' = Put(delete_expire_remote_address(records), a, c)
          /\ ledger' = [ledger EXCEPT ![a] = e] /\ clock' = clock
      BY <1>2 DEF CountLogin, NoteFailure, RecordsTypeOK
    <2>2. c \in Statuses /\ e \in Entries /\ Agrees(c, e, Now)
      BY <2>1, CountingAgrees
    <2> HIDE DEF c, e
    <2>3. QED
      BY <2>1, <2>2, AgreeAfterCount
  <1>3. ASSUME NEW a \in Addresses, NEW time \in BlockTimes, BlockAddress(a, time)
        PROVE  AgreeInv'
    <2> DEFINE c == Counted(delete_expire_remote_address(records), a)
               e == LedgerEntry(ledger[a])
               d == [e EXCEPT !.time = 0, !.since = clock]
    <2>1. /\ a \in Addresses \ Whitelist
          /\ records' = Put(delete_expire_remote_address(records), a, c)
          /\ ledger' = [ledger EXCEPT ![a] = d] /\ clock' = clock
          /\ ~is_blocked(c, Now)
      BY <1>3 DEF BlockAddress, ShouldBlock, RecordsTypeOK
    <2>2. c \in Statuses /\ e \in Entries /\ e.last = Now /\ Agrees(c, e, Now)
      BY <2>1, CountingAgrees
    <2>3. /\ d \in Entries /\ d.time = 0 /\ d.count = e.count
          /\ d.last = e.last /\ d.from = e.from
      <3> HIDE DEF e
      <3>1. d \in Entries
        <4>1. e \in Entries /\ clock \in Nat /\ 0 \in Int
          BY <1>0, <2>2
        <4>2. [e EXCEPT !.time = 0, !.since = clock] \in Entries
          BY <4>1, DecisionFields
        <4>3. QED
          BY <4>2
      <3>2. d.time = 0
        BY <2>2 DEF Entries
      <3>3. d.count = e.count /\ d.last = e.last /\ d.from = e.from
        BY <2>2 DEF Entries
      <3>4. QED
        BY <3>1, <3>2, <3>3
    <2> HIDE DEF c, e, d
    <2>4. Agrees(c, d, Now)
      BY <2>1, <2>2, <2>3 DEF Agrees
    <2>5. QED
      BY <2>1, <2>2, <2>3, <2>4, AgreeAfterCount
  <1>4. ASSUME NEW a \in Addresses, NEW time \in BlockTimes, SkipBlock(a, time)
        PROVE  AgreeInv'
    <2> DEFINE c == Counted(delete_expire_remote_address(records), a)
               b == set_block_time(c, time, Now)
               e == LedgerEntry(ledger[a])
    <2>1. /\ a \in Addresses \ Whitelist /\ time \in Int /\ time <= 0
          /\ records' = Put(delete_expire_remote_address(records), a, b)
          /\ ledger' = [ledger EXCEPT ![a] = e] /\ clock' = clock
          /\ ~is_blocked(c, Now)
      BY <1>4, BlockTimesAssumption DEF SkipBlock, NoteFailure, ShouldBlock, RecordsTypeOK
    <2>2. c \in Statuses /\ e \in Entries /\ e.last = Now /\ Agrees(c, e, Now)
      BY <2>1, CountingAgrees
    <2>3. /\ b \in Statuses
          /\ b.count = c.count /\ b.expire_time = c.expire_time
          /\ b.expire_timer = c.expire_timer /\ b.block_time = time
      <3> HIDE DEF c
      <3>1. QED
        BY <1>0, <2>1, <2>2, BlockTimeFields
    <2> HIDE DEF c, e, b
    <2>4. Now - e.from > e.time \/ (e.time = 0 /\ e.from <= e.last)
      BY <1>0, <2>1, <2>2, StatusTypes, EntryTypes DEF Agrees, is_blocked, is_timeout, elapsed
    <2>5. Agrees(b, e, Now)
      BY <2>1, <2>2, <2>3, <2>4 DEF Agrees, is_blocked
    <2>6. QED
      BY <2>1, <2>2, <2>3, <2>5, AgreeAfterCount
  <1>5. CASE SetBlockTime
    <2> DEFINE a == task[FailThread].addr
               time == task[FailThread].time
               b == set_block_time(records[a], time, Now)
               d == [ledger[a] EXCEPT !.time = time, !.from = Now]
    <2>1. pc[FailThread] # "idle" /\ clock' = clock /\ Now' = Now
      BY <1>5 DEF SetBlockTime, Return, Now
    <2>2. /\ a \in Addresses /\ time \in Int /\ time > 0 /\ a \in DOMAIN records
          /\ records[a] \in Statuses /\ ledger[a] \in Entries
      BY <2>1, CallFields DEF CalledForRecord, RecordsTypeOK
    <2>3. /\ b.count = records[a].count /\ b.expire_time = records[a].expire_time
          /\ b.expire_timer = records[a].expire_timer /\ b.block_time = time /\ b.blocked_timer = Now
      BY <1>0, <2>2, BlockTimeFields
    <2>4. /\ d.time = time /\ d.from = Now
          /\ d.count = ledger[a].count /\ d.last = ledger[a].last
      <3> HIDE DEF a, time
      <3>1. QED
        BY <1>0, <2>2 DEF Entries
    <2>5. records' = [records EXCEPT ![a] = b] /\ ledger' = [ledger EXCEPT ![a] = d]
      BY <1>5, <2>2 DEF SetBlockTime, RecordsTypeOK, Entries
    <2>6. Agrees(records[a], ledger[a], Now)
      BY <2>2 DEF AgreeInv
    <2> HIDE DEF a, time, b, d
    <2>7. Agrees(b, d, Now)
      BY <1>0, <2>2, <2>3, <2>4, <2>6 DEF Agrees
    <2>8. \A x \in Addresses :
            IF x \in DOMAIN records'
            THEN Agrees(records'[x], ledger'[x], Now)
            ELSE ledger'[x].count = 0 \/ LapsedAt(ledger'[x], Now)
      BY <2>2, <2>5, <2>7 DEF AgreeInv, RecordsTypeOK
    <2>9. QED
      BY <2>1, <2>8 DEF AgreeInv
  <1>6. CASE ClockTick
    <2>1. clock' = clock + 1 /\ UNCHANGED <<records, ledger>>
      BY <1>6 DEF ClockTick
    <2>2. Now' \in Nat /\ Now <= Now'
      BY <1>0, <2>1, SecondOf, LaterSecond DEF Now
    <2>3. ASSUME NEW x \in Addresses
          PROVE  IF x \in DOMAIN records
                 THEN Agrees(records[x], ledger[x], Now')
                 ELSE ledger[x].count = 0 \/ LapsedAt(ledger[x], Now')
      <3> DEFINE later == Now'
      <3>1. ledger[x] \in Entries /\ (x \in DOMAIN records => records[x] \in Statuses)
        BY DEF RecordsTypeOK
      <3>2. later \in Nat /\ Now <= later
        BY <2>2
      <3> HIDE DEF later
      <3>3. IF x \in DOMAIN records
            THEN Agrees(records[x], ledger[x], later)
            ELSE ledger[x].count = 0 \/ LapsedAt(ledger[x], later)
        <4>1. CASE x \in DOMAIN records
          <5>1. Agrees(records[x], ledger[x], Now)
            BY <4>1 DEF AgreeInv
          <5>2. QED
            BY <1>0, <3>1, <3>2, <4>1, <5>1, AgreesLater
        <4>2. CASE x \notin DOMAIN records
          <5>1. CASE LapsedAt(ledger[x], Now)
            <6>1. LapsedAt(ledger[x], later)
              BY <1>0, <3>1, <3>2, <5>1, EntryTypes, FailBanAssumption DEF LapsedAt
            <6>2. QED
              BY <4>2, <6>1
          <5>2. QED
            BY <4>2, <5>1 DEF AgreeInv
        <4>3. QED
          BY <4>1, <4>2
      <3>4. QED
        BY <3>3 DEF later
    <2>4. QED
      BY <2>1, <2>3 DEF AgreeInv
  <1>7. CASE EndOfRecords
    BY <1>7 DEF EndOfRecords, AgreeInv, NoLedger, NoEntry
  <1>8. CASE UNCHANGED failBanVars
    BY <1>8 DEF failBanVars, AgreeInv, Now
  <1>9. QED
    BY <1>1, <1>2, <1>3, <1>4, <1>5, <1>6, <1>7, <1>8 DEF FailBanNext, PipelineStep, vars

\* Whenever the purges run, a record counts the failed logins of the current
\* chain, and an address without one has none going (main.cpp:197-218, 239).
THEOREM PurgesAreInvisible == FailBanSpec => []PurgeIsInvisible
  <1>1. (PipelineInv /\ RecordsTypeOK /\ CalledForRecord) /\ AgreeInv /\ [FailBanNext]_vars => AgreeInv'
    BY AgreeStep
  <1>2. RecordsTypeOK /\ AgreeInv => PurgeIsInvisible
    BY LapsedNow, EntryTypes DEF RecordsTypeOK, AgreeInv, Agrees, PurgeIsInvisible
  <1>3. FailBanSpec => []AgreeInv
    BY <1>1, AgreeInit, FailBanTypeCorrect, FailBanImplementsTasks, PipelineInvariant, PTL DEF FailBanSpec
  <1>4. QED
    BY <1>2, <1>3, FailBanTypeCorrect, PTL

-----------------------------------------------------------------------------
(* Blocks in the firewall or on their way there.                           *)

Carries(n, a) ==
  \/ [name |-> n, addr |-> a] \in rules
  \/ \E i \in DOMAIN handlers : IsBlock(handlers[i], n) /\ handlers[i].addr = a

LEMMA LiveCarries == \A n, a : LiveBlock(n, a) <=> timer[n] > 0 /\ Carries(n, a)
  BY DEF LiveBlock, Carries

LEMMA LiveCarriesNext == \A n, a : LiveBlock(n, a)' <=> timer'[n] > 0 /\ Carries(n, a)'
  BY DEF LiveBlock, Carries

LEMMA CarriedByPost ==
  ASSUME TasksTypeOK, NEW h \in Handlers, handlers' = Append(handlers, h), rules' = rules
  PROVE  \A n, a : Carries(n, a)' <=> Carries(n, a) \/ (IsBlock(h, n) /\ h.addr = a)
  <1>1. /\ Len(handlers) \in Nat /\ DOMAIN handlers = 1 .. Len(handlers)
        /\ DOMAIN handlers' = 1 .. Len(handlers) + 1
        /\ \A i \in 1 .. Len(handlers) : handlers'[i] = handlers[i]
        /\ handlers'[Len(handlers) + 1] = h
    BY QueueAfterPost DEF TasksTypeOK
  <1>2. \A i \in DOMAIN handlers' : i \in DOMAIN handlers \/ i = Len(handlers) + 1
    BY <1>1
  <1>3. Len(handlers) + 1 \in DOMAIN handlers' /\ DOMAIN handlers \subseteq DOMAIN handlers'
    BY <1>1
  <1>4. QED
    BY <1>1, <1>2, <1>3 DEF Carries

LEMMA CarriedByAsyncBlock ==
  ASSUME PipelineInv, AsyncBlock(FailThread)
  PROVE  \A n, a : Carries(n, a)' <=>
                     Carries(n, a) \/ (n = task[FailThread].name /\ a = task[FailThread].addr)
  <1> DEFINE h == BlockOp(task[FailThread].name, task[FailThread].addr)
  <1>1. pc[FailThread] # "idle" /\ handlers' = Append(handlers, h) /\ rules' = rules
    BY DEF AsyncBlock
  <1>2. h \in Handlers /\ h.op = "block" /\ h.name = task[FailThread].name /\ h.addr = task[FailThread].addr
    BY <1>1, CallFields, HandlerTypes DEF BlockOp
  <1> HIDE DEF h
  <1>3. \A n, a : Carries(n, a)' <=> Carries(n, a) \/ (IsBlock(h, n) /\ h.addr = a)
    BY <1>1, <1>2, CarriedByPost DEF PipelineInv
  <1>4. QED
    BY <1>2, <1>3 DEF IsBlock

LEMMA CarriedByTimer ==
  ASSUME PipelineInv, NEW m \in RuleNames, TimerExpires(m)
  PROVE  \A n, a : Carries(n, a)' <=> Carries(n, a)
  <1> DEFINE h == UnblockOp(m)
  <1>1. handlers' = Append(handlers, h) /\ rules' = rules
    BY DEF TimerExpires
  <1>2. h \in Handlers /\ h.op = "unblock"
    BY DEF UnblockOp, Handlers
  <1> HIDE DEF h
  <1>3. \A n, a : Carries(n, a)' <=> Carries(n, a) \/ (IsBlock(h, n) /\ h.addr = a)
    BY <1>1, <1>2, CarriedByPost DEF PipelineInv
  <1>4. QED
    BY <1>2, <1>3 DEF IsBlock

\* The queue without its head.
LEMMA QueueTail ==
  ASSUME TasksTypeOK, handlers # <<>>, handlers' = Tail(handlers)
  PROVE  /\ 1 \in DOMAIN handlers /\ Head(handlers) = handlers[1] /\ Head(handlers) \in Handlers
         /\ \A i \in DOMAIN handlers' : \E j \in DOMAIN handlers : handlers'[i] = handlers[j]
         /\ \A j \in DOMAIN handlers : j = 1 \/ \E i \in DOMAIN handlers' : handlers'[i] = handlers[j]
  <1>1. /\ Len(handlers) \in Nat \ {0}
        /\ DOMAIN handlers = 1 .. Len(handlers)
        /\ DOMAIN handlers' = 1 .. Len(handlers) - 1
        /\ \A i \in 1 .. Len(handlers) - 1 : handlers'[i] = handlers[i + 1]
        /\ Head(handlers) = handlers[1]
    BY QueueAfterRun DEF TasksTypeOK
  <1>2. 1 \in DOMAIN handlers /\ handlers[1] \in Handlers
    BY <1>1 DEF TasksTypeOK
  <1>3. ASSUME NEW i \in DOMAIN handlers'
        PROVE  \E j \in DOMAIN handlers : handlers'[i] = handlers[j]
    <2>1. i + 1 \in DOMAIN handlers /\ handlers'[i] = handlers[i + 1]
      BY <1>1, <1>3
    <2>2. QED
      BY <2>1
  <1>4. ASSUME NEW j \in DOMAIN handlers, j # 1
        PROVE  \E i \in DOMAIN handlers' : handlers'[i] = handlers[j]
    <2>1. j - 1 \in DOMAIN handlers' /\ handlers'[j - 1] = handlers[j]
      BY <1>1, <1>4
    <2>2. QED
      BY <2>1
  <1>5. QED
    BY <1>1, <1>2, <1>3, <1>4

LEMMA CarriedByBlock ==
  ASSUME PipelineInv, RunBlock
  PROVE  /\ \A n, a : Carries(n, a)' => Carries(n, a)
         /\ "add" \notin CanFail => \A n, a : Carries(n, a) => Carries(n, a)'
  <1> DEFINE h == Head(handlers)
             r == [name |-> h.name, addr |-> h.addr]
  <1>1. /\ handlers # <<>> /\ h.op = "block" /\ handlers' = Tail(handlers)
        /\ rules' = rules \/ rules' = rules \cup {r}
        /\ "add" \notin CanFail => rules' = rules \cup {r}
    BY DEF RunBlock
  <1>2. /\ 1 \in DOMAIN handlers /\ h = handlers[1]
        /\ \A i \in DOMAIN handlers' : \E j \in DOMAIN handlers : handlers'[i] = handlers[j]
        /\ \A j \in DOMAIN handlers : j = 1 \/ \E i \in DOMAIN handlers' : handlers'[i] = handlers[j]
    BY <1>1, QueueTail DEF PipelineInv
  <1>3. \A n, a : [name |-> n, addr |-> a] = r <=> n = h.name /\ a = h.addr
    OBVIOUS
  <1> HIDE DEF h, r
  <1>4. Carries(h.name, h.addr)
    BY <1>1, <1>2 DEF Carries, IsBlock
  <1>5. ASSUME NEW n, NEW a, Carries(n, a)'
        PROVE  Carries(n, a)
    <2>1. CASE [name |-> n, addr |-> a] \in rules'
      <3>1. [name |-> n, addr |-> a] \in rules \/ [name |-> n, addr |-> a] = r
        BY <1>1, <2>1
      <3>2. QED
        BY <1>3, <1>4, <3>1 DEF Carries
    <2>2. CASE \E i \in DOMAIN handlers' : IsBlock(handlers'[i], n) /\ handlers'[i].addr = a
      BY <1>2, <2>2 DEF Carries
    <2>3. QED
      BY <1>5, <2>1, <2>2 DEF Carries
  <1>6. ASSUME NEW n, NEW a, Carries(n, a), "add" \notin CanFail
        PROVE  Carries(n, a)'
    <2>1. rules' = rules \cup {r}
      BY <1>1, <1>6
    <2>2. CASE [name |-> n, addr |-> a] \in rules
      BY <2>1, <2>2 DEF Carries
    <2>3. ASSUME NEW k \in DOMAIN handlers, IsBlock(handlers[k], n), handlers[k].addr = a
          PROVE  Carries(n, a)'
      <3>1. CASE k = 1
        <4>1. [name |-> n, addr |-> a] = r
          BY <1>2, <1>3, <2>3, <3>1 DEF IsBlock
        <4>2. QED
          BY <2>1, <4>1 DEF Carries
      <3>2. CASE \E i \in DOMAIN handlers' : handlers'[i] = handlers[k]
        BY <2>3, <3>2 DEF Carries
      <3>3. QED
        BY <1>2, <3>1, <3>2
    <2>4. QED
      BY <1>6, <2>2, <2>3 DEF Carries
  <1>7. QED
    BY <1>5, <1>6

LEMMA CarriedByUnblock ==
  ASSUME PipelineInv, RunUnblock
  PROVE  /\ \A n, a : Carries(n, a)' => Carries(n, a)
         /\ \A n, a : Carries(n, a) /\ ~UnblockQueued(n) => Carries(n, a)'
  <1> DEFINE h == Head(handlers)
  <1>1. /\ handlers # <<>> /\ h.op = "unblock" /\ handlers' = Tail(handlers)
        /\ rules' = rules \/ rules' = {r \in rules : r.name # h.name}
    BY DEF RunUnblock
  <1>2. /\ 1 \in DOMAIN handlers /\ h = handlers[1]
        /\ \A i \in DOMAIN handlers' : \E j \in DOMAIN handlers : handlers'[i] = handlers[j]
        /\ \A j \in DOMAIN handlers : j = 1 \/ \E i \in DOMAIN handlers' : handlers'[i] = handlers[j]
    BY <1>1, QueueTail DEF PipelineInv
  <1> HIDE DEF h
  <1>3. UnblockQueued(h.name)
    BY <1>1, <1>2 DEF UnblockQueued, IsUnblock
  <1>4. \A n, a : Carries(n, a)' => Carries(n, a)
    BY <1>1, <1>2 DEF Carries
  <1>5. \A n, a : Carries(n, a) /\ ~UnblockQueued(n) => Carries(n, a)'
    BY <1>1, <1>2, <1>3 DEF Carries, IsBlock
  <1>6. QED
    BY <1>4, <1>5

LEMMA CarriedByCleanup ==
  ASSUME PipelineInv,
         \/ Start \/ StartThreads \/ Terminate \/ \E n \in RuleNames : RemoveLeftover(n)
  PROVE  \A n, a : Carries(n, a)' => Carries(n, a)
  BY DEF Start, StartThreads, Terminate, RemoveLeftover, Carries

\* A call in progress owns its rule name: nothing carries it before the call
\* has posted, and nothing for another address after that.
CallOwns ==
  /\ pc[FailThread] = "post" => \A b : ~Carries(task[FailThread].name, b)
  /\ pc[FailThread] \in {"arm", "done"} =>
       \A b : Carries(task[FailThread].name, b) => b = task[FailThread].addr

LEMMA CallOwnsInit == FailBanInit => CallOwns
  BY FailBanAssumption DEF FailBanInit, TasksInit, CallOwns

LEMMA CallOwnsStep ==
  ASSUME PipelineInv, CallOwns, [FailBanNext]_vars
  PROVE  CallOwns'
  <1> USE FailBanAssumption
  <1>0. pc \in [Threads -> {"idle", "post", "arm", "done"}] /\ task \in [Threads -> Tasks \cup {NoTask}]
    BY DEF PipelineInv, TasksTypeOK
  <1>1. ASSUME UNCHANGED <<pc, task>>, \A n, a : Carries(n, a)' => Carries(n, a)
        PROVE  CallOwns'
    BY <1>1 DEF CallOwns
  <1>2. ASSUME UNCHANGED <<rules, handlers>>
        PROVE  \A n, a : Carries(n, a)' <=> Carries(n, a)
    BY <1>2 DEF Carries
  <1>3. ASSUME NEW a, NEW time, IgnoreLogin(a) \/ CountLogin(a) \/ SkipBlock(a, time)
        PROVE  CallOwns'
    BY <1>1, <1>2, <1>3 DEF IgnoreLogin, CountLogin, SkipBlock, taskVars
  <1>4. ASSUME NEW a \in Addresses, NEW time \in BlockTimes, BlockAddress(a, time)
        PROVE  CallOwns'
    <2>1. PICK n \in RuleNames \ NamesInUse :
            task' = [task EXCEPT ![FailThread] = [name |-> n, addr |-> a, time |-> time]]
      BY <1>4 DEF BlockAddress, CreateBlockTasks
    <2>2. pc' = [pc EXCEPT ![FailThread] = "post"] /\ UNCHANGED <<rules, handlers>>
      BY <1>4 DEF BlockAddress, CreateBlockTasks
    <2>3. \A r \in rules : r.name # n
      BY <2>1 DEF NamesInUse, RuleNamesIn
    <2>4. \A b : ~Carries(n, b)
      BY <2>1, <2>3, FreshName DEF Carries, IsBlock
    <2>5. task'[FailThread].name = n /\ pc'[FailThread] = "post"
      BY <1>0, <2>1, <2>2
    <2>6. QED
      BY <1>2, <2>2, <2>4, <2>5 DEF CallOwns
  <1>5. CASE SetBlockTime
    <2>1. pc'[FailThread] = "idle"
      BY <1>0, <1>5 DEF SetBlockTime, Return
    <2>2. QED
      BY <2>1 DEF CallOwns
  <1>6. CASE EndOfRecords
    <2>1. pc'[FailThread] = "idle"
      BY <1>6 DEF EndOfRecords, Terminate
    <2>2. QED
      BY <2>1 DEF CallOwns
  <1>7. CASE AsyncBlock(FailThread)
    <2>1. pc[FailThread] = "post" /\ pc'[FailThread] = "arm" /\ task' = task
      BY <1>0, <1>7 DEF AsyncBlock
    <2>2. QED
      BY <1>7, <2>1, CarriedByAsyncBlock DEF CallOwns
  <1>8. CASE AsyncUnblock(FailThread)
    <2>1. /\ pc[FailThread] = "arm" /\ pc'[FailThread] = "done"
          /\ UNCHANGED <<task, rules, handlers>>
      BY <1>0, <1>8 DEF AsyncUnblock
    <2>2. QED
      BY <1>2, <2>1 DEF CallOwns
  <1>9. ASSUME NEW n \in RuleNames, TimerExpires(n)
        PROVE  CallOwns'
    <2>1. UNCHANGED <<pc, task>>
      BY <1>9 DEF TimerExpires
    <2>2. QED
      BY <1>1, <1>9, <2>1, CarriedByTimer
  <1>10. CASE IoStep
    <2>1. UNCHANGED <<pc, task>>
      BY <1>10 DEF IoStep, RunBlock, RunUnblock
    <2>2. QED
      BY <1>1, <1>10, <2>1, CarriedByBlock, CarriedByUnblock DEF IoStep
  <1>11. CASE Start \/ CleanupStep
    <2>1. UNCHANGED <<pc, task>>
      BY <1>11 DEF CleanupStep, Start, RemoveLeftover, StartThreads
    <2>2. QED
      BY <1>1, <1>11, <2>1, CarriedByCleanup DEF CleanupStep
  <1>12. CASE ClockTick
    BY <1>1, <1>2, <1>12 DEF ClockTick
  <1>13. CASE UNCHANGED taskVars
    BY <1>1, <1>2, <1>13 DEF taskVars
  <1>14. QED
    BY <1>3, <1>4, <1>5, <1>6, <1>7, <1>8, <1>9, <1>10, <1>11, <1>12, <1>13
       DEF FailBanNext, PipelineStep, vars

-----------------------------------------------------------------------------
(* The time a block has to run, by the steady clock and by the wall clock. *)

Ticks(seconds) == seconds * TicksPerSecond

LEMMA TicksOrder ==
  ASSUME NEW x \in Int, NEW y \in Int
  PROVE  /\ Ticks(x) \in Int
         /\ x <= y => Ticks(x) <= Ticks(y)
         /\ Ticks(x) < Ticks(y) => x < y
         /\ Ticks(x + y) = Ticks(x) + Ticks(y)
         /\ Ticks(x + y + 1) = Ticks(x) + Ticks(y) + TicksPerSecond
  <1>1. TicksPerSecond \in Int /\ TicksPerSecond > 0
    BY TicksAssumption
  <1>2. 1 * TicksPerSecond = TicksPerSecond
    BY <1>1
  <1>3. x + y \in Int /\ 1 \in Int
    OBVIOUS
  <1>4. (x + y + 1) * TicksPerSecond = (x + y) * TicksPerSecond + 1 * TicksPerSecond
    BY <1>1, <1>3, Products
  <1>5. QED
    BY <1>1, <1>2, <1>4, Products DEF Ticks

LEMMA NowTicks ==
  ASSUME RecordsTypeOK
  PROVE  Ticks(Now) \in Int /\ Ticks(Now) <= clock /\ clock < Ticks(Now) + TicksPerSecond
  BY NowIsNat, SecondOf DEF Ticks, Now

\* Seconds are counted downwards: a period of time seconds that starts within
\* second from is over only after second from + time.
LEMMA PeriodCovered ==
  ASSUME RecordsTypeOK, NEW from \in Int, NEW time \in Int,
         clock < Ticks(from) + Ticks(time) + TicksPerSecond
  PROVE  Now - from <= time
  <1>1. Now \in Int /\ Ticks(Now) \in Int /\ Ticks(Now) <= clock /\ clock \in Int
    BY NowTicks, NowIsNat
  <1>2. /\ Ticks(from + time + 1) = Ticks(from) + Ticks(time) + TicksPerSecond
        /\ Ticks(from + time + 1) \in Int /\ from + time + 1 \in Int
    BY TicksOrder
  <1>3. Ticks(Now) < Ticks(from + time + 1)
    BY <1>1, <1>2
  <1>4. Now < from + time + 1
    BY <1>1, <1>2, <1>3, TicksOrder
  <1>5. QED
    BY <1>1, <1>4

-----------------------------------------------------------------------------
(* An address has one block running at a time.                             *)

\* A running block belongs to the call that has armed its timer and not
\* returned yet, or the record of the address outlasts it.
CallLive(n, a) ==
  /\ pc[FailThread] = "done"
  /\ task[FailThread].name = n /\ task[FailThread].addr = a
  /\ timer[n] <= Ticks(task[FailThread].time)

RecordLive(n, a) ==
  /\ a \in DOMAIN records
  /\ records[a].block_time > 0
  /\ timer[n] + clock < Ticks(records[a].blocked_timer) + Ticks(records[a].block_time) + TicksPerSecond
  /\ pc[FailThread] # "idle" => task[FailThread].addr # a

LiveInv ==
  /\ \A a \in Addresses, n, m \in RuleNames : LiveBlock(n, a) /\ LiveBlock(m, a) => n = m
  /\ \A a \in Addresses, n \in RuleNames : LiveBlock(n, a) => CallLive(n, a) \/ RecordLive(n, a)

LEMMA LiveInit == FailBanInit => LiveInv
  BY LiveCarries DEF FailBanInit, TasksInit, LiveInv, Off

\* A record that outlasts a running block shows the address blocked, so it is
\* not purged, and counting leaves its block alone.
LEMMA LiveIsBlocked ==
  ASSUME TasksTypeOK, RecordsTypeOK, NEW a \in Addresses, NEW n \in RuleNames,
         LiveBlock(n, a), RecordLive(n, a)
  PROVE  is_blocked(records[a], Now)
  <1> DEFINE from == records[a].blocked_timer
             time == records[a].block_time
  <1>1. from \in Int /\ time \in Int /\ time > 0
    BY StatusTypes DEF RecordsTypeOK, RecordLive
  <1>2. timer[n] \in Int /\ timer[n] > 0 /\ clock \in Int /\ TicksPerSecond \in Int
    BY LiveCarries, NowIsNat, TicksAssumption DEF TasksTypeOK, Off
  <1>3. timer[n] + clock < Ticks(from) + Ticks(time) + TicksPerSecond
    BY DEF RecordLive
  <1> HIDE DEF from, time
  <1>4. clock < Ticks(from) + Ticks(time) + TicksPerSecond
    <2>1. Ticks(from) \in Int /\ Ticks(time) \in Int
      BY <1>1, TicksOrder
    <2>2. QED
      BY <1>2, <1>3, <2>1
  <1>5. Now - from <= time
    BY <1>1, <1>4, PeriodCovered
  <1>6. QED
    BY <1>1, <1>5, NowIsNat DEF is_blocked, is_timeout, elapsed, from, time

LEMMA CountKeepsBlock ==
  ASSUME RecordsTypeOK, NEW a, a \in DOMAIN records, is_blocked(records[a], Now)
  PROVE  LET c == Counted(delete_expire_remote_address(records), a)
         IN  /\ is_blocked(c, Now)
             /\ c.block_time = records[a].block_time
             /\ c.blocked_timer = records[a].blocked_timer
  <1> DEFINE map == delete_expire_remote_address(records)
             now == Now
  <1>1. a \in DOMAIN map /\ map[a] = records[a] /\ map[a] \in Statuses /\ now \in Nat
    BY Purged, NowIsNat DEF RecordsTypeOK
  <1> HIDE DEF map
  <1>2. LET c == Counted(map, a)
        IN  c.block_time = map[a].block_time /\ c.blocked_timer = map[a].blocked_timer
    BY <1>1, CountedFields
  <1>3. QED
    BY <1>1, <1>2 DEF map, is_blocked

\* No block starts or gains time.
LEMMA LiveFrame ==
  ASSUME LiveInv,
         \A a \in Addresses, n \in RuleNames : LiveBlock(n, a)' => LiveBlock(n, a),
         \A a \in Addresses, n \in RuleNames :
           LiveBlock(n, a)' /\ (CallLive(n, a) \/ RecordLive(n, a))
             => CallLive(n, a)' \/ RecordLive(n, a)'
  PROVE  LiveInv'
  BY DEF LiveInv

\* A failed login of b does not touch the records of other blocked addresses,
\* nor the block in its own.
LEMMA RecordLiveAfterCount ==
  ASSUME TasksTypeOK, RecordsTypeOK, NEW a \in Addresses, NEW n \in RuleNames,
         LiveBlock(n, a), RecordLive(n, a),
         NEW b \in Addresses \ Whitelist, NEW st \in Statuses,
         records' = Put(delete_expire_remote_address(records), b, st),
         a = b => st = Counted(delete_expire_remote_address(records), b)
  PROVE  /\ a \in DOMAIN records'
         /\ records'[a].block_time = records[a].block_time
         /\ records'[a].blocked_timer = records[a].blocked_timer
  <1>1. is_blocked(records[a], Now) /\ a \in DOMAIN records
    BY LiveIsBlocked DEF RecordLive
  <1>2. CASE a # b
    BY <1>1, <1>2, RecordsAfterCount
  <1>3. CASE a = b
    <2>1. a \in DOMAIN records' /\ records'[a] = st
      BY <1>3, RecordsAfterCount
    <2>2. QED
      BY <1>1, <1>3, <2>1, CountKeepsBlock
  <1>4. QED
    BY <1>2, <1>3

LEMMA LiveStep ==
  ASSUME PipelineInv, OrderInv, RecordsTypeOK, CalledForRecord, CallOwns, LiveInv, [FailBanNext]_vars
  PROVE  LiveInv'
  <1> USE FailBanAssumption
  <1>0. /\ TasksTypeOK /\ clock \in Nat /\ Now \in Nat
        /\ pc \in [Threads -> {"idle", "post", "arm", "done"}]
        /\ task \in [Threads -> Tasks \cup {NoTask}]
        /\ timer \in [RuleNames -> Int]
    BY NowIsNat DEF PipelineInv, TasksTypeOK, Off
  <1>1. ASSUME UNCHANGED taskVars
        PROVE  \A n, a : LiveBlock(n, a)' <=> LiveBlock(n, a)
    BY <1>1 DEF LiveBlock, taskVars
  <1>2. ASSUME NEW b \in Addresses \cup Invalid,
               IgnoreLogin(b) \/ CountLogin(b) \/ \E time \in BlockTimes : SkipBlock(b, time)
        PROVE  LiveInv'
    <2>1. UNCHANGED <<taskVars, clock>>
      BY <1>2 DEF IgnoreLogin, CountLogin, SkipBlock
    <2>2. ASSUME NEW a \in Addresses, NEW n \in RuleNames, LiveBlock(n, a), RecordLive(n, a)
          PROVE  RecordLive(n, a)'
      <3>1. is_blocked(records[a], Now) /\ a \in DOMAIN records
        BY <1>0, <2>2, LiveIsBlocked DEF RecordLive
      <3>2. /\ a \in DOMAIN records'
            /\ records'[a].block_time = records[a].block_time
            /\ records'[a].blocked_timer = records[a].blocked_timer
        <4>1. CASE IgnoreLogin(b)
          BY <3>1, <4>1, Purged DEF IgnoreLogin
        <4>2. CASE CountLogin(b)
          BY <1>0, <2>2, <4>2, CountedStatus, RecordLiveAfterCount DEF CountLogin
        <4>3. ASSUME NEW time \in BlockTimes, SkipBlock(b, time)
              PROVE  /\ a \in DOMAIN records'
                     /\ records'[a].block_time = records[a].block_time
                     /\ records'[a].blocked_timer = records[a].blocked_timer
          <5> DEFINE c == Counted(delete_expire_remote_address(records), b)
          <5>1. /\ b \in Addresses \ Whitelist /\ ~is_blocked(c, Now)
                /\ records' = Put(delete_expire_remote_address(records), b, set_block_time(c, time, Now))
            BY <4>3 DEF SkipBlock, ShouldBlock
          <5>2. a # b
            BY <3>1, <5>1, CountKeepsBlock
          <5>3. c \in Statuses
            BY CountedStatus
          <5> HIDE DEF c
          <5>4. set_block_time(c, time, Now) \in Statuses
            BY <1>0, <5>3, BlockTimeFields, BlockTimesAssumption
          <5>5. QED
            BY <1>0, <2>2, <5>1, <5>2, <5>4, RecordLiveAfterCount
        <4>4. QED
          BY <1>2, <4>1, <4>2, <4>3
      <3>3. QED
        BY <2>1, <2>2, <3>2 DEF RecordLive, taskVars
    <2>3. \A a \in Addresses, n \in RuleNames : CallLive(n, a) => CallLive(n, a)'
      BY <2>1 DEF CallLive, taskVars
    <2>4. QED
      BY <1>1, <2>1, <2>2, <2>3, LiveFrame
  <1>3. ASSUME NEW b \in Addresses, NEW time \in BlockTimes, BlockAddress(b, time)
        PROVE  LiveInv'
    <2> DEFINE c == Counted(delete_expire_remote_address(records), b)
    <2>1. /\ b \in Addresses \ Whitelist /\ ~is_blocked(c, Now)
          /\ records' = Put(delete_expire_remote_address(records), b, c)
          /\ pc[FailThread] = "idle"
          /\ UNCHANGED <<rules, handlers, timer, clock>>
      BY <1>3 DEF BlockAddress, ShouldBlock, CreateBlockTasks
    <2>2. task'[FailThread].addr = b
      BY <1>0, <1>3 DEF BlockAddress, CreateBlockTasks
    <2>3. ASSUME NEW a \in Addresses, NEW n \in RuleNames, LiveBlock(n, a), RecordLive(n, a)
          PROVE  RecordLive(n, a)'
      <3>1. is_blocked(records[a], Now) /\ a \in DOMAIN records
        BY <1>0, <2>3, LiveIsBlocked DEF RecordLive
      <3>2. a # b
        BY <2>1, <3>1, CountKeepsBlock
      <3>3. c \in Statuses
        BY CountedStatus
      <3> HIDE DEF c
      <3>4. /\ a \in DOMAIN records'
            /\ records'[a].block_time = records[a].block_time
            /\ records'[a].blocked_timer = records[a].blocked_timer
        BY <1>0, <2>1, <2>3, <3>2, <3>3, RecordLiveAfterCount
      <3>5. QED
        BY <2>1, <2>2, <2>3, <3>2, <3>4 DEF RecordLive
    <2>4. \A n, a : LiveBlock(n, a)' <=> LiveBlock(n, a)
      BY <2>1 DEF LiveBlock
    <2>5. \A n, a : ~CallLive(n, a)
      BY <2>1 DEF CallLive
    <2>6. QED
      BY <2>3, <2>4, <2>5, LiveFrame
  <1>4. CASE SetBlockTime
    <2>0. PICK b, time : b = task[FailThread].addr /\ time = task[FailThread].time
      OBVIOUS
    <2> DEFINE st == set_block_time(records[b], time, Now)
    <2>1. /\ pc[FailThread] = "done" /\ pc'[FailThread] = "idle"
          /\ UNCHANGED <<rules, handlers, timer, clock>>
          /\ records' = [records EXCEPT ![b] = st]
      BY <1>0, <1>4, <2>0 DEF SetBlockTime, Return
    <2>2. b \in DOMAIN records /\ b \in Addresses /\ time \in Int /\ time > 0 /\ records[b] \in Statuses
      BY <2>0, <2>1, CallFields DEF CalledForRecord, RecordsTypeOK
    <2>3. st.block_time = time /\ st.blocked_timer = Now
      BY <1>0, <2>2, BlockTimeFields
    <2>4. \A n, a : LiveBlock(n, a)' <=> LiveBlock(n, a)
      BY <2>1 DEF LiveBlock
    <2>5. ASSUME NEW n \in RuleNames, CallLive(n, b)
          PROVE  RecordLive(n, b)'
      <3>1. timer[n] <= Ticks(time)
        BY <2>0, <2>5 DEF CallLive
      <3> HIDE DEF st
      <3>2. timer[n] \in Int /\ Ticks(time) \in Int /\ TicksPerSecond \in Int
        BY <1>0, <2>2, TicksOrder, TicksAssumption
      <3>3. timer[n] + clock < Ticks(Now) + Ticks(time) + TicksPerSecond
        BY <1>0, <3>1, <3>2, NowTicks
      <3>4. b \in DOMAIN records' /\ records'[b] = st
        BY <2>1, <2>2
      <3>5. QED
        BY <2>1, <2>2, <2>3, <3>3, <3>4 DEF RecordLive
    <2>6. ASSUME NEW a \in Addresses, NEW n \in RuleNames, RecordLive(n, a)
          PROVE  RecordLive(n, a)'
      <3>1. a # b
        BY <2>0, <2>1, <2>6 DEF RecordLive
      <3>2. a \in DOMAIN records' /\ records'[a] = records[a]
        BY <2>1, <2>6, <3>1 DEF RecordLive
      <3>3. QED
        BY <2>1, <2>6, <3>2 DEF RecordLive
    <2>7. \A n, a : CallLive(n, a) => a = b
      BY <2>0 DEF CallLive
    <2>8. QED
      BY <2>4, <2>5, <2>6, <2>7, LiveFrame
  <1>5. CASE ClockTick
    <2>1. /\ clock' = clock + 1 /\ timer' = CountDown
          /\ UNCHANGED <<pc, task, rules, handlers, records>>
      BY <1>5 DEF ClockTick
    <2>2. \A n \in RuleNames : timer'[n] > 0 => timer[n] > 0 /\ timer'[n] = timer[n] - 1
      BY <1>0, <2>1 DEF CountDown
    <2>3. ASSUME NEW a \in Addresses, NEW n \in RuleNames, LiveBlock(n, a)'
          PROVE  /\ LiveBlock(n, a)
                 /\ CallLive(n, a) => CallLive(n, a)'
                 /\ RecordLive(n, a) => RecordLive(n, a)'
      <3>1. /\ timer'[n] > 0 /\ timer[n] > 0 /\ timer'[n] = timer[n] - 1 /\ timer[n] \in Int
            /\ timer'[n] + clock' = timer[n] + clock
        BY <1>0, <2>1, <2>2, <2>3, LiveCarriesNext
      <3>2. LiveBlock(n, a)
        BY <2>1, <2>3, <3>1 DEF LiveBlock
      <3>3. CallLive(n, a) => CallLive(n, a)'
        <4>1. CASE pc[FailThread] = "done"
          <5>1. Ticks(task[FailThread].time) \in Int
            BY <4>1, CallFields, TicksOrder
          <5>2. QED
            BY <2>1, <3>1, <5>1 DEF CallLive
        <4>2. QED
          BY <4>1 DEF CallLive
      <3>4. RecordLive(n, a) => RecordLive(n, a)'
        BY <2>1, <3>1 DEF RecordLive
      <3>5. QED
        BY <3>2, <3>3, <3>4
    <2>4. QED
      BY <2>3, LiveFrame
  <1>6. CASE EndOfRecords
    <2>1. \A n \in RuleNames : timer'[n] = Off
      BY <1>6 DEF EndOfRecords, Terminate
    <2>2. \A n \in RuleNames : \A a : ~LiveBlock(n, a)'
      BY <2>1, LiveCarriesNext DEF Off
    <2>3. QED
      BY <2>2 DEF LiveInv
  <1>7. ASSUME AsyncBlock(FailThread), UNCHANGED failBanVars
        PROVE  LiveInv'
    <2>1. /\ pc[FailThread] = "post" /\ pc'[FailThread] = "arm"
          /\ UNCHANGED <<timer, task, records, clock>>
      BY <1>0, <1>7 DEF AsyncBlock, failBanVars
    <2>2. timer[task[FailThread].name] = Off
      BY <2>1 DEF OrderInv, BlockRunsFirst
    <2>3. \A n, a : LiveBlock(n, a)' => LiveBlock(n, a)
      BY <1>7, <2>1, <2>2, CarriedByAsyncBlock, LiveCarries, LiveCarriesNext DEF Off
    <2>4. \A n, a : ~CallLive(n, a)
      BY <2>1 DEF CallLive
    <2>5. \A n, a : RecordLive(n, a) => RecordLive(n, a)'
      BY <2>1 DEF RecordLive
    <2>6. QED
      BY <2>3, <2>4, <2>5, LiveFrame
  <1>8. ASSUME AsyncUnblock(FailThread), UNCHANGED failBanVars
        PROVE  LiveInv'
    <2>0. PICK m, b : m = task[FailThread].name /\ b = task[FailThread].addr
      OBVIOUS
    <2>1. /\ pc[FailThread] = "arm" /\ pc'[FailThread] = "done"
          /\ timer' = [timer EXCEPT ![m] = Ticks(task[FailThread].time)]
          /\ UNCHANGED <<task, rules, handlers, records, clock>>
      BY <1>0, <1>8, <2>0 DEF AsyncUnblock, failBanVars, Ticks
    <2>2. m \in RuleNames /\ Ticks(task[FailThread].time) \in Int
      BY <2>0, <2>1, CallFields, TicksOrder
    <2>3. timer'[m] = Ticks(task[FailThread].time) /\ \A n \in RuleNames : n # m => timer'[n] = timer[n]
      BY <1>0, <2>1, <2>2
    <2>4. ASSUME NEW n \in RuleNames, NEW a \in Addresses, n # m, LiveBlock(n, a)'
          PROVE  LiveBlock(n, a) /\ RecordLive(n, a) /\ RecordLive(n, a)' /\ a # b
      <3>1. LiveBlock(n, a)
        BY <2>1, <2>3, <2>4 DEF LiveBlock
      <3>2. RecordLive(n, a)
        BY <2>1, <3>1 DEF LiveInv, CallLive
      <3>3. QED
        BY <2>0, <2>1, <2>3, <2>4, <3>1, <3>2 DEF RecordLive
    <2>5. ASSUME NEW a \in Addresses, LiveBlock(m, a)'
          PROVE  a = b /\ CallLive(m, a)'
      <3>1. Carries(m, a)'
        BY <2>5, LiveCarriesNext
      <3>2. Carries(m, a)
        BY <2>1, <3>1 DEF Carries
      <3>3. a = b
        BY <2>0, <2>1, <3>2 DEF CallOwns
      <3>4. QED
        BY <2>0, <2>1, <2>2, <2>3, <3>3 DEF CallLive
    <2>6. QED
      BY <2>4, <2>5 DEF LiveInv
  <1>9. ASSUME UNCHANGED failBanVars, IoStep \/ Start \/ CleanupStep \/ \E n \in RuleNames : TimerExpires(n)
        PROVE  LiveInv'
    <2>1. UNCHANGED <<pc, task, records, clock>>
      BY <1>9 DEF failBanVars, IoStep, RunBlock, RunUnblock, Start, CleanupStep, RemoveLeftover,
                  StartThreads, TimerExpires
    <2>2. \A n, a : Carries(n, a)' => Carries(n, a)
      BY <1>9, CarriedByBlock, CarriedByUnblock, CarriedByCleanup, CarriedByTimer
         DEF IoStep, CleanupStep
    <2>3. \A n \in RuleNames : timer'[n] = timer[n] \/ timer'[n] = Off
      BY <1>0, <1>9 DEF IoStep, RunBlock, RunUnblock, Start, CleanupStep, RemoveLeftover,
                        StartThreads, TimerExpires
    <2>4. \A n \in RuleNames : \A a : LiveBlock(n, a)' => LiveBlock(n, a) /\ timer'[n] = timer[n]
      BY <2>2, <2>3, LiveCarries, LiveCarriesNext DEF Off
    <2>5. \A n \in RuleNames : \A a : timer'[n] = timer[n] =>
            (CallLive(n, a) => CallLive(n, a)') /\ (RecordLive(n, a) => RecordLive(n, a)')
      BY <2>1 DEF CallLive, RecordLive
    <2>6. QED
      BY <2>4, <2>5, LiveFrame
  <1>10. CASE UNCHANGED vars
    <2>1. UNCHANGED <<taskVars, records, clock>>
      BY <1>10 DEF vars, failBanVars
    <2>2. \A n, a : (CallLive(n, a) => CallLive(n, a)') /\ (RecordLive(n, a) => RecordLive(n, a)')
      BY <2>1 DEF CallLive, RecordLive, taskVars
    <2>3. QED
      BY <1>1, <2>1, <2>2, LiveFrame
  <1>11. QED
    BY <1>2, <1>3, <1>4, <1>5, <1>6, <1>7, <1>8, <1>9, <1>10 DEF FailBanNext, PipelineStep

\* What the theorems about the records rest on.
SupportInv ==
  PipelineInv /\ OrderInv /\ RecordsTypeOK /\ CalledForRecord /\ AgreeInv /\ CallOwns

LEMMA Support == FailBanSpec => []SupportInv
  <1>1. (PipelineInv /\ RecordsTypeOK /\ CalledForRecord) /\ AgreeInv /\ CallOwns /\ [FailBanNext]_vars
          => AgreeInv' /\ CallOwns'
    BY AgreeStep, CallOwnsStep
  <1>2. FailBanSpec => [](AgreeInv /\ CallOwns)
    BY <1>1, AgreeInit, CallOwnsInit, FailBanTypeCorrect, FailBanImplementsTasks, PipelineInvariant,
       PTL DEF FailBanSpec
  <1>3. PipelineInv /\ OrderInv /\ RecordsTypeOK /\ CalledForRecord /\ AgreeInv /\ CallOwns => SupportInv
    BY DEF SupportInv
  <1>4. QED
    BY <1>2, <1>3, FailBanTypeCorrect, FailBanImplementsTasks, OrderInvariant, PTL

\* No address ever has two blocks running at a time, although the decision is
\* made by the wall clock in whole seconds and the block is timed by the steady
\* clock (main.cpp:157-165 against 74, timer.cpp:22-25).
THEOREM OneLiveBlock == FailBanSpec => []AtMostOneLiveBlock
  <1>1. SupportInv /\ LiveInv /\ [FailBanNext]_vars => LiveInv'
    BY LiveStep DEF SupportInv
  <1>2. LiveInv => AtMostOneLiveBlock
    BY DEF LiveInv, AtMostOneLiveBlock
  <1>3. QED
    BY <1>1, <1>2, LiveInit, Support, PTL DEF FailBanSpec

-----------------------------------------------------------------------------
(* A decision to block is enforced for its whole time.                     *)

\* What the ledger says of blocks, in the course of calls and of the process.
BookInv ==
  /\ process # "running" => \A a \in Addresses : ledger[a].time = 0
  /\ \A a \in Addresses :
       /\ ledger[a].count = 0 => ledger[a].time = 0
       /\ ledger[a].time > 0 => ledger[a].since < Ticks(ledger[a].from) + TicksPerSecond
  /\ pc[FailThread] # "idle" =>
       /\ ledger[task[FailThread].addr].count # 0
       /\ ledger[task[FailThread].addr].time = 0
       /\ ledger[task[FailThread].addr].since <= clock

LEMMA BookInit == FailBanInit => BookInv
  BY FailBanAssumption DEF FailBanInit, TasksInit, BookInv, NoLedger, NoEntry

\* A failed login of b, as the ledger has it.
LEMMA BookAfterCount ==
  ASSUME RecordsTypeOK, BookInv, NEW b \in Addresses, NEW e \in Entries,
         e.count # 0, e.time = 0 \/ (e.time = ledger[b].time /\ e.from = ledger[b].from /\ e.since = ledger[b].since),
         process = "running", process' = "running", ledger' = [ledger EXCEPT ![b] = e],
         pc'[FailThread] # "idle" => task'[FailThread].addr = b /\ e.time = 0 /\ e.since <= clock'
  PROVE  BookInv'
  <1>1. ledger'[b] = e /\ \A a \in Addresses : a # b => ledger'[a] = ledger[a]
    BY DEF RecordsTypeOK
  <1>2. \A a \in Addresses :
          /\ ledger'[a].count = 0 => ledger'[a].time = 0
          /\ ledger'[a].time > 0 => ledger'[a].since < Ticks(ledger'[a].from) + TicksPerSecond
    BY <1>1, EntryTypes DEF BookInv
  <1>3. QED
    BY <1>1, <1>2 DEF BookInv

LEMMA BookStep ==
  ASSUME SupportInv, BookInv, [FailBanNext]_vars
  PROVE  BookInv'
  <1> USE FailBanAssumption DEF SupportInv
  <1>0. /\ clock \in Nat /\ Now \in Nat
        /\ pc \in [Threads -> {"idle", "post", "arm", "done"}]
        /\ task \in [Threads -> Tasks \cup {NoTask}]
        /\ \A a \in Addresses : ledger[a] \in Entries
    BY NowIsNat DEF PipelineInv, TasksTypeOK, RecordsTypeOK
  <1>1. ASSUME NEW b \in Addresses, ledger' = [ledger EXCEPT ![b] = LedgerEntry(@)],
               UNCHANGED <<taskVars, clock>>, Waiting
        PROVE  BookInv'
    <2> DEFINE e == LedgerEntry(ledger[b])
    <2>1. /\ e \in Entries /\ e.count # 0
          /\ e.time = 0 \/ (e.time = ledger[b].time /\ e.from = ledger[b].from /\ e.since = ledger[b].since)
      <3>1. ledger[b] \in Entries /\ ledger[b].count \in Nat
        BY <1>0, EntryTypes
      <3>2. QED
        BY <3>1, LedgerFields
    <2>2. ledger' = [ledger EXCEPT ![b] = e]
      BY <1>1
    <2>3. process = "running" /\ process' = "running" /\ pc'[FailThread] = "idle"
      BY <1>1 DEF Waiting, taskVars
    <2> HIDE DEF e
    <2>4. QED
      BY <2>1, <2>2, <2>3, BookAfterCount
  <1>2. ASSUME NEW b \in Addresses \cup Invalid,
               CountLogin(b) \/ \E time \in BlockTimes : SkipBlock(b, time)
        PROVE  BookInv'
    BY <1>1, <1>2 DEF CountLogin, SkipBlock, NoteFailure
  <1>3. ASSUME NEW b \in Addresses, NEW time \in BlockTimes, BlockAddress(b, time)
        PROVE  BookInv'
    <2> DEFINE e == LedgerEntry(ledger[b])
               d == [e EXCEPT !.time = 0, !.since = clock]
    <2>1. e \in Entries /\ e.count # 0
      <3>1. ledger[b] \in Entries /\ ledger[b].count \in Nat
        BY <1>0, EntryTypes
      <3>2. QED
        BY <3>1, LedgerFields
    <2>2. ledger' = [ledger EXCEPT ![b] = d] /\ clock' = clock
      BY <1>3 DEF BlockAddress
    <2>3. process = "running" /\ process' = "running" /\ task'[FailThread].addr = b
      BY <1>0, <1>3 DEF BlockAddress, CreateBlockTasks
    <2>4. d \in Entries
      <3> HIDE DEF e
      <3>1. e \in Entries /\ clock \in Nat /\ 0 \in Int
        BY <1>0, <2>1
      <3>2. [e EXCEPT !.time = 0, !.since = clock] \in Entries
        BY <3>1, DecisionFields
      <3>3. QED
        BY <3>2
    <2>5. d.time = 0 /\ d.since = clock /\ d.count = e.count
      <3> HIDE DEF e
      <3>1. d.time = 0
        BY <2>1 DEF Entries
      <3>2. d.since = clock
        BY <2>1 DEF Entries
      <3>3. d.count = e.count
        BY <2>1 DEF Entries
      <3>4. QED
        BY <3>1, <3>2, <3>3
    <2> HIDE DEF d, e
    <2>6. PICK f \in Entries : f = d
      BY <2>4
    <2>7. /\ f.count # 0 /\ f.time = 0 /\ f.since <= clock'
          /\ ledger' = [ledger EXCEPT ![b] = f]
      BY <1>0, <2>1, <2>2, <2>5, <2>6
    <2>8. QED
      BY <2>3, <2>6, <2>7, BookAfterCount
  <1>4. CASE SetBlockTime
    <2>0. PICK b, time : b = task[FailThread].addr /\ time = task[FailThread].time
      OBVIOUS
    <2> DEFINE d == [ledger[b] EXCEPT !.time = time, !.from = Now]
    <2>1. /\ pc[FailThread] # "idle" /\ pc'[FailThread] = "idle"
          /\ UNCHANGED <<process, clock>>
      BY <1>0, <1>4 DEF SetBlockTime, Return
    <2>2. b \in Addresses /\ time \in Int /\ ledger[b] \in Entries /\ process = "running"
      BY <1>0, <2>0, <2>1, CallFields DEF PipelineInv, QuietUnlessRunning
    <2>3. d.from = Now /\ d.count = ledger[b].count /\ d.since = ledger[b].since
      BY <1>0, <2>2 DEF Entries
    <2>4. ledger' = [ledger EXCEPT ![b] = d]
      BY <1>4, <2>0, <2>2 DEF SetBlockTime, RecordsTypeOK, Entries
    <2> HIDE DEF d
    <2>5. d.count # 0 /\ d.since < Ticks(d.from) + TicksPerSecond
      <3>1. ledger[b].since <= clock /\ ledger[b].count # 0 /\ ledger[b].since \in Nat
        BY <2>0, <2>1, <2>2, EntryTypes DEF BookInv
      <3>2. Ticks(Now) \in Int /\ clock < Ticks(Now) + TicksPerSecond
        BY NowTicks
      <3>3. QED
        BY <1>0, <2>3, <3>1, <3>2, TicksAssumption
    <2>6. ledger'[b] = d /\ \A a \in Addresses : a # b => ledger'[a] = ledger[a]
      BY <2>2, <2>4 DEF RecordsTypeOK
    <2>7. \A a \in Addresses :
            /\ ledger'[a].count = 0 => ledger'[a].time = 0
            /\ ledger'[a].time > 0 => ledger'[a].since < Ticks(ledger'[a].from) + TicksPerSecond
      BY <2>5, <2>6 DEF BookInv
    <2>8. QED
      BY <2>1, <2>2, <2>7 DEF BookInv
  <1>5. CASE ClockTick
    <2>1. clock' = clock + 1 /\ UNCHANGED <<process, pc, task, ledger>>
      BY <1>5 DEF ClockTick
    <2>2. pc[FailThread] # "idle" => ledger[task[FailThread].addr].since \in Nat
      BY <1>0, CallFields, EntryTypes
    <2>3. QED
      BY <1>0, <2>1, <2>2 DEF BookInv
  <1>6. CASE EndOfRecords
    <2>1. ledger' = NoLedger /\ pc'[FailThread] = "idle"
      BY <1>6 DEF EndOfRecords, Terminate
    <2>2. QED
      BY <2>1 DEF BookInv, NoLedger, NoEntry
  <1>7. ASSUME UNCHANGED <<ledger, clock, task, process>>,
               pc' = pc \/ pc[FailThread] # "idle"
        PROVE  BookInv'
    BY <1>7 DEF BookInv
  <1>8. ASSUME UNCHANGED failBanVars,
               \/ AsyncBlock(FailThread) \/ AsyncUnblock(FailThread) \/ IoStep
               \/ \E n \in RuleNames : TimerExpires(n) \/ RemoveLeftover(n)
        PROVE  BookInv'
    <2>1. UNCHANGED <<ledger, clock, task, process>> /\ (pc' = pc \/ pc[FailThread] # "idle")
      BY <1>8 DEF failBanVars, AsyncBlock, AsyncUnblock, IoStep, RunBlock, RunUnblock, TimerExpires,
                  RemoveLeftover
    <2>2. QED
      BY <1>7, <2>1
  <1>9. ASSUME UNCHANGED failBanVars, Start \/ StartThreads
        PROVE  BookInv'
    <2>1. process # "running" /\ UNCHANGED <<pc, task, ledger, clock>>
      BY <1>9 DEF Start, StartThreads, failBanVars
    <2>2. QED
      BY <2>1 DEF BookInv
  <1>10. CASE \E a : IgnoreLogin(a)
    BY <1>7, <1>10 DEF IgnoreLogin, taskVars
  <1>11. CASE UNCHANGED vars
    BY <1>7, <1>11 DEF vars, taskVars, failBanVars
  <1>12. QED
    BY <1>2, <1>3, <1>4, <1>5, <1>6, <1>8, <1>9, <1>10, <1>11
       DEF FailBanNext, PipelineStep, CleanupStep

\* A block is in its term, and rule n carries it to the end of the term.
InTerm(a) == ledger[a].time > 0 /\ clock - ledger[a].since < Ticks(ledger[a].time)
Covers(n, a) == Carries(n, a) /\ timer[n] + clock >= ledger[a].since + Ticks(ledger[a].time)

\* Before the call has returned the record does not tell its time.
CallCovers ==
  clock - ledger[task[FailThread].addr].since < Ticks(task[FailThread].time) =>
    /\ Carries(task[FailThread].name, task[FailThread].addr)
    /\ timer[task[FailThread].name] + clock
         >= ledger[task[FailThread].addr].since + Ticks(task[FailThread].time)

CoverInv ==
  /\ \A a \in Addresses : InTerm(a) => \E n \in RuleNames : Covers(n, a)
  /\ pc[FailThread] = "arm" => Carries(task[FailThread].name, task[FailThread].addr)
  /\ pc[FailThread] = "done" => CallCovers

LEMMA CoverInit == FailBanInit => CoverInv
  BY FailBanAssumption DEF FailBanInit, TasksInit, CoverInv, InTerm, NoLedger, NoEntry

\* A rule that carries a block to the end of its term has time to run.
LEMMA CoverHasTime ==
  ASSUME TasksTypeOK, RecordsTypeOK, NEW a \in Addresses, NEW n \in RuleNames
  PROVE  /\ InTerm(a) /\ Covers(n, a) => timer[n] > 0
         /\ ledger[a].since \in Nat /\ ledger[a].time \in Int /\ Ticks(ledger[a].time) \in Int
         /\ timer[n] \in Int /\ clock \in Nat
  <1>1. /\ ledger[a].since \in Nat /\ ledger[a].time \in Int /\ Ticks(ledger[a].time) \in Int
        /\ timer[n] \in Int /\ clock \in Nat
    <2>1. ledger[a] \in Entries
      BY DEF RecordsTypeOK
    <2>2. ledger[a].since \in Nat /\ ledger[a].time \in Int
      BY <2>1, EntryTypes
    <2>3. Ticks(ledger[a].time) \in Int
      BY <2>2, TicksOrder
    <2>4. timer[n] \in Int
      BY DEF TasksTypeOK, Off
    <2>5. QED
      BY <2>2, <2>3, <2>4, NowIsNat
  <1>2. QED
    BY <1>1 DEF InTerm, Covers

LEMMA CallHasTime ==
  ASSUME PipelineInv, RecordsTypeOK, pc[FailThread] # "idle"
  PROVE  /\ ledger[task[FailThread].addr].since \in Nat
         /\ Ticks(task[FailThread].time) \in Int
         /\ timer[task[FailThread].name] \in Int /\ clock \in Nat
  <1>1. /\ task[FailThread].addr \in Addresses /\ task[FailThread].name \in RuleNames
        /\ task[FailThread].time \in Int
    BY CallFields
  <1>2. QED
    BY <1>1, CoverHasTime, TicksOrder DEF PipelineInv

\* A step that leaves ledger, clock and call alone, and takes no rule with time
\* to run out of the firewall.
LEMMA CoverFrame ==
  ASSUME SupportInv, CoverInv, UNCHANGED <<ledger, clock, task, pc>>,
         \A n \in RuleNames, a \in Addresses :
           timer[n] > 0 /\ Carries(n, a) => Carries(n, a)' /\ timer'[n] = timer[n],
         pc[FailThread] = "arm" => Carries(task[FailThread].name, task[FailThread].addr)'
  PROVE  CoverInv'
  <1> USE DEF SupportInv
  <1>1. ASSUME NEW a \in Addresses, InTerm(a)
        PROVE  \E n \in RuleNames : Covers(n, a)'
    <2>1. PICK n \in RuleNames : Covers(n, a)
      BY <1>1 DEF CoverInv
    <2>2. timer[n] > 0 /\ Carries(n, a)
      BY <1>1, <2>1, CoverHasTime DEF PipelineInv, Covers
    <2>3. Covers(n, a)'
      BY <2>1, <2>2 DEF Covers
    <2>4. QED
      BY <2>3
  <1>2. \A a \in Addresses : InTerm(a)' <=> InTerm(a)
    BY DEF InTerm
  <1>3. ASSUME pc[FailThread] = "done"
        PROVE  CallCovers'
    <2>1. task[FailThread].addr \in Addresses /\ task[FailThread].name \in RuleNames
      BY <1>3, CallFields
    <2>2. CallCovers
      BY <1>3 DEF CoverInv
    <2>3. QED
      BY <1>3, <2>1, <2>2, CallHasTime DEF CallCovers
  <1>4. QED
    BY <1>1, <1>2, <1>3 DEF CoverInv

LEMMA CoverStep ==
  ASSUME "add" \notin CanFail, SupportInv, BookInv, CoverInv, [FailBanNext]_vars
  PROVE  CoverInv'
  <1> USE FailBanAssumption DEF SupportInv
  <1>0. /\ TasksTypeOK /\ clock \in Nat /\ Now \in Nat
        /\ pc \in [Threads -> {"idle", "post", "arm", "done"}]
        /\ task \in [Threads -> Tasks \cup {NoTask}]
        /\ timer \in [RuleNames -> Int]
        /\ \A a \in Addresses : ledger[a] \in Entries
    BY NowIsNat DEF PipelineInv, TasksTypeOK, Off, RecordsTypeOK
  <1>1. ASSUME NEW b \in Addresses, NEW e \in Entries, ledger' = [ledger EXCEPT ![b] = e],
               \/ e.time = 0
               \/ e.time = ledger[b].time /\ e.since = ledger[b].since,
               UNCHANGED <<rules, handlers, timer, clock>>,
               pc'[FailThread] \notin {"arm", "done"}
        PROVE  CoverInv'
    <2>1. ledger'[b] = e /\ \A a \in Addresses : a # b => ledger'[a] = ledger[a]
      BY <1>1 DEF RecordsTypeOK
    <2>2. \A n, a : Carries(n, a)' <=> Carries(n, a)
      BY <1>1 DEF Carries
    <2>3. ASSUME NEW a \in Addresses, InTerm(a)'
          PROVE  \E n \in RuleNames : Covers(n, a)'
      <3>1. ledger'[a].time = ledger[a].time /\ ledger'[a].since = ledger[a].since
        BY <1>1, <2>1, <2>3 DEF InTerm
      <3>2. InTerm(a)
        BY <1>1, <2>3, <3>1 DEF InTerm
      <3>3. PICK n \in RuleNames : Covers(n, a)
        BY <3>2 DEF CoverInv
      <3>4. Covers(n, a)'
        BY <1>1, <2>2, <3>1, <3>3 DEF Covers
      <3>5. QED
        BY <3>4
    <2>4. QED
      BY <1>1, <2>3 DEF CoverInv
  <1>2. ASSUME NEW b \in Addresses \cup Invalid,
               CountLogin(b) \/ \E time \in BlockTimes : SkipBlock(b, time)
        PROVE  CoverInv'
    <2>1. /\ b \in Addresses /\ ledger' = [ledger EXCEPT ![b] = LedgerEntry(@)]
          /\ pc'[FailThread] = "idle" /\ UNCHANGED <<rules, handlers, timer, clock>>
      BY <1>2 DEF CountLogin, SkipBlock, NoteFailure, Waiting, taskVars
    <2>2. PICK e : e = LedgerEntry(ledger[b])
      OBVIOUS
    <2>3. e \in Entries /\ (e.time = 0 \/ (e.time = ledger[b].time /\ e.since = ledger[b].since))
      BY <1>0, <2>1, <2>2, LedgerFields
    <2>4. QED
      BY <1>1, <2>1, <2>2, <2>3
  <1>3. ASSUME NEW b \in Addresses, NEW time \in BlockTimes, BlockAddress(b, time)
        PROVE  CoverInv'
    <2> DEFINE e == LedgerEntry(ledger[b])
    <2>1. PICK f : f = [e EXCEPT !.time = 0, !.since = clock]
      OBVIOUS
    <2>2. e \in Entries
      BY <1>0, LedgerFields
    <2>3. f \in Entries /\ f.time = 0
      <3> HIDE DEF e
      <3>1. e \in Entries /\ clock \in Nat /\ 0 \in Int
        BY <1>0, <2>2
      <3>2. [e EXCEPT !.time = 0, !.since = clock] \in Entries
        BY <3>1, DecisionFields
      <3>3. [e EXCEPT !.time = 0, !.since = clock].time = 0
        BY <2>2 DEF Entries
      <3>4. QED
        BY <2>1, <3>2, <3>3
    <2>4. /\ ledger' = [ledger EXCEPT ![b] = f]
          /\ pc'[FailThread] = "post" /\ UNCHANGED <<rules, handlers, timer, clock>>
      BY <1>0, <1>3, <2>1 DEF BlockAddress, CreateBlockTasks
    <2>5. QED
      BY <1>1, <2>3, <2>4
  <1>4. CASE SetBlockTime
    <2>0. PICK b, m, time : /\ b = task[FailThread].addr /\ m = task[FailThread].name
                            /\ time = task[FailThread].time
      OBVIOUS
    <2> DEFINE d == [ledger[b] EXCEPT !.time = time, !.from = Now]
    <2>1. /\ pc[FailThread] = "done" /\ pc'[FailThread] = "idle"
          /\ UNCHANGED <<rules, handlers, timer, clock>>
      BY <1>0, <1>4 DEF SetBlockTime, Return
    <2>2. b \in Addresses /\ m \in RuleNames /\ time \in Int /\ ledger[b] \in Entries
      BY <1>0, <2>0, <2>1, CallFields
    <2>3. d.time = time /\ d.since = ledger[b].since
      BY <1>0, <2>2 DEF Entries
    <2>4. ledger' = [ledger EXCEPT ![b] = d]
      BY <1>4, <2>0, <2>2 DEF SetBlockTime, RecordsTypeOK, Entries
    <2> HIDE DEF d
    <2>5. ledger'[b] = d /\ \A a \in Addresses : a # b => ledger'[a] = ledger[a]
      BY <2>2, <2>4 DEF RecordsTypeOK
    <2>6. \A n, a : Carries(n, a)' <=> Carries(n, a)
      BY <2>1 DEF Carries
    <2>7. InTerm(b)' => Covers(m, b)'
      BY <2>0, <2>1, <2>3, <2>5, <2>6 DEF InTerm, Covers, CoverInv, CallCovers
    <2>8. ASSUME NEW a \in Addresses, a # b, InTerm(a)'
          PROVE  \E n \in RuleNames : Covers(n, a)'
      <3>1. PICK n \in RuleNames : Covers(n, a)
        BY <2>1, <2>5, <2>8 DEF InTerm, CoverInv
      <3>2. Covers(n, a)'
        BY <2>1, <2>5, <2>6, <2>8, <3>1 DEF Covers
      <3>3. QED
        BY <3>2
    <2>9. QED
      BY <2>1, <2>2, <2>7, <2>8 DEF CoverInv
  <1>5. CASE ClockTick
    <2>1. /\ clock' = clock + 1 /\ timer' = CountDown
          /\ UNCHANGED <<pc, task, rules, handlers, ledger>>
      BY <1>5 DEF ClockTick
    <2>2. \A n \in RuleNames : timer[n] > 0 => timer'[n] + clock' = timer[n] + clock
      BY <1>0, <2>1 DEF CountDown
    <2>3. \A n, a : Carries(n, a)' <=> Carries(n, a)
      BY <2>1 DEF Carries
    <2>4. ASSUME NEW a \in Addresses, InTerm(a)'
          PROVE  \E n \in RuleNames : Covers(n, a)'
      <3>1. ledger[a].since \in Nat /\ Ticks(ledger[a].time) \in Int
        BY <1>0, EntryTypes, TicksOrder
      <3>2. InTerm(a)
        BY <1>0, <2>1, <2>4, <3>1 DEF InTerm
      <3>3. PICK n \in RuleNames : Covers(n, a)
        BY <3>2 DEF CoverInv
      <3>4. timer[n] > 0
        BY <1>0, <3>2, <3>3, CoverHasTime
      <3>5. Covers(n, a)'
        BY <2>1, <2>2, <2>3, <3>3, <3>4 DEF Covers
      <3>6. QED
        BY <3>5
    <2>5. ASSUME pc[FailThread] = "done"
          PROVE  CallCovers'
      <3>0. PICK b, m, time : /\ b = task[FailThread].addr /\ m = task[FailThread].name
                              /\ time = task[FailThread].time
        OBVIOUS
      <3>1. /\ b \in Addresses /\ m \in RuleNames /\ ledger[b].since \in Nat /\ Ticks(time) \in Int
            /\ timer[m] \in Int
        BY <1>0, <2>5, <3>0, CallFields, CallHasTime
      <3>2. SUFFICES ASSUME clock' - ledger[b].since < Ticks(time)
                     PROVE  Carries(m, b) /\ timer'[m] + clock' >= ledger[b].since + Ticks(time)
        BY <2>1, <2>3, <3>0 DEF CallCovers
      <3>3. clock - ledger[b].since < Ticks(time)
        BY <1>0, <2>1, <3>1, <3>2
      <3>4. Carries(m, b) /\ timer[m] + clock >= ledger[b].since + Ticks(time)
        BY <2>5, <3>0, <3>3 DEF CoverInv, CallCovers
      <3>5. timer[m] > 0
        BY <1>0, <3>1, <3>3, <3>4
      <3>6. QED
        BY <2>2, <3>1, <3>4, <3>5
    <2>6. QED
      BY <2>1, <2>3, <2>4, <2>5 DEF CoverInv
  <1>6. CASE EndOfRecords
    <2>1. ledger' = NoLedger /\ pc'[FailThread] = "idle"
      BY <1>6 DEF EndOfRecords, Terminate
    <2>2. QED
      BY <2>1 DEF CoverInv, InTerm, NoLedger, NoEntry
  <1>7. ASSUME AsyncBlock(FailThread), UNCHANGED failBanVars
        PROVE  CoverInv'
    <2>1. /\ pc[FailThread] = "post" /\ pc'[FailThread] = "arm"
          /\ UNCHANGED <<timer, task, ledger, clock>>
      BY <1>0, <1>7 DEF AsyncBlock, failBanVars
    <2>2. /\ \A n, a : Carries(n, a) => Carries(n, a)'
          /\ Carries(task[FailThread].name, task[FailThread].addr)'
      BY <1>7, <2>1, CarriedByAsyncBlock
    <2>3. ASSUME NEW a \in Addresses, InTerm(a)'
          PROVE  \E n \in RuleNames : Covers(n, a)'
      BY <2>1, <2>2, <2>3 DEF InTerm, CoverInv, Covers
    <2>4. QED
      BY <2>1, <2>2, <2>3 DEF CoverInv
  <1>8. ASSUME AsyncUnblock(FailThread), UNCHANGED failBanVars
        PROVE  CoverInv'
    <2>0. PICK b, m, time : /\ b = task[FailThread].addr /\ m = task[FailThread].name
                            /\ time = task[FailThread].time
      OBVIOUS
    <2>1. /\ pc[FailThread] = "arm" /\ pc'[FailThread] = "done"
          /\ timer' = [timer EXCEPT ![m] = Ticks(time)]
          /\ UNCHANGED <<task, rules, handlers, ledger, clock>>
      BY <1>0, <1>8, <2>0 DEF AsyncUnblock, failBanVars, Ticks
    <2>2. /\ m \in RuleNames /\ b \in Addresses /\ Ticks(time) \in Int /\ ledger[b].since \in Nat
          /\ timer[m] = Off
      BY <2>0, <2>1, CallFields, CallHasTime DEF OrderInv, TimedOnce
    <2>3. timer'[m] = Ticks(time) /\ \A n \in RuleNames : n # m => timer'[n] = timer[n]
      BY <1>0, <2>1, <2>2
    <2>4. \A n, a : Carries(n, a)' <=> Carries(n, a)
      BY <2>1 DEF Carries
    <2>5. ASSUME NEW a \in Addresses, InTerm(a)'
          PROVE  \E n \in RuleNames : Covers(n, a)'
      <3>1. InTerm(a)
        BY <2>1, <2>5 DEF InTerm
      <3>2. PICK n \in RuleNames : Covers(n, a)
        BY <3>1 DEF CoverInv
      <3>3. timer[n] > 0
        BY <1>0, <3>1, <3>2, CoverHasTime
      <3>4. timer'[n] = timer[n]
        BY <2>2, <2>3, <3>3 DEF Off
      <3>5. Covers(n, a)'
        BY <2>1, <2>4, <3>2, <3>4 DEF Covers
      <3>6. QED
        BY <3>5
    <2>6. Carries(m, b) /\ ledger[b].since <= clock
      BY <2>0, <2>1 DEF CoverInv, BookInv
    <2>7. CallCovers'
      BY <1>0, <2>0, <2>1, <2>2, <2>3, <2>4, <2>6 DEF CallCovers
    <2>8. QED
      BY <2>1, <2>5, <2>7 DEF CoverInv
  <1>9. ASSUME NEW m \in RuleNames, TimerExpires(m), UNCHANGED failBanVars
        PROVE  CoverInv'
    <2>1. timer[m] = 0 /\ timer' = [timer EXCEPT ![m] = Off] /\ UNCHANGED <<ledger, clock, task, pc>>
      BY <1>9 DEF TimerExpires, failBanVars
    <2>2. \A n \in RuleNames : timer[n] > 0 => timer'[n] = timer[n]
      BY <1>0, <2>1
    <2>3. QED
      BY <1>9, <2>1, <2>2, CarriedByTimer, CoverFrame DEF CoverInv
  <1>10. ASSUME RunBlock, UNCHANGED failBanVars
         PROVE  CoverInv'
    <2>1. UNCHANGED <<ledger, clock, task, pc, timer>>
      BY <1>10 DEF RunBlock, failBanVars
    <2>2. QED
      BY <1>10, <2>1, CarriedByBlock, CoverFrame DEF CoverInv
  <1>11. ASSUME RunUnblock, UNCHANGED failBanVars
         PROVE  CoverInv'
    <2>1. UNCHANGED <<ledger, clock, task, pc, timer>>
      BY <1>11 DEF RunUnblock, failBanVars
    <2>2. \A n \in RuleNames : timer[n] > 0 => ~UnblockQueued(n)
      BY DEF OrderInv, TimedOnce, Off
    <2>3. pc[FailThread] = "arm" => ~UnblockQueued(task[FailThread].name)
      BY DEF OrderInv, TimedOnce
    <2>4. \A n, a : Carries(n, a) /\ ~UnblockQueued(n) => Carries(n, a)'
      BY <1>11, CarriedByUnblock
    <2>5. pc[FailThread] = "arm" => Carries(task[FailThread].name, task[FailThread].addr)'
      BY <2>1, <2>3, <2>4 DEF CoverInv
    <2>6. QED
      BY <2>1, <2>2, <2>4, <2>5, CoverFrame
  <1>12. ASSUME UNCHANGED failBanVars, Start \/ CleanupStep
         PROVE  CoverInv'
    <2>1. process # "running" /\ UNCHANGED <<pc, task, ledger, clock>>
      BY <1>12 DEF Start, CleanupStep, RemoveLeftover, StartThreads, failBanVars
    <2>2. pc[FailThread] = "idle" /\ \A a \in Addresses : ledger[a].time = 0
      BY <2>1 DEF PipelineInv, QuietUnlessRunning, BookInv
    <2>3. QED
      BY <2>1, <2>2 DEF CoverInv, InTerm
  <1>13. ASSUME UNCHANGED <<taskVars, ledger, clock>>
         PROVE  CoverInv'
    <2>1. \A n, a : Carries(n, a)' <=> Carries(n, a)
      BY <1>13 DEF Carries, taskVars
    <2>2. QED
      BY <1>13, <2>1, CoverFrame DEF CoverInv, taskVars
  <1>14. QED
    BY <1>2, <1>3, <1>4, <1>5, <1>6, <1>7, <1>8, <1>9, <1>10, <1>11, <1>12, <1>13
       DEF FailBanNext, PipelineStep, IoStep, IgnoreLogin, vars, failBanVars

\* While no rule fails to be added, for block_time seconds after the decision to
\* block an address its record is blocked and a rule for it is in the firewall
\* or on its way there (main.cpp:163-165, 202-206, remote_address_status.cpp:67-76).
THEOREM BlocksAreEnforced ==
  ASSUME "add" \notin CanFail
  PROVE  FailBanSpec => []BlockedIsEnforced
  <1>1. SupportInv /\ BookInv /\ CoverInv => BlockedIsEnforced
    <2> SUFFICES ASSUME SupportInv, BookInv, CoverInv, NEW a \in Addresses, InTerm(a)
                 PROVE  /\ a \in DOMAIN records /\ is_blocked(records[a], Now)
                        /\ \E n \in RuleNames : LiveBlock(n, a)
      BY DEF BlockedIsEnforced, InTerm, Ticks
    <2> USE DEF SupportInv
    <2>1. /\ ledger[a] \in Entries /\ ledger[a].time \in Int /\ ledger[a].time > 0
          /\ ledger[a].from \in Nat /\ ledger[a].since \in Nat /\ clock \in Nat /\ Now \in Nat
      BY EntryTypes, NowIsNat DEF RecordsTypeOK, InTerm
    <2>2. Now - ledger[a].from <= ledger[a].time
      <3>0. ledger[a].time \in Int /\ ledger[a].from \in Int
        BY <2>1
      <3>1. Ticks(ledger[a].time) \in Int /\ Ticks(ledger[a].from) \in Int
        BY ONLY <3>0, TicksOrder
      <3>4. ledger[a].since < Ticks(ledger[a].from) + TicksPerSecond
        BY <2>1 DEF BookInv
      <3>5. clock - ledger[a].since < Ticks(ledger[a].time)
        BY DEF InTerm
      <3>6. TicksPerSecond \in Int
        BY TicksAssumption
      <3>2. clock < Ticks(ledger[a].from) + Ticks(ledger[a].time) + TicksPerSecond
        BY <2>1, <3>1, <3>4, <3>5, <3>6
      <3>3. QED
        BY <2>1, <3>2, PeriodCovered
    <2>3. a \in DOMAIN records
      BY <2>1, <2>2 DEF AgreeInv, LapsedAt, BookInv
    <2>4. is_blocked(records[a], Now)
      <3>1. records[a] \in Statuses /\ Agrees(records[a], ledger[a], Now)
        BY <2>3 DEF RecordsTypeOK, AgreeInv
      <3>2. QED
        BY <2>1, <2>2, <3>1, StatusTypes DEF Agrees, is_blocked, is_timeout, elapsed
    <2>5. \E n \in RuleNames : LiveBlock(n, a)
      <3>1. PICK n \in RuleNames : Covers(n, a)
        BY DEF CoverInv
      <3>2. LiveBlock(n, a)
        BY <3>1, CoverHasTime, LiveCarries DEF PipelineInv, Covers
      <3>3. QED
        BY <3>2
    <2>6. QED
      BY <2>3, <2>4, <2>5
  <1>2. SupportInv /\ BookInv /\ CoverInv /\ [FailBanNext]_vars => BookInv' /\ CoverInv'
    BY BookStep, CoverStep
  <1>3. QED
    BY <1>1, <1>2, BookInit, CoverInit, Support, PTL DEF FailBanSpec

-----------------------------------------------------------------------------
(* Where the record outlasts the block.                                    *)

\* A failed login that is only counted, at or above the threshold, finds a
\* record that shows the block of the last decision.
LEMMA StillBlocked ==
  ASSUME RecordsTypeOK, AgreeInv, NEW a \in Addresses, CountLogin(a),
         ledger'[a].count >= Threshold
  PROVE  ledger[a].time > 0 /\ Now - ledger[a].from <= ledger[a].time
  <1> DEFINE map == delete_expire_remote_address(records)
             c == Counted(map, a)
  <1>1. c.count = ledger'[a].count
    <2>1. ledger'[a] = LedgerEntry(ledger[a])
      BY DEF CountLogin, NoteFailure, RecordsTypeOK
    <2>2. QED
      BY <2>1, CountingAgrees DEF Agrees
  <1>2. is_blocked(c, Now)
    BY <1>1 DEF CountLogin, ShouldBlock
  <1>3. a \in DOMAIN map => a \in DOMAIN records /\ map[a] = records[a] /\ records[a] \in Statuses
    BY Purged DEF RecordsTypeOK
  <1>4. Now \in Nat
    BY NowIsNat
  <1> HIDE DEF map
  <1>5. a \in DOMAIN map /\ c.block_time = records[a].block_time /\ c.blocked_timer = records[a].blocked_timer
    BY <1>2, <1>3, <1>4, CountedFields DEF is_blocked
  <1> HIDE DEF c
  <1>6. is_blocked(records[a], Now)
    BY <1>2, <1>5 DEF is_blocked
  <1>7. Agrees(records[a], ledger[a], Now) /\ ledger[a] \in Entries
    BY <1>3, <1>5 DEF AgreeInv, RecordsTypeOK
  <1>8. ledger[a].time > 0 /\ ~(Now - ledger[a].from > ledger[a].time)
    BY <1>6, <1>7 DEF Agrees, is_blocked, is_timeout, elapsed
  <1>9. QED
    BY <1>4, <1>7, <1>8, EntryTypes

\* A record that shows a block the time of which is over does so no longer than
\* the call of that block took, rounded up to the second it returned in.
LEMMA OutlastsBriefly ==
  ASSUME RecordsTypeOK, NEW a \in Addresses, ledger[a].time > 0,
         ledger[a].since + ledger[a].time * TicksPerSecond <= clock,
         Now - ledger[a].from <= ledger[a].time
  PROVE  RecordOutlasts(a)
  <1> DEFINE e == ledger[a]
             last == e.from + e.time
  <1>1. /\ e.since \in Int /\ e.from \in Int /\ e.time \in Int /\ clock \in Nat
        /\ Now \in Nat /\ TicksPerSecond \in Int /\ TicksPerSecond > 0
    BY EntryTypes, NowIsNat, TicksAssumption DEF RecordsTypeOK
  <1>2. e.time * TicksPerSecond \in Int /\ e.from * TicksPerSecond \in Int
    BY <1>1, Products
  <1>3. Now <= last /\ last \in Int
    BY <1>1
  <1>4. last * TicksPerSecond = e.from * TicksPerSecond + e.time * TicksPerSecond
    BY <1>1, Products
  <1>5. Now * TicksPerSecond <= last * TicksPerSecond /\ Now * TicksPerSecond \in Int
    BY <1>1, <1>3, Products
  <1>6. clock < Now * TicksPerSecond + TicksPerSecond
    BY <1>1, SecondOf DEF Now
  <1>7. (e.from + 1) * TicksPerSecond = e.from * TicksPerSecond + TicksPerSecond
    <2>1. 1 * TicksPerSecond = TicksPerSecond /\ 1 \in Int
      BY <1>1
    <2>2. QED
      BY <1>1, <2>1, Products
  <1> HIDE DEF last
  <1>8. clock < e.from * TicksPerSecond + e.time * TicksPerSecond + TicksPerSecond
    BY <1>1, <1>2, <1>4, <1>5, <1>6
  <1> HIDE DEF e
  <1>9. clock < e.since + e.time * TicksPerSecond + ((e.from + 1) * TicksPerSecond - e.since)
    BY <1>1, <1>2, <1>7, <1>8
  <1>10. QED
    BY <1>9 DEF RecordOutlasts, e

\* While no rule fails to be added, the only failed logins at or above the
\* threshold that leave an address free are those for which a time of 0 or less
\* is drawn, and those while the record outlasts an earlier block: for as long
\* as that block's call took, rounded up to the second (main.cpp:157-165).
THEOREM MissesAreWhileRecordOutlasts ==
  ASSUME "add" \notin CanFail
  PROVE  FailBanSpec => MissedWhileRecordOutlasts
  <1> DEFINE Met(a) == \/ Blocked(a)
                       \/ \E i \in DOMAIN handlers : handlers[i].op = "block" /\ handlers[i].addr = a
                       \/ pc'[FailThread] = "post"
                       \/ \E time \in BlockTimes : SkipBlock(a, time)
                       \/ RecordOutlasts(a)
             Listed == \A a \in Addresses :
                         ledger'[a].count > ledger[a].count /\ ledger'[a].count >= Threshold => Met(a)
  <1>1. SupportInv /\ BlockedIsEnforced /\ [FailBanNext]_vars => Listed
    <2> SUFFICES ASSUME SupportInv, BlockedIsEnforced, [FailBanNext]_vars, NEW a \in Addresses,
                        ledger'[a].count > ledger[a].count, ledger'[a].count >= Threshold
                 PROVE  Met(a)
      OBVIOUS
    <2> USE DEF SupportInv
    <2>0. /\ ledger \in [Addresses -> Entries] /\ ledger[a].count \in Nat /\ ledger[a].since \in Nat
          /\ ledger[a].time \in Int /\ clock \in Nat /\ Now \in Nat
      BY EntryTypes, NowIsNat DEF RecordsTypeOK
    <2>1. ASSUME NEW b, CountLogin(b)
          PROVE  Met(a)
      <3>1. a = b
        BY <2>0, <2>1 DEF CountLogin, NoteFailure
      <3>2. ledger[a].time > 0 /\ Now - ledger[a].from <= ledger[a].time
        BY <2>1, <3>1, StillBlocked
      <3>3. CASE clock - ledger[a].since < ledger[a].time * TicksPerSecond
        <4>1. PICK n \in RuleNames : LiveBlock(n, a)
          BY <3>2, <3>3 DEF BlockedIsEnforced
        <4>2. QED
          BY <4>1 DEF LiveBlock, Blocked, IsBlock
      <3>4. CASE ~(clock - ledger[a].since < ledger[a].time * TicksPerSecond)
        <4>1. ledger[a].time * TicksPerSecond \in Int
          BY <2>0, TicksOrder DEF Ticks
        <4>2. ledger[a].since + ledger[a].time * TicksPerSecond <= clock
          BY <2>0, <3>4, <4>1
        <4>3. QED
          BY <3>2, <4>2, OutlastsBriefly
      <3>5. QED
        BY <3>3, <3>4
    <2>2. ASSUME NEW b \in Addresses, NEW time \in BlockTimes, BlockAddress(b, time)
          PROVE  Met(a)
      <3>1. pc'[FailThread] = "post"
        BY <2>2, FailBanAssumption DEF BlockAddress, CreateBlockTasks, PipelineInv, TasksTypeOK
      <3>2. QED
        BY <3>1
    <2>3. ASSUME NEW b \in Addresses, NEW time \in BlockTimes, SkipBlock(b, time)
          PROVE  Met(a)
      <3>1. a = b
        BY <2>0, <2>3 DEF SkipBlock, NoteFailure
      <3>2. QED
        BY <2>3, <3>1
    <2>4. CASE SetBlockTime
      <3> DEFINE b == task[FailThread].addr
      <3>1. ledger'[a].count = ledger[a].count
        BY <2>0, <2>4 DEF SetBlockTime, Entries
      <3>2. QED
        BY <2>0, <3>1
    <2>5. CASE EndOfRecords
      <3>1. ledger'[a].count = 0
        BY <2>5 DEF EndOfRecords, NoLedger, NoEntry
      <3>2. QED
        BY <2>0, <3>1
    <2>6. CASE ledger' = ledger
      BY <2>0, <2>6
    <2>7. QED
      BY <2>1, <2>2, <2>3, <2>4, <2>5, <2>6
         DEF FailBanNext, IgnoreLogin, ClockTick, PipelineStep, failBanVars, vars
  <1>2. QED
    BY <1>1, Support, BlocksAreEnforced, PTL DEF FailBanSpec, MissedWhileRecordOutlasts

-----------------------------------------------------------------------------
(* Nobody is blocked without cause.                                        *)

\* The strengthening that makes BlockedForCause inductive: a record that was
\* ever given a block time, or whose block is being made, has the count for it.
CauseInv ==
  /\ pc[FailThread] # "idle" => records[task[FailThread].addr].count >= Threshold
  /\ \A a \in DOMAIN records : records[a].block_time > 0 => records[a].count >= Threshold

LEMMA CauseInit == FailBanInit => CauseInv
  BY FailBanAssumption DEF FailBanInit, TasksInit, CauseInv

\* Counting keeps the cause of a block.
LEMMA CountedCause ==
  ASSUME RecordsTypeOK, CauseInv, NEW b \in Addresses,
         NEW c, c = Counted(delete_expire_remote_address(records), b)
  PROVE  c \in Statuses /\ (c.block_time > 0 => c.count >= Threshold)
  <1> DEFINE map == delete_expire_remote_address(records)
  <1>1. b \in DOMAIN map => b \in DOMAIN records /\ map[b] = records[b] /\ records[b] \in Statuses
    BY Purged DEF RecordsTypeOK
  <1>2. Now \in Nat /\ c = Counted(map, b)
    BY NowIsNat
  <1>3. c \in Statuses
    BY CountedStatus
  <1> HIDE DEF map
  <1>4. CASE b \in DOMAIN map
    <2>1. c.count = records[b].count + 1 /\ c.block_time = records[b].block_time
      BY <1>1, <1>2, <1>4, CountedFields
    <2>2. QED
      BY <1>1, <1>3, <1>4, <2>1, StatusTypes, FailBanAssumption DEF CauseInv
  <1>5. CASE b \notin DOMAIN map
    BY <1>1, <1>2, <1>3, <1>5, CountedFields
  <1>6. QED
    BY <1>4, <1>5

\* The records after a failed login of b.
LEMMA CauseAfterCount ==
  ASSUME RecordsTypeOK, CauseInv, NEW b \in Addresses \ Whitelist, NEW st \in Statuses,
         records' = Put(delete_expire_remote_address(records), b, st),
         st.block_time > 0 => st.count >= Threshold
  PROVE  \A a \in DOMAIN records' : records'[a].block_time > 0 => records'[a].count >= Threshold
  BY RecordsAfterCount DEF CauseInv

LEMMA CauseStep ==
  ASSUME PipelineInv, RecordsTypeOK, CalledForRecord, CauseInv, [FailBanNext]_vars
  PROVE  CauseInv'
  <1> USE FailBanAssumption
  <1>0. /\ Now \in Nat /\ TasksTypeOK
        /\ pc \in [Threads -> {"idle", "post", "arm", "done"}]
        /\ task \in [Threads -> Tasks \cup {NoTask}]
    BY NowIsNat DEF PipelineInv, TasksTypeOK
  <1>1. ASSUME NEW b, IgnoreLogin(b)
        PROVE  CauseInv'
    BY <1>1, Purged DEF IgnoreLogin, Waiting, taskVars, CauseInv
  <1>2. ASSUME NEW b, CountLogin(b)
        PROVE  CauseInv'
    <2> DEFINE c == Counted(delete_expire_remote_address(records), b)
    <2>1. /\ b \in Addresses \ Whitelist /\ pc'[FailThread] = "idle"
          /\ records' = Put(delete_expire_remote_address(records), b, c)
      BY <1>2 DEF CountLogin, Waiting, taskVars
    <2>2. c \in Statuses /\ (c.block_time > 0 => c.count >= Threshold)
      BY <2>1, CountedCause
    <2> HIDE DEF c
    <2>3. QED
      BY <2>1, <2>2, CauseAfterCount DEF CauseInv
  <1>3. ASSUME NEW b \in Addresses, NEW time \in BlockTimes, BlockAddress(b, time)
        PROVE  CauseInv'
    <2> DEFINE c == Counted(delete_expire_remote_address(records), b)
    <2>1. /\ b \in Addresses \ Whitelist /\ c.count >= Threshold
          /\ records' = Put(delete_expire_remote_address(records), b, c)
      BY <1>3 DEF BlockAddress, ShouldBlock
    <2>2. task'[FailThread].addr = b
      BY <1>0, <1>3 DEF BlockAddress, CreateBlockTasks
    <2>3. c \in Statuses
      BY CountedStatus
    <2> HIDE DEF c
    <2>4. records'[b] = c
      BY <2>1, <2>3, RecordsAfterCount
    <2>5. QED
      BY <2>1, <2>2, <2>3, <2>4, CauseAfterCount DEF CauseInv
  <1>4. ASSUME NEW b \in Addresses, NEW time \in BlockTimes, SkipBlock(b, time)
        PROVE  CauseInv'
    <2> DEFINE c == Counted(delete_expire_remote_address(records), b)
    <2>1. /\ b \in Addresses \ Whitelist /\ pc'[FailThread] = "idle" /\ time <= 0 /\ time \in Int
          /\ records' = Put(delete_expire_remote_address(records), b, set_block_time(c, time, Now))
      BY <1>4, BlockTimesAssumption DEF SkipBlock, Waiting, taskVars
    <2>2. c \in Statuses
      BY CountedStatus
    <2> HIDE DEF c
    <2>3. set_block_time(c, time, Now) \in Statuses /\ set_block_time(c, time, Now).block_time = time
      BY <1>0, <2>1, <2>2, BlockTimeFields
    <2>4. QED
      BY <2>1, <2>3, CauseAfterCount DEF CauseInv
  <1>5. CASE SetBlockTime
    <2>0. PICK b, time : b = task[FailThread].addr /\ time = task[FailThread].time
      OBVIOUS
    <2> DEFINE st == set_block_time(records[b], time, Now)
    <2>1. /\ pc[FailThread] = "done" /\ pc'[FailThread] = "idle"
          /\ records' = [records EXCEPT ![b] = st]
      BY <1>0, <1>5, <2>0 DEF SetBlockTime, Return
    <2>2. b \in DOMAIN records /\ time \in Int /\ records[b] \in Statuses
      BY <2>0, <2>1, CallFields DEF CalledForRecord, RecordsTypeOK
    <2>3. st.count = records[b].count
      BY <1>0, <2>2, BlockTimeFields
    <2>4. records[b].count >= Threshold
      BY <2>0, <2>1 DEF CauseInv
    <2> HIDE DEF st
    <2>5. QED
      BY <2>1, <2>2, <2>3, <2>4 DEF CauseInv
  <1>6. CASE EndOfRecords
    BY <1>6 DEF EndOfRecords, Terminate, CauseInv
  <1>7. ASSUME UNCHANGED records, AsyncBlock(FailThread) \/ AsyncUnblock(FailThread)
        PROVE  CauseInv'
    BY <1>0, <1>7 DEF AsyncBlock, AsyncUnblock, CauseInv
  <1>8. ASSUME UNCHANGED <<records, pc, task>>
        PROVE  CauseInv'
    BY <1>8 DEF CauseInv
  <1>9. QED
    BY <1>1, <1>2, <1>3, <1>4, <1>5, <1>6, <1>7, <1>8
       DEF FailBanNext, ClockTick, PipelineStep, vars, failBanVars, taskVars, IoStep, CleanupStep,
           TimerExpires, RunBlock, RunUnblock, Start, RemoveLeftover, StartThreads

\* Only a failed login from an address that is not whitelisted makes a call.
LEMMA CallsAreSpared ==
  ASSUME TasksTypeOK, [FailBanNext]_vars,
         NEW t \in Threads, NEW a \in Addresses, NEW time \in BlockTimes, CreateBlockTasks(t, a, time)
  PROVE  a \in Addresses \ Whitelist
  <1> USE FailBanAssumption
  <1>1. process = "running" /\ process' = "running" /\ pc[t] = "idle" /\ pc'[t] = "post" /\ task'[t].addr = a
    BY DEF CreateBlockTasks, TasksTypeOK
  <1>2. ASSUME NEW b \in Addresses, NEW s \in BlockTimes, BlockAddress(b, s)
        PROVE  a \in Addresses \ Whitelist
    <2>1. b \in Addresses \ Whitelist /\ CreateBlockTasks(FailThread, b, s)
      BY <1>2 DEF BlockAddress
    <2>2. t = FailThread /\ task'[FailThread].addr = b
      BY <1>1, <2>1 DEF CreateBlockTasks, TasksTypeOK
    <2>3. QED
      BY <1>1, <2>1, <2>2
  <1>3. ~UNCHANGED pc
    BY <1>1
  <1>4. ~SetBlockTime /\ ~AsyncBlock(FailThread) /\ ~AsyncUnblock(FailThread)
    BY <1>1 DEF SetBlockTime, AsyncBlock, AsyncUnblock, Return, TasksTypeOK
  <1>5. QED
    BY <1>1, <1>2, <1>3, <1>4
       DEF FailBanNext, IgnoreLogin, CountLogin, SkipBlock, ClockTick, EndOfRecords, Terminate,
           PipelineStep, vars, taskVars, IoStep, CleanupStep, TimerExpires, RunBlock, RunUnblock, Start,
           RemoveLeftover, StartThreads

\* No rule is for a whitelisted address, and while a block has time to run its
\* address keeps a record whose count has reached the threshold
\* (main.cpp:137-162, 197-218).
THEOREM NobodyBlockedWithoutCause == FailBanSpec => []BlockedForCause
  <1> DEFINE Spared == Addresses \ Whitelist
             I == CauseInv /\ Only(Spared) /\ LiveInv
  <1>1. SupportInv /\ I /\ [FailBanNext]_vars => I'
    <2> SUFFICES ASSUME SupportInv, I, [FailBanNext]_vars
                 PROVE  I'
      OBVIOUS
    <2> USE DEF SupportInv
    <2>1. TasksTypeOK
      BY DEF PipelineInv
    <2>2. Only(Spared)'
      BY <2>1, TasksSteps, CallsAreSpared, OnlyStep
    <2>3. CauseInv' /\ LiveInv'
      BY CauseStep, LiveStep
    <2>4. QED
      BY <2>2, <2>3
  <1>2. SupportInv /\ I => BlockedForCause
    <2> SUFFICES ASSUME SupportInv, I
                 PROVE  BlockedForCause
      OBVIOUS
    <2>1. ASSUME NEW a \in Addresses, NEW n \in RuleNames, LiveBlock(n, a)
          PROVE  a \in DOMAIN records /\ records[a].count >= Threshold
      <3>1. CASE CallLive(n, a)
        BY <3>1 DEF CallLive, CauseInv, SupportInv, CalledForRecord
      <3>2. CASE RecordLive(n, a)
        BY <3>2 DEF RecordLive, CauseInv
      <3>3. QED
        BY <2>1, <3>1, <3>2 DEF LiveInv
    <2>2. QED
      BY <2>1 DEF BlockedForCause, Only
  <1>3. FailBanInit => I
    BY CauseInit, LiveInit, OnlyInit DEF FailBanInit
  <1>4. QED
    BY <1>1, <1>2, <1>3, Support, PTL DEF FailBanSpec

-----------------------------------------------------------------------------
\* What is proved of the pipeline holds below the thread, whatever it asks for:
\* no rule is left over for ever, no removal overtakes its block, no block is
\* lifted before its time, and each lives the life BlockLifecycle gives it.
THEOREM FailBanKeepsPipelinePromises ==
  FailBanSpec => []NoOrphanRule /\ []BlockRunsFirst /\ StaysWhileTimed /\ ImplementsLifecycle
  BY FailBanImplementsTasks, RulesAreLifted, BlocksRunFirst, BlocksStayWhileTimed,
     PipelineImplementsLifecycle, PTL
=============================================================================
