----------------------- MODULE WorkstationCheckProofs ------------------------
(***************************************************************************)
(* Proofs about the successful-login thread, for any users, workstation    *)
(* names, expressions and configuration, and on top of any blocking        *)
(* pipeline.                                                               *)
(***************************************************************************)
EXTENDS WorkstationCheck, BlockTasksProofs

-----------------------------------------------------------------------------
(* The thread uses the pipeline as BlockTasks has it.                      *)

\* A verdict against a login is a call of create_block_remote_address_tasks,
\* or nothing.
LEMMA BlockIsCall ==
  ASSUME NEW a \in Addresses \cup Invalid, Block(a)
  PROVE  \/ UNCHANGED taskVars
         \/ /\ a \in Addresses \ Whitelist
            /\ \E time \in BlockTimes : CreateBlockTasks(LoginThread, a, time)
  BY WorkstationAssumption DEF Block

LEMMA TasksSteps == [CheckNext]_vars => [TasksNext]_taskVars
  <1> SUFFICES ASSUME [CheckNext]_vars
               PROVE  TasksNext \/ UNCHANGED taskVars
    OBVIOUS
  <1> USE WorkstationAssumption
  <1>1. ASSUME NEW u \in Users, NEW n \in Names,
               AllowByName(u, n) \/ AllowByBind(u, n)
        PROVE  UNCHANGED taskVars
    BY <1>1 DEF AllowByName, AllowByBind
  <1>2. ASSUME NEW u \in Users, NEW n \in Names, NEW a \in Addresses \cup Invalid,
               RefuseByName(u, n, a) \/ RefuseByBind(u, n, a)
        PROVE  TasksNext \/ UNCHANGED taskVars
    <2>1. Block(a)
      BY <1>2 DEF RefuseByName, RefuseByBind
    <2>2. QED
      BY <2>1, BlockIsCall DEF TasksNext
  <1>3. ASSUME Terminate
        PROVE  TasksNext
    BY <1>3 DEF TasksNext
  <1>4. ASSUME PipelineStep
        PROVE  TasksNext
    BY <1>4 DEF PipelineStep, TasksNext
  <1>5. CASE UNCHANGED vars
    BY <1>5 DEF vars
  <1>6. QED
    BY <1>1, <1>2, <1>3, <1>4, <1>5 DEF CheckNext, BindCheckThrows, EndOfTable

LEMMA CheckInitially == CheckInit => TasksInit
  BY DEF CheckInit

\* What is proved of the pipeline holds below the thread: above all, every
\* rule it adds has its removal scheduled.
THEOREM CheckImplementsTasks == CheckSpec => TasksSpec
  BY CheckInitially, TasksSteps, PTL DEF CheckSpec, TasksSpec

-----------------------------------------------------------------------------
(* Type correctness.                                                       *)

TableTypeOK ==
  /\ DOMAIN binds \subseteq Users
  /\ \A u \in DOMAIN binds : binds[u] \in Expressions
  /\ allowed \subseteq Users \X Names
  /\ refused \subseteq Users \X Names

LEMMA TableInit == CheckInit => TableTypeOK
  BY WorkstationAssumption DEF CheckInit, TableTypeOK

\* A table is left as it was, or one user without a record gets its first.
LEMMA CreatedRecord ==
  ASSUME NEW u, NEW n, binds' = create_bind_record(binds, u, n)
  PROVE  \/ binds' = binds /\ (~AutoBind \/ u \in DOMAIN binds)
         \/ /\ AutoBind /\ u \notin DOMAIN binds
            /\ DOMAIN binds' = DOMAIN binds \cup {u} /\ binds'[u] = n
            /\ \A x \in DOMAIN binds : binds'[x] = binds[x]
  BY DEF create_bind_record, exists_bind_record, Bind

LEMMA TableStep ==
  ASSUME TableTypeOK, [CheckNext]_vars
  PROVE  TableTypeOK'
  <1> USE WorkstationAssumption DEF TableTypeOK
  <1>1. ASSUME NEW u \in Users, NEW n \in Names, AllowByName(u, n)
        PROVE  TableTypeOK'
    BY <1>1 DEF AllowByName, Allow
  <1>2. ASSUME NEW u \in Users, NEW n \in Names, NEW a, RefuseByName(u, n, a)
        PROVE  TableTypeOK'
    BY <1>2 DEF RefuseByName, Refuse
  <1>3. ASSUME NEW u \in Users, NEW n \in Names, NEW a,
               AllowByBind(u, n) \/ RefuseByBind(u, n, a)
        PROVE  TableTypeOK'
    <2>1. binds' = create_bind_record(binds, u, n)
      BY <1>3 DEF AllowByBind, RefuseByBind
    <2>2. DOMAIN binds' \subseteq Users /\ \A x \in DOMAIN binds' : binds'[x] \in Expressions
      BY <2>1, CreatedRecord
    <2>3. allowed' \subseteq Users \X Names /\ refused' \subseteq Users \X Names
      BY <1>3 DEF AllowByBind, RefuseByBind, Allow, Refuse
    <2>4. QED
      BY <2>2, <2>3
  <1>4. ASSUME binds' = ConfigBinds, allowed' = {}, refused' = {}
        PROVE  TableTypeOK'
    BY <1>4
  <1>5. CASE UNCHANGED checkVars
    BY <1>5 DEF checkVars
  <1>6. QED
    BY <1>1, <1>2, <1>3, <1>4, <1>5 DEF CheckNext, BindCheckThrows, EndOfTable, PipelineStep, vars

\* Every variable of the thread and of the pipeline keeps its type.
THEOREM CheckTypeCorrect == CheckSpec => []CheckTypeOK
  <1>1. CheckTypeOK <=> TasksTypeOK /\ TableTypeOK
    BY DEF CheckTypeOK, TableTypeOK
  <1>2. CheckSpec => []TableTypeOK
    BY TableInit, TableStep, PTL DEF CheckSpec
  <1>3. QED
    BY <1>1, <1>2, CheckImplementsTasks, TypeCorrect, PTL

-----------------------------------------------------------------------------
(* Verdicts and records last.                                              *)

\* A record is neither replaced nor removed while the program runs, whatever
\* logins come in (main.cpp:332-344, config.yaml:29).
THEOREM BindingsAreKept == CheckSpec => BindingsStay
  <1> DEFINE Kept == process' # "down" =>
                       \A u \in DOMAIN binds : u \in DOMAIN binds' /\ binds'[u] = binds[u]
  <1>1. [CheckNext]_vars => Kept
    <2> SUFFICES ASSUME [CheckNext]_vars, process' # "down"
                 PROVE  \A u \in DOMAIN binds : u \in DOMAIN binds' /\ binds'[u] = binds[u]
      OBVIOUS
    <2>1. ASSUME NEW u \in Users, NEW n \in Names, binds' = create_bind_record(binds, u, n)
          PROVE  \A x \in DOMAIN binds : x \in DOMAIN binds' /\ binds'[x] = binds[x]
      BY <2>1, CreatedRecord
    <2>2. \/ \E u \in Users, n \in Names : binds' = create_bind_record(binds, u, n)
          \/ binds' = binds
      BY DEF CheckNext, AllowByName, RefuseByName, AllowByBind, RefuseByBind, BindCheckThrows,
             EndOfTable, Terminate, PipelineStep, checkVars, vars
    <2>3. QED
      BY <2>1, <2>2
  <1>2. QED
    BY <1>1, PTL DEF CheckSpec, BindingsStay

\* Why a user was allowed or refused from a workstation, in terms that no later
\* login changes: a record decides for good, and a user without one keeps
\* having none.
Admits(u, n) ==
  \/ is_white_name(n)
  \/ ~is_block_name(n) /\ ~CheckBind
  \/ ~is_block_name(n) /\ check_bind_record(binds, u, n)

Rejects(u, n) ==
  /\ ~is_white_name(n)
  /\ \/ is_block_name(n)
     \/ /\ CheckBind /\ ~check_bind_record(binds, u, n)
        /\ u \in DOMAIN binds \/ ~AutoBind

VerdictInv ==
  /\ \A u \in Users, n \in Names : <<u, n>> \in allowed => Admits(u, n)
  /\ \A u \in Users, n \in Names : <<u, n>> \in refused => Rejects(u, n)

LEMMA VerdictInit == CheckInit => VerdictInv
  BY DEF CheckInit, VerdictInv

LEMMA VerdictsLast ==
  ASSUME NEW u \in Users, NEW n \in Names, binds' = create_bind_record(binds, u, n),
         NEW v \in Users, NEW m \in Names
  PROVE  (Admits(v, m) => Admits(v, m)') /\ (Rejects(v, m) => Rejects(v, m)')
  BY CreatedRecord DEF Admits, Rejects, check_bind_record

LEMMA VerdictStep ==
  ASSUME VerdictInv, [CheckNext]_vars
  PROVE  VerdictInv'
  <1> USE DEF VerdictInv
  <1>1. ASSUME NEW u \in Users, NEW n \in Names, AllowByName(u, n)
        PROVE  VerdictInv'
    <2>1. allowed' = allowed \cup {<<u, n>>} /\ UNCHANGED <<refused, binds>>
      BY <1>1 DEF AllowByName, Allow
    <2>2. Admits(u, n)
      BY <1>1 DEF AllowByName, Admits
    <2>3. \A v \in Users, m \in Names : (Admits(v, m)' <=> Admits(v, m)) /\ (Rejects(v, m)' <=> Rejects(v, m))
      BY <2>1 DEF Admits, Rejects
    <2>4. QED
      BY <2>1, <2>2, <2>3
  <1>2. ASSUME NEW u \in Users, NEW n \in Names, NEW a, RefuseByName(u, n, a)
        PROVE  VerdictInv'
    <2>1. refused' = refused \cup {<<u, n>>} /\ UNCHANGED <<allowed, binds>>
      BY <1>2 DEF RefuseByName, Refuse
    <2>2. Rejects(u, n)
      BY <1>2 DEF RefuseByName, Rejects
    <2>3. \A v \in Users, m \in Names : (Admits(v, m)' <=> Admits(v, m)) /\ (Rejects(v, m)' <=> Rejects(v, m))
      BY <2>1 DEF Admits, Rejects
    <2>4. QED
      BY <2>1, <2>2, <2>3
  <1>3. ASSUME NEW u \in Users, NEW n \in Names, AllowByBind(u, n)
        PROVE  VerdictInv'
    <2>1. /\ binds' = create_bind_record(binds, u, n)
          /\ allowed' = allowed \cup {<<u, n>>} /\ UNCHANGED refused
      BY <1>3 DEF AllowByBind, Allow
    <2>2. Admits(u, n)'
      BY <1>3 DEF AllowByBind, ToBindCheck, Admits
    <2>3. QED
      BY <2>1, <2>2, VerdictsLast
  <1>4. ASSUME NEW u \in Users, NEW n \in Names, NEW a, RefuseByBind(u, n, a)
        PROVE  VerdictInv'
    <2>1. /\ binds' = create_bind_record(binds, u, n)
          /\ refused' = refused \cup {<<u, n>>} /\ UNCHANGED allowed
      BY <1>4 DEF RefuseByBind, Refuse
    <2>2. Rejects(u, n)'
      BY <1>4, <2>1, CreatedRecord DEF RefuseByBind, ToBindCheck, Rejects
    <2>3. QED
      BY <2>1, <2>2, VerdictsLast
  <1>5. ASSUME allowed' = {}, refused' = {}
        PROVE  VerdictInv'
    BY <1>5
  <1>6. CASE UNCHANGED checkVars
    BY <1>6 DEF checkVars, Admits, Rejects
  <1>7. QED
    BY <1>1, <1>2, <1>3, <1>4, <1>5, <1>6 DEF CheckNext, BindCheckThrows, EndOfTable, PipelineStep, vars

\* No user is both allowed and refused from one workstation in a run of the
\* program (main.cpp:305-359).
THEOREM VerdictsAlwaysAgree == CheckSpec => []VerdictsAgree
  <1>1. TableTypeOK /\ VerdictInv => VerdictsAgree
    <2> SUFFICES ASSUME TableTypeOK, VerdictInv, NEW pair \in allowed \cap refused
                 PROVE  FALSE
      BY DEF VerdictsAgree
    <2>1. PICK u \in Users, n \in Names : pair = <<u, n>>
      BY DEF TableTypeOK
    <2>2. Admits(u, n) /\ Rejects(u, n)
      BY <2>1 DEF VerdictInv
    <2>3. QED
      BY <2>2 DEF Admits, Rejects
  <1>2. (TableTypeOK /\ VerdictInv) /\ [CheckNext]_vars => (TableTypeOK /\ VerdictInv)'
    BY TableStep, VerdictStep
  <1>3. QED
    BY <1>1, <1>2, TableInit, VerdictInit, PTL DEF CheckSpec

-----------------------------------------------------------------------------
(* What automatic binding achieves.                                        *)

\* The records that are not configured hold names.
NamesAreBound == \A u \in DOMAIN binds \ DOMAIN ConfigBinds : binds[u] \in Names

LEMMA NamesAreBoundStep ==
  ASSUME NamesAreBound, [CheckNext]_vars
  PROVE  NamesAreBound'
  <1> USE DEF NamesAreBound
  <1>1. ASSUME NEW u \in Users, NEW n \in Names, binds' = create_bind_record(binds, u, n)
        PROVE  NamesAreBound'
    BY <1>1, CreatedRecord
  <1>2. \/ \E u \in Users, n \in Names : binds' = create_bind_record(binds, u, n)
        \/ binds' = binds
        \/ binds' = ConfigBinds
    BY DEF CheckNext, AllowByName, RefuseByName, AllowByBind, RefuseByBind, BindCheckThrows,
           EndOfTable, PipelineStep, checkVars, vars
  <1>3. QED
    BY <1>1, <1>2

\* When no name, taken for an expression, is found in another name, automatic
\* binding does what its comment says: a user it has bound is allowed from one
\* workstation, apart from those on the whitelist (main.cpp:332-358,
\* config.yaml:28).  That names are searched for and not compared is the only
\* reason why it may fail.
THEOREM AutoBindWorksForUnlikeNames ==
  ASSUME \A e, n \in Names : <<e, n>> \in Matches => e = n
  PROVE  CheckSpec => []AutoBindBindsOneName
  <1>1. CheckInit => NamesAreBound
    BY DEF CheckInit, NamesAreBound
  <1>2. TableTypeOK /\ VerdictInv /\ NamesAreBound => AutoBindBindsOneName
    <2> SUFFICES ASSUME TableTypeOK, VerdictInv, NamesAreBound, CheckBind,
                        NEW u \in Users \ DOMAIN ConfigBinds,
                        NEW n \in Names \ WhiteNames, NEW m \in Names \ WhiteNames,
                        <<u, n>> \in allowed, <<u, m>> \in allowed
                 PROVE  n = m
      BY DEF AutoBindBindsOneName
    <2>1. check_bind_record(binds, u, n) /\ check_bind_record(binds, u, m)
      BY DEF VerdictInv, Admits, is_white_name
    <2>2. binds[u] \in Names
      BY <2>1 DEF check_bind_record, NamesAreBound
    <2>3. QED
      BY <2>1, <2>2 DEF check_bind_record
  <1>3. (TableTypeOK /\ VerdictInv /\ NamesAreBound) /\ [CheckNext]_vars
          => (TableTypeOK /\ VerdictInv /\ NamesAreBound)'
    BY TableStep, VerdictStep, NamesAreBoundStep
  <1>4. QED
    BY <1>1, <1>2, <1>3, TableInit, VerdictInit, PTL DEF CheckSpec

-----------------------------------------------------------------------------
(* Only addresses that may be blocked are.                                 *)

Blockable == Addresses \ Whitelist

\* Only a login from an address that may be blocked makes a call.
LEMMA CallsAreBlockable ==
  ASSUME [CheckNext]_vars, NEW t \in Threads, NEW a \in Addresses, NEW time \in BlockTimes,
         TasksTypeOK, CreateBlockTasks(t, a, time)
  PROVE  a \in Blockable
  <1>1. process = "running" /\ process' = "running" /\ pc[t] = "idle" /\ pc'[t] = "post" /\ task'[t].addr = a
    BY DEF CreateBlockTasks, TasksTypeOK
  <1>2. ASSUME NEW b \in Addresses \cup Invalid, Block(b)
        PROVE  a \in Blockable
    <2>1. ~UNCHANGED taskVars
      BY <1>1 DEF taskVars
    <2>2. PICK s \in BlockTimes : b \in Addresses \ Whitelist /\ CreateBlockTasks(LoginThread, b, s)
      BY <1>2, <2>1, BlockIsCall
    <2>3. t = LoginThread
      BY <1>1, <2>2 DEF CreateBlockTasks, TasksTypeOK
    <2>4. task'[LoginThread].addr = b
      BY <2>2, WorkstationAssumption DEF CreateBlockTasks, TasksTypeOK
    <2>5. QED
      BY <1>1, <2>2, <2>3, <2>4 DEF Blockable
  <1>3. ASSUME PipelineStep
        PROVE  FALSE
    BY <1>1, <1>3, WorkstationAssumption
       DEF PipelineStep, AsyncBlock, AsyncUnblock, Return, TimerExpires, IoStep, RunBlock, RunUnblock,
           Tick, Start, CleanupStep, RemoveLeftover, StartThreads, TasksTypeOK
  <1>4. QED
    BY <1>1, <1>2, <1>3
       DEF CheckNext, AllowByName, AllowByBind, RefuseByName, RefuseByBind, BindCheckThrows,
           EndOfTable, Terminate, taskVars, vars

\* No rule, queued or in the firewall, is for a whitelisted or malformed
\* address (main.cpp:178-189).
THEOREM OnlyBlockableIsBlocked == CheckSpec => []OnlyBlockable
  <1>1. TasksTypeOK /\ Only(Blockable) /\ [CheckNext]_vars => Only(Blockable)'
    BY TasksSteps, CallsAreBlockable, OnlyStep
  <1>2. Only(Blockable) => OnlyBlockable
    BY WorkstationAssumption DEF Only, Blockable, OnlyBlockable
  <1>3. CheckInit => Only(Blockable)
    BY CheckInitially, OnlyInit
  <1>4. QED
    BY <1>1, <1>2, <1>3, CheckImplementsTasks, TypeCorrect, PTL DEF CheckSpec

-----------------------------------------------------------------------------
\* What is proved of the pipeline holds below the thread, whatever it asks for:
\* no rule is left over for ever, no removal overtakes its block, no block is
\* lifted before its time although a refused login is blocked without a look at
\* the blocks its address has, and each lives the life BlockLifecycle gives it.
THEOREM CheckKeepsPipelinePromises ==
  CheckSpec => []NoOrphanRule /\ []BlockRunsFirst /\ StaysWhileTimed /\ ImplementsLifecycle
  BY CheckImplementsTasks, RulesAreLifted, BlocksRunFirst, BlocksStayWhileTimed,
     PipelineImplementsLifecycle, PTL
=============================================================================
