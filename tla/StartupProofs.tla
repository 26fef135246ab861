---------------------------- MODULE StartupProofs ----------------------------
(***************************************************************************)
(* Proofs about the named mutex and the start-up that uses it, for any     *)
(* number of instances, sessions and starts: what is proved of the mutex   *)
(* carries over to the start-up, and keeps the instances of one session    *)
(* apart that do not race for it.                                          *)
(***************************************************************************)
EXTENDS Startup, TLAPS

-----------------------------------------------------------------------------
(* The mutex by itself, as ApplicationMutex has it.                        *)

LEMMA MutexInvInit == MutexInit => MutexInv
  BY MutexAssumption DEF MutexInit, MutexInv, MutexTypeOK, HandlesMatch, Running

LEMMA MutexInvStep == MutexInv /\ [MutexNext]_mutexVars => MutexInv'
  <1> SUFFICES ASSUME MutexInv, [MutexNext]_mutexVars
               PROVE  MutexInv'
    OBVIOUS
  <1> USE MutexAssumption DEF MutexInv, MutexTypeOK, HandlesMatch, Running, Goto
  <1>1. ASSUME NEW p \in Instances, StartUp(p)
        PROVE  MutexInv'
    BY <1>1 DEF StartUp
  <1>2. ASSUME NEW p \in Instances, OpenExisting(p)
        PROVE  MutexInv'
    BY <1>2 DEF OpenExisting
  <1>3. ASSUME NEW p \in Instances, OpenDenied(p)
        PROVE  MutexInv'
    BY <1>3 DEF OpenDenied
  <1>4. ASSUME NEW p \in Instances, OpenMissing(p)
        PROVE  MutexInv'
    BY <1>4 DEF OpenMissing
  <1>5. ASSUME NEW p \in Instances, Create(p)
        PROVE  MutexInv'
    BY <1>5 DEF Create
  <1>6. ASSUME NEW p \in Instances, CreateDenied(p)
        PROVE  MutexInv'
    BY <1>6 DEF CreateDenied
  <1>7. ASSUME NEW p \in Instances, Leave(p)
        PROVE  MutexInv'
    BY <1>7 DEF Leave
  <1>8. ASSUME NEW p \in Instances, Die(p)
        PROVE  MutexInv'
    BY <1>8 DEF Die
  <1>9. CASE UNCHANGED mutexVars
    BY <1>9 DEF mutexVars
  <1>10. QED
    BY <1>1, <1>2, <1>3, <1>4, <1>5, <1>6, <1>7, <1>8, <1>9 DEF MutexNext

\* Every running instance has the mutex open, and only running and refused
\* instances have (application_mutex.cpp:25-32, 56-69).
THEOREM HandlesAlwaysMatch == MutexSpec => []HandlesMatch
  <1>1. MutexInv => HandlesMatch
    BY DEF MutexInv
  <1>2. QED
    BY <1>1, MutexInvInit, MutexInvStep, PTL DEF MutexSpec

\* An instance that looks for the mutex while another one of its session runs is
\* refused (application_mutex.cpp:61-69).
THEOREM LateStartersAreRefused == MutexSpec => LateStartersRefused
  <1> DEFINE Late == \A p, q \in Instances :
                       SameSession(p, q) /\ pc[p] = "opening" /\ pc[q] = "running"
                         => pc'[p] # "creating"
  <1>1. MutexInv /\ [MutexNext]_mutexVars => Late
    <2> SUFFICES ASSUME MutexInv, [MutexNext]_mutexVars,
                        NEW p \in Instances, NEW q \in Instances, SameSession(p, q),
                        pc[p] = "opening", pc[q] = "running", pc'[p] = "creating"
                 PROVE  FALSE
      OBVIOUS
    <2>1. Exists(p)
      BY DEF MutexInv, HandlesMatch, Running, Exists
    <2>2. PICK r \in Instances : \/ StartUp(r) \/ OpenExisting(r) \/ OpenDenied(r)
                                 \/ OpenMissing(r) \/ Create(r) \/ CreateDenied(r)
                                 \/ Leave(r) \/ Die(r)
      BY DEF MutexNext, mutexVars
    <2>3. ~OpenMissing(p)
      BY <2>1 DEF OpenMissing
    <2>4. r = p
      BY <2>2 DEF MutexInv, MutexTypeOK, Goto, StartUp, OpenExisting, OpenDenied, OpenMissing,
                  Create, CreateDenied, Leave, Die
    <2>5. QED
      BY <2>2, <2>3, <2>4 DEF MutexInv, MutexTypeOK, Goto, StartUp, OpenExisting, OpenDenied,
                        Create, CreateDenied, Leave, Die
  <1>2. QED
    BY <1>1, MutexInvInit, MutexInvStep, PTL DEF MutexSpec, LateStartersRefused

-----------------------------------------------------------------------------
(* Every step of the start-up is a step of the mutex, or leaves it alone.  *)

LEMMA EndOfInstance ==
  ASSUME NEW p \in Instances, EndProcess(p)
  PROVE  [MutexNext]_mutexVars
  BY DEF EndProcess, MutexNext

LEMMA MutexSteps == [StartupNext]_vars => [MutexNext]_mutexVars
  <1> SUFFICES ASSUME [StartupNext]_vars
               PROVE  [MutexNext]_mutexVars
    OBVIOUS
  <1>1. ASSUME NEW p \in Instances, CallLock(p)
        PROVE  [MutexNext]_mutexVars
    BY <1>1 DEF CallLock, MutexNext
  <1>2. ASSUME NEW p \in Instances, LockStep(p)
        PROVE  [MutexNext]_mutexVars
    BY <1>2 DEF LockStep, MutexNext
  <1>3. ASSUME NEW p \in Instances, GiveUp(p) \/ SubscribeFails(p) \/ EndProcess(p)
        PROVE  [MutexNext]_mutexVars
    BY <1>3, EndOfInstance DEF GiveUp, SubscribeFails
  <1>4. ASSUME NEW p \in Instances,
               \/ Launch(p) \/ CheckProgram(p) \/ ParseArguments(p) \/ LoadSection(p)
               \/ ConfigLoaded(p) \/ Locked(p) \/ PrepareFirewall(p) \/ CleanUp(p) \/ Join(p)
        PROVE  UNCHANGED mutexVars
    BY <1>4 DEF Launch, CheckProgram, ParseArguments, LoadSection, ConfigLoaded, Locked,
                PrepareFirewall, CleanUp, Join
  <1>5. ASSUME NEW p \in Instances, NEW t, StartThread(p, t) \/ Subscribe(p, t)
        PROVE  UNCHANGED mutexVars
    BY <1>5 DEF StartThread, Subscribe
  <1>6. ASSUME NEW p \in Instances, AddRule(p) \/ LiftRules(p)
        PROVE  UNCHANGED mutexVars
    BY <1>6 DEF AddRule, LiftRules
  <1>7. CASE UNCHANGED vars
    BY <1>7 DEF vars
  <1>8. QED
    BY <1>1, <1>2, <1>3, <1>4, <1>5, <1>6, <1>7 DEF StartupNext, MainStep, ThreadStep

\* main uses the mutex as ApplicationMutex has it (main.cpp:470-475), so that
\* what is proved of the mutex holds for the start-up.
THEOREM StartupImplementsMutex == StartupSpec => MutexSpec
  <1>1. StartupInit => MutexInit
    BY DEF StartupInit
  <1>2. QED
    BY <1>1, MutexSteps, PTL DEF StartupSpec, MutexSpec

-----------------------------------------------------------------------------
(* Typing.                                                                 *)

LEMMA SectionCount == Len(Sections) \in Nat
  BY DEF Sections

LEMMA StartupTypeInit == StartupInit => StartupTypeOK
  <1>1. MutexInit => MutexTypeOK
    BY MutexAssumption DEF MutexInit, MutexTypeOK
  <1>2. DefaultEnabled \in SUBSET EventThreads
    BY DEF DefaultEnabled, EventThreads
  <1>3. StartupInit => sections \in [Instances -> 0 .. Len(Sections)]
    BY SectionCount DEF StartupInit
  <1>4. QED
    BY <1>1, <1>2, <1>3 DEF StartupInit, StartupTypeOK

\* What the end of an instance does.
LEMMA EndEffect ==
  ASSUME StartupTypeOK, NEW p \in Instances, EndProcess(p)
  PROVE  /\ pc' = [pc EXCEPT ![p] = "out"]
         /\ handles' = handles \ {p} \/ (pc[p] = "out" /\ handles' = handles)
         /\ session' = session /\ starts' = starts
         /\ stage[p] # "out"
         /\ stage' = [stage EXCEPT ![p] = "out"]
         /\ sections' = [sections EXCEPT ![p] = 0]
         /\ enabled' = [enabled EXCEPT ![p] = DefaultEnabled]
         /\ threads' = [threads EXCEPT ![p] = {}]
         /\ watching' = [watching EXCEPT ![p] = {}]
         /\ blocking' = blocking \ {p}
         /\ leftover' \in BOOLEAN
         /\ met' = [q \in Instances |-> IF q = p THEN {} ELSE met[q] \ {p}]
  <1>1. pc' = [pc EXCEPT ![p] = "out"] /\ session' = session /\ starts' = starts
    BY DEF EndProcess, Die, Leave, Goto, mutexVars, StartupTypeOK, MutexTypeOK
  <1>2. handles' = handles \ {p} \/ (pc[p] = "out" /\ handles' = handles)
    BY DEF EndProcess, Die, Leave, mutexVars
  <1>3. leftover' \in BOOLEAN
    BY DEF EndProcess, StartupTypeOK
  <1>4. QED
    BY <1>1, <1>2, <1>3 DEF EndProcess

LEMMA StartupTypeStep ==
  ASSUME StartupTypeOK, MutexTypeOK', [StartupNext]_vars
  PROVE  StartupTypeOK'
  <1> USE SectionCount DEF StartupTypeOK, EventThreads, HoldsLock, Proceed
  <1>1. ASSUME NEW p \in Instances, Launch(p) \/ CheckProgram(p) \/ ParseArguments(p)
        PROVE  StartupTypeOK'
    BY <1>1 DEF Launch, CheckProgram, ParseArguments, ruleVars
  <1>2. ASSUME NEW p \in Instances, LoadSection(p)
        PROVE  StartupTypeOK'
    <2>1. sections' \in [Instances -> 0 .. Len(Sections)]
      BY <1>2 DEF LoadSection
    <2>2. PICK asked \in SUBSET EventThreads :
            enabled' = [enabled EXCEPT ![p] =
              CASE Sections[sections'[p]] = "failban" -> (@ \ {"failed"}) \cup (asked \cap {"failed"})
                [] Sections[sections'[p]] = "workstation_name" ->
                     (@ \ {"succeed"}) \cup (asked \cap {"succeed"})
                [] OTHER -> @]
      BY <1>2 DEF LoadSection
    <2>3. enabled' \in [Instances -> SUBSET EventThreads]
      BY <2>2
    <2>4. QED
      BY <1>2, <2>1, <2>3 DEF LoadSection, ruleVars
  <1>3. ASSUME NEW p \in Instances, ConfigLoaded(p) \/ Locked(p)
        PROVE  StartupTypeOK'
    BY <1>3 DEF ConfigLoaded, Locked, ruleVars
  <1>4. ASSUME NEW p \in Instances, CallLock(p)
        PROVE  StartupTypeOK'
    BY <1>4 DEF CallLock, mainVars, ruleVars, Running
  <1>5. ASSUME NEW p \in Instances, LockStep(p)
        PROVE  StartupTypeOK'
    BY <1>5 DEF LockStep, mainVars, ruleVars
  <1>6. ASSUME NEW p \in Instances, PrepareFirewall(p) \/ Join(p)
        PROVE  StartupTypeOK'
    BY <1>6 DEF PrepareFirewall, Join, ruleVars
  <1>7. ASSUME NEW p \in Instances, CleanUp(p)
        PROVE  StartupTypeOK'
    BY <1>7 DEF CleanUp, ruleVars
  <1>8. ASSUME NEW p \in Instances, NEW t, StartThread(p, t)
        PROVE  StartupTypeOK'
    BY <1>8 DEF StartThread, ruleVars
  <1>9. ASSUME NEW p \in Instances, NEW t, Subscribe(p, t)
        PROVE  StartupTypeOK'
    BY <1>9 DEF Subscribe, ruleVars
  <1>10. ASSUME NEW p \in Instances, AddRule(p) \/ LiftRules(p)
         PROVE  StartupTypeOK'
    BY <1>10 DEF AddRule, LiftRules, mainVars
  <1>11. ASSUME NEW p \in Instances, EndProcess(p)
         PROVE  StartupTypeOK'
    <2>1. DefaultEnabled \in SUBSET EventThreads
      BY DEF DefaultEnabled
    <2>2. sections' \in [Instances -> 0 .. Len(Sections)]
      <3>1. sections' = [sections EXCEPT ![p] = 0]
        BY <1>11, EndEffect
      <3>2. 0 \in 0 .. Len(Sections)
        BY SMT
      <3>3. QED
        BY <3>1, <3>2
    <2>3. enabled' \in [Instances -> SUBSET EventThreads]
      BY <1>11, <2>1, EndEffect
    <2>4. met' \in [Instances -> SUBSET Instances]
      BY <1>11, EndEffect
    <2>5. QED
      BY <1>11, <2>2, <2>3, <2>4, EndEffect
  <1>12. CASE UNCHANGED vars
    BY <1>12 DEF vars, mainVars, ruleVars
  <1>13. QED
    BY <1>1, <1>2, <1>3, <1>4, <1>5, <1>6, <1>7, <1>8, <1>9, <1>10, <1>11, <1>12
       DEF StartupNext, MainStep, ThreadStep, GiveUp, SubscribeFails
-----------------------------------------------------------------------------
(* The inductive invariant.                                                *)

\* Which stage goes with which state of the mutex, and what is loaded by then.
StagesMatch ==
  \A p \in Instances :
    /\ pc[p] # "out" => stage[p] \in {"lock"} \cup HoldsLock
    /\ stage[p] \in HoldsLock => pc[p] = "running"
    /\ stage[p] \in {"lock"} \cup HoldsLock => sections[p] = Len(Sections)

\* Which threads run when.
ThreadsMatch ==
  \A p \in Instances :
    /\ threads[p] # {} => stage[p] \in {"threads", "running"}
    /\ threads[p] \subseteq {"io"} \cup enabled[p]
    /\ watching[p] \subseteq threads[p]
    /\ p \in blocking => stage[p] \in {"threads", "running"}

\* An instance past the open has met nobody of its session that is still running.
MetNobody ==
  \A p \in Instances :
    /\ met[p] \subseteq Running
    /\ pc[p] \in {"creating", "running"} => \A q \in met[p] : ~SameSession(p, q)

StartupInv == StartupTypeOK /\ HandlesMatch /\ StagesMatch /\ ThreadsMatch /\ MetNobody

LEMMA StartupInvInit == StartupInit => StartupInv
  <1>1. StartupInit => StartupTypeOK
    BY StartupTypeInit
  <1>2. StartupInit => HandlesMatch
    BY MutexInvInit DEF StartupInit, MutexInv
  <1>3. StartupInit => StagesMatch /\ ThreadsMatch /\ MetNobody
    BY DEF StartupInit, MutexInit, StagesMatch, ThreadsMatch, MetNobody, HoldsLock
  <1>4. QED
    BY <1>1, <1>2, <1>3 DEF StartupInv

LEMMA MatchStep ==
  ASSUME StartupInv, StartupTypeOK', [StartupNext]_vars
  PROVE  StagesMatch' /\ ThreadsMatch'
  <1> USE DEF StagesMatch, ThreadsMatch, HoldsLock, Proceed
  <1>0. StartupTypeOK /\ StagesMatch /\ ThreadsMatch
    BY DEF StartupInv
  <1>t. /\ pc \in [Instances -> {"out", "opening", "creating", "running", "refused"}]
        /\ stage \in [Instances -> {"out", "check", "arguments", "load", "lock"} \cup HoldsLock]
        /\ sections \in [Instances -> 0 .. Len(Sections)]
        /\ enabled \in [Instances -> SUBSET EventThreads]
        /\ threads \in [Instances -> SUBSET ({"io"} \cup EventThreads)]
        /\ watching \in [Instances -> SUBSET EventThreads]
    BY <1>0 DEF StartupTypeOK, MutexTypeOK
  <1> USE <1>0, <1>t
  <1>1. ASSUME NEW p \in Instances, Launch(p) \/ CheckProgram(p) \/ ParseArguments(p)
        PROVE  StagesMatch' /\ ThreadsMatch'
    BY <1>1 DEF Launch, CheckProgram, ParseArguments, ruleVars, mutexVars
  <1>2. ASSUME NEW p \in Instances, LoadSection(p)
        PROVE  StagesMatch' /\ ThreadsMatch'
    <2>1. /\ stage[p] = "load" /\ UNCHANGED <<mutexVars, stage, threads, watching, ruleVars>>
          /\ \A q \in Instances : q # p => sections'[q] = sections[q] /\ enabled'[q] = enabled[q]
      BY <1>2 DEF LoadSection
    <2>2. threads[p] = {}
      BY <2>1
    <2>3. QED
      BY <2>1, <2>2 DEF mutexVars, ruleVars
  <1>3. ASSUME NEW p \in Instances, ConfigLoaded(p)
        PROVE  StagesMatch' /\ ThreadsMatch'
    BY <1>3 DEF ConfigLoaded, ruleVars, mutexVars
  <1>4. ASSUME NEW p \in Instances, CallLock(p)
        PROVE  StagesMatch' /\ ThreadsMatch'
    BY <1>4 DEF CallLock, StartUp, Goto, mainVars, ruleVars
  <1>5. ASSUME NEW p \in Instances, LockStep(p)
        PROVE  StagesMatch' /\ ThreadsMatch'
    BY <1>5 DEF LockStep, OpenExisting, OpenDenied, OpenMissing, Create, CreateDenied, Goto,
                mainVars, ruleVars
  <1>6. ASSUME NEW p \in Instances, Locked(p) \/ PrepareFirewall(p) \/ Join(p)
        PROVE  StagesMatch' /\ ThreadsMatch'
    BY <1>6 DEF Locked, PrepareFirewall, Join, ruleVars, mutexVars
  <1>7. ASSUME NEW p \in Instances, CleanUp(p)
        PROVE  StagesMatch' /\ ThreadsMatch'
    BY <1>7 DEF CleanUp, ruleVars, mutexVars
  <1>8. ASSUME NEW p \in Instances, NEW t, StartThread(p, t)
        PROVE  StagesMatch' /\ ThreadsMatch'
    BY <1>8 DEF StartThread, ruleVars, mutexVars
  <1>9. ASSUME NEW p \in Instances, NEW t, Subscribe(p, t)
        PROVE  StagesMatch' /\ ThreadsMatch'
    BY <1>9 DEF Subscribe, ruleVars, mutexVars
  <1>10. ASSUME NEW p \in Instances, AddRule(p)
         PROVE  StagesMatch' /\ ThreadsMatch'
    <2>1. threads[p] # {}
      BY <1>10 DEF AddRule
    <2>2. QED
      BY <1>10, <2>1 DEF AddRule, mainVars, mutexVars
  <1>11. ASSUME NEW p \in Instances, LiftRules(p)
         PROVE  StagesMatch' /\ ThreadsMatch'
    BY <1>11 DEF LiftRules, mainVars, mutexVars
  <1>12. ASSUME NEW p \in Instances, EndProcess(p)
         PROVE  StagesMatch' /\ ThreadsMatch'
    <2>1. /\ pc'[p] = "out" /\ stage'[p] = "out" /\ threads'[p] = {} /\ watching'[p] = {}
          /\ blocking' = blocking \ {p}
      BY <1>12, EndEffect
    <2>2. \A q \in Instances : q # p =>
            /\ pc'[q] = pc[q] /\ stage'[q] = stage[q] /\ sections'[q] = sections[q]
            /\ enabled'[q] = enabled[q] /\ threads'[q] = threads[q] /\ watching'[q] = watching[q]
      BY <1>12, EndEffect
    <2>3. QED
      BY <2>1, <2>2
  <1>13. CASE UNCHANGED vars
    BY <1>13 DEF vars, mainVars, ruleVars, mutexVars
  <1>14. QED
    BY <1>1, <1>2, <1>3, <1>4, <1>5, <1>6, <1>7, <1>8, <1>9, <1>10, <1>11, <1>12, <1>13
       DEF StartupNext, MainStep, ThreadStep, GiveUp, SubscribeFails

LEMMA MetStep ==
  ASSUME StartupInv, [StartupNext]_vars
  PROVE  MetNobody'
  <1> USE DEF MetNobody, Running, SameSession
  <1>0. StartupTypeOK /\ HandlesMatch /\ MetNobody
    BY DEF StartupInv
  <1>t. /\ pc \in [Instances -> {"out", "opening", "creating", "running", "refused"}]
        /\ met \in [Instances -> SUBSET Instances]
    BY <1>0 DEF StartupTypeOK, MutexTypeOK
  <1> USE <1>0, <1>t
  <1>1. ASSUME NEW p \in Instances, CallLock(p)
        PROVE  MetNobody'
    BY <1>1 DEF CallLock, StartUp, Goto
  <1>2. ASSUME NEW p \in Instances, LockStep(p)
        PROVE  MetNobody'
    <2>1. CASE OpenMissing(p)
      <3>1. \A q \in Running : ~SameSession(p, q)
        BY <2>1 DEF OpenMissing, Exists, HandlesMatch
      <3>2. QED
        BY <1>2, <2>1, <3>1 DEF LockStep, OpenMissing, Goto
    <2>2. CASE OpenExisting(p) \/ OpenDenied(p) \/ Create(p) \/ CreateDenied(p)
      BY <1>2, <2>2 DEF LockStep, OpenExisting, OpenDenied, Create, CreateDenied, Goto
    <2>3. QED
      BY <1>2, <2>1, <2>2 DEF LockStep
  <1>3. ASSUME NEW p \in Instances, EndProcess(p)
        PROVE  MetNobody'
    BY <1>3, EndEffect
  <1>4. ASSUME UNCHANGED <<session, pc, met>>
        PROVE  MetNobody'
    BY <1>4
  <1>5. ASSUME NEW p \in Instances,
               \/ Launch(p) \/ CheckProgram(p) \/ ParseArguments(p) \/ LoadSection(p)
               \/ ConfigLoaded(p) \/ Locked(p) \/ PrepareFirewall(p) \/ CleanUp(p) \/ Join(p)
               \/ AddRule(p) \/ LiftRules(p)
        PROVE  UNCHANGED <<session, pc, met>>
    BY <1>5 DEF Launch, CheckProgram, ParseArguments, LoadSection, ConfigLoaded, Locked,
                PrepareFirewall, CleanUp, Join, AddRule, LiftRules, mutexVars
  <1>6. ASSUME NEW p \in Instances, NEW t, StartThread(p, t) \/ Subscribe(p, t)
        PROVE  UNCHANGED <<session, pc, met>>
    BY <1>6 DEF StartThread, Subscribe, mutexVars
  <1>7. CASE UNCHANGED vars
    BY <1>7 DEF vars, mutexVars
  <1>8. QED
    BY <1>1, <1>2, <1>3, <1>4, <1>5, <1>6, <1>7
       DEF StartupNext, MainStep, ThreadStep, GiveUp, SubscribeFails

LEMMA StartupInvStep == StartupInv /\ [StartupNext]_vars => StartupInv'
  <1> SUFFICES ASSUME StartupInv, [StartupNext]_vars
               PROVE  StartupInv'
    OBVIOUS
  <1>1. MutexInv
    BY DEF StartupInv, StartupTypeOK, MutexInv
  <1>2. MutexInv'
    BY <1>1, MutexSteps, MutexInvStep
  <1>3. StartupTypeOK'
    BY <1>2, StartupTypeStep DEF StartupInv, MutexInv
  <1>4. StagesMatch' /\ ThreadsMatch'
    BY <1>3, MatchStep
  <1>5. MetNobody'
    BY MetStep
  <1>6. QED
    BY <1>2, <1>3, <1>4, <1>5 DEF StartupInv, MutexInv

\* The inductive invariant of the start-up; the theorems that follow rest on it.
THEOREM StartupInvariant == StartupSpec => []StartupInv
  BY StartupInvInit, StartupInvStep, PTL DEF StartupSpec

\* Every variable keeps its type, for every value of the constants.
THEOREM StartupTypeCorrect == StartupSpec => []StartupTypeOK
  <1>1. StartupInv => StartupTypeOK
    BY DEF StartupInv
  <1>2. QED
    BY <1>1, StartupInvariant, PTL

\* No thread ever runs on half a configuration, nor one the configuration does
\* not ask for (application_config.cpp:194-270, main.cpp:438-441, 508-521).
THEOREM AlwaysAsConfigured == StartupSpec => []RunsAsConfigured
  <1>1. StartupInv => RunsAsConfigured
    BY DEF StartupInv, StagesMatch, ThreadsMatch, HoldsLock, RunsAsConfigured
  <1>2. QED
    BY <1>1, StartupInvariant, PTL

\* What comes after lock is only ever done by an instance that has the mutex
\* open (main.cpp:470-475).
THEOREM AlwaysUnderMutex == StartupSpec => []EditsUnderMutex
  <1>1. StartupInv => EditsUnderMutex
    BY DEF StartupInv, StagesMatch, ThreadsMatch, HandlesMatch, Running, HoldsLock, EditsUnderMutex
  <1>2. QED
    BY <1>1, StartupInvariant, PTL

\* Two instances of a session that run together raced for its mutex
\* (application_mutex.cpp:61-69).
THEOREM RunningTogetherTakesARace == StartupSpec => []OnlyRacersRunTogether
  <1>1. StartupInv => OnlyRacersRunTogether
    BY DEF StartupInv, MetNobody, Running, OnlyRacersRunTogether
  <1>2. QED
    BY <1>1, StartupInvariant, PTL

-----------------------------------------------------------------------------
(* Starts that do not overlap.                                             *)

\* An instance that creates the mutex, or has got it, is alone in that in its
\* session.
OneGoesOn ==
  \A p, q \in Instances :
    SameSession(p, q) /\ pc[p] \in {"creating", "running"} /\ pc[q] \in {"creating", "running"}
      => p = q

LEMMA OneGoesOnStep ==
  ASSUME StartupTypeOK, HandlesMatch, OneAtALock, OneGoesOn, [StartupNext]_vars
  PROVE  OneGoesOn'
  <1> USE DEF SameSession
  <1>t. pc \in [Instances -> {"out", "opening", "creating", "running", "refused"}]
    BY DEF StartupTypeOK, MutexTypeOK
  <1>1. ASSUME NEW p \in Instances, OpenMissing(p)
        PROVE  OneGoesOn'
    <2>1. /\ pc[p] = "opening" /\ pc' = [pc EXCEPT ![p] = "creating"]
          /\ session' = session /\ \A q \in Running : ~SameSession(p, q)
      BY <1>1 DEF OpenMissing, Goto, Exists, HandlesMatch
    <2>2. \A q \in Instances : SameSession(p, q) => pc[q] \notin {"creating", "running"}
      BY <2>1 DEF OneAtALock, Running
    <2>3. QED
      BY <1>t, <2>1, <2>2 DEF OneGoesOn
  <1>2. ASSUME NEW p \in Instances, Create(p)
        PROVE  OneGoesOn'
    BY <1>t, <1>2 DEF Create, Goto, OneGoesOn
  <1>3. ASSUME NEW p \in Instances,
               \/ StartUp(p) \/ OpenExisting(p) \/ OpenDenied(p) \/ CreateDenied(p)
               \/ Leave(p) \/ Die(p)
        PROVE  OneGoesOn'
    BY <1>t, <1>3 DEF StartUp, OpenExisting, OpenDenied, CreateDenied, Leave, Die, Goto, OneGoesOn
  <1>4. CASE UNCHANGED mutexVars
    BY <1>4 DEF mutexVars, OneGoesOn
  <1>5. QED
    BY <1>1, <1>2, <1>3, <1>4, MutexSteps DEF MutexNext

\* In a single session, and as long as no two instances carry out lock at the
\* same time, what the comment in main says is true: no clean-up takes the rules
\* of another instance that runs (main.cpp:469-494).
THEOREM NoInterferenceWithoutRaces ==
  ASSUME \A s, t \in Sessions : s = t
  PROVE  StartupSpec /\ []OneAtALock => NoInterference
  <1> DEFINE Harmless == \A p, q \in Instances :
               stage[p] = "cleanup" /\ stage'[p] = "threads" /\ p # q /\ q \in blocking =>
                 q \in blocking'
  <1>1. StartupInit => OneGoesOn
    BY DEF StartupInit, MutexInit, OneGoesOn
  <1>2. StartupInv /\ OneAtALock /\ OneGoesOn /\ [StartupNext]_vars => OneGoesOn'
    BY OneGoesOnStep DEF StartupInv
  <1>3. StartupInv /\ OneGoesOn => Harmless
    <2>1. StartupInv => \A p, q \in Instances : SameSession(p, q)
      BY DEF StartupInv, StartupTypeOK, MutexTypeOK, SameSession
    <2>2. QED
      BY <2>1 DEF StartupInv, StagesMatch, ThreadsMatch, HoldsLock, OneGoesOn
  <1>4. QED
    BY <1>1, <1>2, <1>3, StartupInvariant, PTL DEF StartupSpec, NoInterference
=============================================================================
