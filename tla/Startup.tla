------------------------------- MODULE Startup -------------------------------
(***************************************************************************)
(* main of RDPBlocker, run by several instances: the self check, the       *)
(* arguments, the configuration file, the process mutex, COM, the firewall *)
(* check, the clean-up, the io thread and the event threads with their     *)
(* subscriptions.  The mutex has to keep instances apart because their     *)
(* clean-ups remove every rule with the prefix, whoever made it: the       *)
(* firewall is one for the whole system, the mutex is one for a session.   *)
(***************************************************************************)
EXTENDS ApplicationMutex, Sequences

VARIABLES
  stage,      \* how far main of each instance has come
  sections,   \* the number of sections load_config_file has taken over
  enabled,    \* the event threads that g_config asks for
  threads,    \* the threads that were started
  watching,   \* the event threads whose Subscribe succeeded
  blocking,   \* instances with rules of their present run in the firewall
  leftover,   \* rules of runs that ended are in the firewall
  met         \* history: who was running when an instance called lock, and still is

mainVars == <<stage, sections, enabled, threads, watching>>
ruleVars == <<blocking, leftover>>
vars == <<mutexVars, mainVars, ruleVars, met>>

EventThreads == {"failed", "succeed"}
Sections == <<"block", "failban", "workstation_name", "log", "IP_Address">>

\* g_config before anything is loaded: m_enable(true), m_enable_check(false).
DefaultEnabled == {"failed"}

Proceed(p, from, to) == stage[p] = from /\ stage' = [stage EXCEPT ![p] = to]

StartupInit ==
  /\ MutexInit
  /\ stage = [p \in Instances |-> "out"]
  /\ sections = [p \in Instances |-> 0]
  /\ enabled = [p \in Instances |-> DefaultEnabled]
  /\ threads = [p \in Instances |-> {}]
  /\ watching = [p \in Instances |-> {}]
  /\ blocking = {} /\ leftover = FALSE
  /\ met = [p \in Instances |-> {}]

-----------------------------------------------------------------------------
\* The process of p ends: its memory goes, its rules stay, and the system
\* closes its handle if no destructor did.
EndProcess(p) ==
  /\ stage[p] # "out"
  /\ Die(p) \/ Leave(p) \/ (pc[p] = "out" /\ UNCHANGED mutexVars)
  /\ stage' = [stage EXCEPT ![p] = "out"]
  /\ sections' = [sections EXCEPT ![p] = 0]
  /\ enabled' = [enabled EXCEPT ![p] = DefaultEnabled]
  /\ threads' = [threads EXCEPT ![p] = {}]
  /\ watching' = [watching EXCEPT ![p] = {}]
  /\ blocking' = blocking \ {p}
  /\ leftover' = (leftover \/ p \in blocking)
  /\ met' = [q \in Instances |-> IF q = p THEN {} ELSE met[q] \ {p}]

-----------------------------------------------------------------------------
(* Faulty variants, used to validate the properties.                       *)

\* An exception while loading is logged, and load_config_file returns true.
LoadedAnyway(p) ==
  /\ Proceed(p, "load", "lock")
  /\ UNCHANGED <<mutexVars, sections, enabled, threads, watching, ruleVars, met>>

\* An event thread whose Subscribe fails just returns.
SubscribeGivesUp(p) ==
  /\ \E t \in (threads[p] \cap EventThreads) \ watching[p] :
       threads' = [threads EXCEPT ![p] = @ \ {t}]
  /\ UNCHANGED <<mutexVars, stage, sections, enabled, watching, ruleVars, met>>

\* Every thread that was started is taken to listen.
SubscribeAll(p, t) ==
  /\ t \in (threads[p] \cap EventThreads) \ watching[p]
  /\ watching' = [watching EXCEPT ![p] = threads[p]]
  /\ UNCHANGED <<mutexVars, stage, sections, enabled, threads, ruleVars, met>>

\* main goes on when lock returns false.
LockIgnored(p) ==
  /\ pc[p] \in {"running", "refused"}
  /\ Proceed(p, "lock", "com")
  /\ UNCHANGED <<mutexVars, sections, enabled, threads, watching, ruleVars, met>>

-----------------------------------------------------------------------------
(* main                                                                    *)

Launch(p) ==
  /\ starts < MaxStarts
  /\ Proceed(p, "out", "check")
  /\ UNCHANGED <<mutexVars, sections, enabled, threads, watching, ruleVars, met>>

\* ensure_work_dir, check_program_file and initialize_global_logger
CheckProgram(p) ==
  /\ Proceed(p, "check", "arguments")
  /\ UNCHANGED <<mutexVars, sections, enabled, threads, watching, ruleVars, met>>

\* prase_argv: the arguments are sound and ask neither for help nor version.
ParseArguments(p) ==
  /\ Proceed(p, "arguments", "load")
  /\ UNCHANGED <<mutexVars, sections, enabled, threads, watching, ruleVars, met>>

\* load_config_file: one section after the other is written to g_config.
LoadSection(p) ==
  /\ stage[p] = "load"
  /\ sections[p] < Len(Sections)
  /\ sections' = [sections EXCEPT ![p] = @ + 1]
  /\ \E asked \in SUBSET EventThreads :
       enabled' = [enabled EXCEPT ![p] =
         CASE Sections[sections'[p]] = "failban" -> (@ \ {"failed"}) \cup (asked \cap {"failed"})
           [] Sections[sections'[p]] = "workstation_name" ->
                (@ \ {"succeed"}) \cup (asked \cap {"succeed"})
           [] OTHER -> @]
  /\ UNCHANGED <<mutexVars, stage, threads, watching, ruleVars, met>>

\* load_config_file returns true.
ConfigLoaded(p) ==
  /\ sections[p] = Len(Sections)
  /\ Proceed(p, "load", "lock")
  /\ UNCHANGED <<mutexVars, sections, enabled, threads, watching, ruleVars, met>>

\* app_mutex.lock is called.
CallLock(p) ==
  /\ stage[p] = "lock"
  /\ StartUp(p)
  /\ met' = [met EXCEPT ![p] = Running]
  /\ UNCHANGED <<mainVars, ruleVars>>

\* The steps of lock.
LockStep(p) ==
  /\ stage[p] = "lock"
  /\ OpenExisting(p) \/ OpenDenied(p) \/ OpenMissing(p) \/ Create(p) \/ CreateDenied(p)
  /\ UNCHANGED <<mainVars, ruleVars, met>>

\* lock returns true.
Locked(p) ==
  /\ pc[p] = "running"
  /\ Proceed(p, "lock", "com")
  /\ UNCHANGED <<mutexVars, sections, enabled, threads, watching, ruleVars, met>>

\* SystemComInitialize, then IsFireWallEnabled for some profile
PrepareFirewall(p) ==
  /\ Proceed(p, "com", "firewall") \/ Proceed(p, "firewall", "cleanup")
  /\ UNCHANGED <<mutexVars, sections, enabled, threads, watching, ruleVars, met>>

\* DeleteRulesByRegex(m_rule_prefix): whatever fails in it goes unnoticed and
\* leaves rules in place, and whose rules they are is not asked.
CleanUp(p) ==
  /\ Proceed(p, "cleanup", "threads")
  /\ \/ blocking' = {} /\ leftover' = FALSE
     \/ MayDeny /\ blocking' \in SUBSET blocking /\ leftover' \in {leftover, FALSE}
  /\ UNCHANGED <<mutexVars, sections, enabled, threads, watching, met>>

\* The io thread first, then the event threads that are enabled.
StartThread(p, t) ==
  /\ stage[p] = "threads"
  /\ t \in {"io"} \cup enabled[p] /\ t \notin threads[p]
  /\ t = "io" \/ "io" \in threads[p]
  /\ t = "succeed" /\ "failed" \in enabled[p] => "failed" \in threads[p]
  /\ threads' = [threads EXCEPT ![p] = @ \cup {t}]
  /\ UNCHANGED <<mutexVars, stage, sections, enabled, watching, ruleVars, met>>

\* main waits in io_thread.join.
Join(p) ==
  /\ threads[p] = {"io"} \cup enabled[p]
  /\ Proceed(p, "threads", "running")
  /\ UNCHANGED <<mutexVars, sections, enabled, threads, watching, ruleVars, met>>

\* main returns or calls std::exit: a failed check or logger, help, version or
\* wrong arguments, a configuration that cannot be read, parsed or compiled,
\* a lock that is refused, no COM, no firewall.
GiveUp(p) ==
  /\ \/ stage[p] \in {"check", "arguments", "load", "com", "firewall"}
     \/ pc[p] = "refused"
  /\ EndProcess(p)

-----------------------------------------------------------------------------
(* The event threads and the io thread.                                    *)

Subscribe(p, t) ==
  /\ t \in (threads[p] \cap EventThreads) \ watching[p]
  /\ watching' = [watching EXCEPT ![p] = @ \cup {t}]
  /\ UNCHANGED <<mutexVars, stage, sections, enabled, threads, ruleVars, met>>

\* Subscribe fails: the event thread calls std::exit, whatever the others do.
SubscribeFails(p) ==
  /\ (threads[p] \cap EventThreads) \ watching[p] # {}
  /\ EndProcess(p)

\* A login makes the instance block an address, and timers lift its blocks.
AddRule(p) ==
  /\ watching[p] # {}
  /\ p \notin blocking
  /\ blocking' = blocking \cup {p}
  /\ UNCHANGED <<mutexVars, mainVars, leftover, met>>

LiftRules(p) ==
  /\ p \in blocking
  /\ blocking' = blocking \ {p}
  /\ UNCHANGED <<mutexVars, mainVars, leftover, met>>

-----------------------------------------------------------------------------
MainStep(p) ==
  \/ CheckProgram(p) \/ ParseArguments(p) \/ LoadSection(p) \/ ConfigLoaded(p)
  \/ CallLock(p) \/ LockStep(p) \/ Locked(p)
  \/ PrepareFirewall(p) \/ CleanUp(p)
  \/ \E t \in {"io"} \cup EventThreads : StartThread(p, t)
  \/ Join(p)
  \/ GiveUp(p)

ThreadStep(p) == (\E t \in EventThreads : Subscribe(p, t)) \/ SubscribeFails(p)

StartupNext ==
  \E p \in Instances :
    Launch(p) \/ MainStep(p) \/ ThreadStep(p) \/ AddRule(p) \/ LiftRules(p) \/ EndProcess(p)

StartupSpec == StartupInit /\ [][StartupNext]_vars

\* The operating system schedules main and the threads it starts.  Nothing is
\* assumed of launches, of logins and of processes that are ended.
FairStartupSpec ==
  StartupSpec /\ \A p \in Instances : WF_vars(MainStep(p)) /\ WF_vars(ThreadStep(p))

-----------------------------------------------------------------------------
(* Properties.                                                             *)

HoldsLock == {"com", "firewall", "cleanup", "threads", "running"}

\* Every variable keeps its type.
StartupTypeOK ==
  /\ MutexTypeOK
  /\ stage \in [Instances -> {"out", "check", "arguments", "load", "lock"} \cup HoldsLock]
  /\ sections \in [Instances -> 0 .. Len(Sections)]
  /\ enabled \in [Instances -> SUBSET EventThreads]
  /\ threads \in [Instances -> SUBSET ({"io"} \cup EventThreads)]
  /\ watching \in [Instances -> SUBSET EventThreads]
  /\ blocking \subseteq Instances
  /\ leftover \in BOOLEAN
  /\ met \in [Instances -> SUBSET Instances]

\* No thread ever runs on a configuration that was read in part, and only the
\* event threads run that the whole configuration asks for, although
\* load_config_file writes to g_config section by section and stops at the
\* first error (application_config.cpp:194-270, main.cpp:438-441, 508-521).
RunsAsConfigured ==
  \A p \in Instances : threads[p] # {} =>
    sections[p] = Len(Sections) /\ threads[p] \subseteq {"io"} \cup enabled[p]

\* Main and the mutex go together: what comes after lock is only ever done by
\* an instance that holds the mutex open (main.cpp:470-475).
EditsUnderMutex ==
  \A p \in Instances :
    (stage[p] \in HoldsLock \/ p \in blocking) => p \in handles /\ pc[p] = "running"

\* Two instances of a session only ever run together when they raced for its
\* mutex: none runs together with one that was running already when it called
\* lock (application_mutex.cpp:61-69).
OnlyRacersRunTogether ==
  \A p, q \in Running : SameSession(p, q) => q \notin met[p]

\* What has to be true of the starts for the comment in main to hold in a single
\* session: never do two instances carry out lock at the same time.
OneAtALock ==
  \A p, q \in Instances :
    pc[p] \in {"opening", "creating"} /\ pc[q] \in {"opening", "creating"} => p = q

\* "Make sure that only one RDPBlocker runs in the system, so that they do not
\* disturb each other" (main.cpp:469): no clean-up takes the rules of another
\* instance that runs.
NoInterference ==
  [][\A p, q \in Instances :
       stage[p] = "cleanup" /\ stage'[p] = "threads" /\ p # q /\ q \in blocking =>
         q \in blocking']_vars

\* The same comment, for an instance that was running already when the other one
\* asked for the mutex: no race takes its rules, but a start in another session.
EarlierInstanceKeepsRules ==
  [][\A p, q \in Instances :
       stage[p] = "cleanup" /\ stage'[p] = "threads" /\ q \in met[p] \cap blocking =>
         q \in blocking']_vars

\* Every event thread the configuration asks for is listening in the end, or
\* the instance is gone: none runs on deaf (main.cpp:226-231, 272-277, 508-521).
AllListenOrNone ==
  \A p \in Instances, t \in EventThreads :
    (stage[p] = "threads" /\ t \in enabled[p]) ~> (t \in watching[p] \/ stage[p] = "out")
=============================================================================
