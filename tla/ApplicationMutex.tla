-------------------------- MODULE ApplicationMutex --------------------------
(***************************************************************************)
(* ApplicationMutex::lock as main uses it to keep a second RDPBlocker from *)
(* running.  The named kernel mutex exists while some process has a handle *)
(* to it.  lock opens the mutex to see whether it exists, and creates it   *)
(* when it does not; the two calls are separate steps.  Nobody ever waits  *)
(* for or owns the mutex: only its existence counts.  Its name has no      *)
(* Global\ in front, so there is one mutex for each Windows session: that  *)
(* of the service and those of the users who are logged in.                *)
(***************************************************************************)
EXTENDS Integers, FiniteSets

CONSTANTS
  Instances,   \* processes started from RDPBlocker.exe
  Sessions,    \* the Windows sessions they may be started in
  MayDeny,     \* OpenMutexW and CreateMutexW may fail for other reasons
  MaxStarts    \* bound on the number of starts

ASSUME MutexAssumption == MayDeny \in BOOLEAN /\ MaxStarts \in Nat

VARIABLES
  session,  \* the session of each instance, which never changes
  pc,       \* "out", "opening", "creating", "running" or "refused"
  handles,  \* the instances whose m_handle is an open handle to their session's mutex
  starts    \* number of starts so far

mutexVars == <<session, pc, handles, starts>>

SameSession(p, q) == session[p] = session[q]

\* The mutex of the session of p exists.
Exists(p) == \E q \in handles : SameSession(p, q)

Running == {p \in Instances : pc[p] = "running"}
Goto(p, there) == pc' = [pc EXCEPT ![p] = there]

MutexInit ==
  /\ session \in [Instances -> Sessions]
  /\ pc = [p \in Instances |-> "out"]
  /\ handles = {}
  /\ starts = 0

-----------------------------------------------------------------------------
\* A faulty variant, used to validate the properties: every failure of OpenMutexW
\* is taken for "no such mutex".
CreateWhenDenied(p) ==
  /\ pc[p] = "opening"
  /\ MayDeny
  /\ Goto(p, "creating")
  /\ UNCHANGED <<session, handles, starts>>

-----------------------------------------------------------------------------
(* main: one lock call, then run or return                                 *)

StartUp(p) ==
  /\ pc[p] = "out"
  /\ starts < MaxStarts
  /\ starts' = starts + 1
  /\ Goto(p, "opening")
  /\ UNCHANGED <<session, handles>>

\* is_exist: OpenMutexW succeeds, lock returns false with the handle open.
OpenExisting(p) ==
  /\ pc[p] = "opening"
  /\ Exists(p)
  /\ handles' = handles \cup {p}
  /\ Goto(p, "refused")
  /\ UNCHANGED <<session, starts>>

\* is_exist: OpenMutexW fails, but not with ERROR_FILE_NOT_FOUND, whether the
\* mutex exists or not.
OpenDenied(p) ==
  /\ pc[p] = "opening"
  /\ MayDeny
  /\ Goto(p, "refused")
  /\ UNCHANGED <<session, handles, starts>>

\* is_exist: OpenMutexW fails with ERROR_FILE_NOT_FOUND.
OpenMissing(p) ==
  /\ pc[p] = "opening"
  /\ ~Exists(p)
  /\ Goto(p, "creating")
  /\ UNCHANGED <<session, handles, starts>>

\* create: CreateMutexW makes the mutex or opens the one that exists by now;
\* ERROR_ALREADY_EXISTS is not looked at.
Create(p) ==
  /\ pc[p] = "creating"
  /\ handles' = handles \cup {p}
  /\ Goto(p, "running")
  /\ UNCHANGED <<session, starts>>

\* create: CreateMutexW returns NULL and lock returns false.
CreateDenied(p) ==
  /\ pc[p] = "creating"
  /\ MayDeny
  /\ Goto(p, "refused")
  /\ UNCHANGED <<session, handles, starts>>

\* main returns: the destructor closes the handle.
Leave(p) ==
  /\ pc[p] = "refused"
  /\ Goto(p, "out")
  /\ handles' = handles \ {p}
  /\ UNCHANGED <<session, starts>>

\* A process ends at any time; the system closes its handles.
Die(p) ==
  /\ pc[p] \in {"opening", "creating", "running"}
  /\ Goto(p, "out")
  /\ handles' = handles \ {p}
  /\ UNCHANGED <<session, starts>>

MutexNext ==
  \E p \in Instances :
    \/ StartUp(p)
    \/ OpenExisting(p) \/ OpenDenied(p) \/ OpenMissing(p)
    \/ Create(p) \/ CreateDenied(p)
    \/ Leave(p) \/ Die(p)

MutexSpec == MutexInit /\ [][MutexNext]_mutexVars

-----------------------------------------------------------------------------
(* Properties.                                                             *)

\* Every variable keeps its type.
MutexTypeOK ==
  /\ session \in [Instances -> Sessions]
  /\ pc \in [Instances -> {"out", "opening", "creating", "running", "refused"}]
  /\ handles \subseteq Instances
  /\ starts \in 0 .. MaxStarts

\* The mutex exists exactly as long as somebody may need it: every running
\* instance has it open, and an instance that is gone, or has yet to decide,
\* has not (application_mutex.cpp:25-32, 56-59).
HandlesMatch ==
  /\ Running \subseteq handles
  /\ \A p \in handles : pc[p] \in {"running", "refused"}

\* The invariant the proofs rest on.
MutexInv == MutexTypeOK /\ HandlesMatch

\* An instance started while another one of its session runs, and that goes on
\* running, is refused: it never gets past the open (application_mutex.cpp:61-69).
LateStartersRefused ==
  [][\A p, q \in Instances :
       SameSession(p, q) /\ pc[p] = "opening" /\ pc[q] = "running"
         => pc'[p] # "creating"]_mutexVars
=============================================================================
