-------------------------- MODULE WorkstationCheck --------------------------
(***************************************************************************)
(* The successful-login thread of RDPBlocker                               *)
(* (process_rdp_auth_succeed_event) on top of the blocking pipeline: the   *)
(* workstation name of a network logon is looked up in the whitelist, in   *)
(* the blocklist and in the bind table, and the remote address of a login  *)
(* that is not allowed is blocked.  The bind table holds expressions; a    *)
(* user without one may be bound to the name of its first workstation,     *)
(* which from then on is used as an expression.  The table grows in        *)
(* memory only and starts again from the configuration.                    *)
(***************************************************************************)
EXTENDS BlockTasks

CONSTANTS
  LoginThread,   \* the event thread that handles successful logins
  Users,         \* TargetUserName of an event
  Names,         \* WorkstationName of an event
  Expressions,   \* regular expressions of the bind table, names included
  Matches,       \* pairs <<e, n>>: a search for expression e in name n succeeds
  Malformed,     \* expressions boost::regex rejects with an exception
  WhiteNames, BlockNames,   \* m_whitelist and m_blocklist
  ConfigBinds,   \* user_bind of the configuration
  CheckBind, AutoBind,      \* m_check_bind and m_auto_bind
  Whitelist,     \* addresses some IP whitelist expression matches
  Invalid        \* values of IpAddress that are no address

ASSUME WorkstationAssumption ==
  /\ LoginThread \in Threads
  /\ Names \subseteq Expressions
  /\ Malformed \subseteq Expressions
  /\ Matches \subseteq (Expressions \ Malformed) \X Names
  /\ DOMAIN ConfigBinds \subseteq Users
  /\ \A u \in DOMAIN ConfigBinds : ConfigBinds[u] \in Expressions
  /\ CheckBind \in BOOLEAN /\ AutoBind \in BOOLEAN
  /\ Whitelist \subseteq Addresses
  /\ Invalid \cap Addresses = {}

VARIABLES
  binds,     \* m_bind_table
  allowed,   \* history: the <<user, name>> pairs allowed in this run
  refused    \* history: the <<user, name>> pairs refused in this run

checkVars == <<binds, allowed, refused>>
vars == <<taskVars, checkVars>>

is_white_name(n) == n \in WhiteNames
is_block_name(n) == n \in BlockNames
exists_bind_record(table, u) == u \in DOMAIN table
Bind(table, u, n) == [x \in DOMAIN table \cup {u} |-> IF x = u THEN n ELSE table[x]]

check_bind_record(table, u, n) == u \in DOMAIN table /\ <<table[u], n>> \in Matches

\* Faulty variants, used to validate the properties.

\* A user is bound anew to any workstation its record does not match.
RebindOnMismatch(table, u, n) ==
  IF AutoBind /\ ~check_bind_record(table, u, n) THEN Bind(table, u, n) ELSE table

\* The table is emptied of a user that logs in from a different workstation.
UnbindOnMismatch(table, u, n) ==
  IF exists_bind_record(table, u) /\ ~check_bind_record(table, u, n)
  THEN [x \in DOMAIN table \ {u} |-> table[x]]
  ELSE IF AutoBind THEN Bind(table, u, n) ELSE table

\* The table an event is checked against: create_bind_record only for a user
\* without a record, when the configuration asks for it.
create_bind_record(table, u, n) ==
  IF AutoBind /\ ~exists_bind_record(table, u) THEN Bind(table, u, n) ELSE table

Waiting == process = "running" /\ pc[LoginThread] = "idle"
Allow(u, n) == allowed' = allowed \cup {<<u, n>>} /\ UNCHANGED refused
Refuse(u, n) == refused' = refused \cup {<<u, n>>} /\ UNCHANGED allowed

-----------------------------------------------------------------------------
\* A faulty variant: the IP whitelist is not asked on this path.
BlockAnyAddress(a) ==
  \/ a \in Invalid /\ UNCHANGED taskVars
  \/ /\ a \in Addresses
     /\ \E time \in BlockTimes :
          \/ CreateBlockTasks(LoginThread, a, time)
          \/ time <= 0 /\ UNCHANGED taskVars

\* block_remote_addresses_when_login_succeed: the address is checked, and
\* blocked without regard to blocks it has already.
Block(a) ==
  \/ a \in Invalid \cup Whitelist /\ UNCHANGED taskVars
  \/ /\ a \in Addresses \ Whitelist
     /\ \E time \in BlockTimes :
          \/ CreateBlockTasks(LoginThread, a, time)
          \/ time <= 0 /\ UNCHANGED taskVars

\* A network logon that carries an address; others are skipped.
AllowByName(u, n) ==
  /\ Waiting
  /\ is_white_name(n) \/ (~is_block_name(n) /\ ~CheckBind)
  /\ Allow(u, n)
  /\ UNCHANGED <<taskVars, binds>>

RefuseByName(u, n, a) ==
  /\ Waiting
  /\ ~is_white_name(n) /\ is_block_name(n)
  /\ Refuse(u, n)
  /\ Block(a)
  /\ UNCHANGED binds

ToBindCheck(n) == Waiting /\ ~is_white_name(n) /\ ~is_block_name(n) /\ CheckBind

AllowByBind(u, n) ==
  /\ ToBindCheck(n)
  /\ binds' = create_bind_record(binds, u, n)
  /\ ~(exists_bind_record(binds', u) /\ binds'[u] \in Malformed)
  /\ check_bind_record(binds', u, n)
  /\ Allow(u, n)
  /\ UNCHANGED taskVars

RefuseByBind(u, n, a) ==
  /\ ToBindCheck(n)
  /\ binds' = create_bind_record(binds, u, n)
  /\ ~(exists_bind_record(binds', u) /\ binds'[u] \in Malformed)
  /\ ~check_bind_record(binds', u, n)
  /\ Refuse(u, n)
  /\ Block(a)

\* boost::regex throws in check_bind_record: nothing catches the exception in
\* the event thread, and the process is terminated.
BindCheckThrows(u, n) ==
  /\ ToBindCheck(n)
  /\ LET table == create_bind_record(binds, u, n) IN
       exists_bind_record(table, u) /\ table[u] \in Malformed
  /\ Terminate
  /\ binds' = ConfigBinds
  /\ allowed' = {} /\ refused' = {}

-----------------------------------------------------------------------------
EndOfTable ==
  /\ Terminate
  /\ binds' = ConfigBinds
  /\ allowed' = {} /\ refused' = {}

PipelineStep ==
  /\ \/ AsyncBlock(LoginThread) \/ AsyncUnblock(LoginThread) \/ Return(LoginThread)
     \/ \E n \in RuleNames : TimerExpires(n)
     \/ IoStep
     \/ Tick
     \/ Start
     \/ CleanupStep
  /\ UNCHANGED checkVars

CheckInit ==
  /\ TasksInit
  /\ binds = ConfigBinds
  /\ allowed = {} /\ refused = {}

CheckNext ==
  \/ \E u \in Users, n \in Names : AllowByName(u, n) \/ AllowByBind(u, n) \/ BindCheckThrows(u, n)
  \/ \E u \in Users, n \in Names, a \in Addresses \cup Invalid :
       RefuseByName(u, n, a) \/ RefuseByBind(u, n, a)
  \/ PipelineStep
  \/ EndOfTable

CheckSpec == CheckInit /\ [][CheckNext]_vars

-----------------------------------------------------------------------------
(* Properties.                                                             *)

\* Every variable keeps its type.
CheckTypeOK ==
  /\ TasksTypeOK
  /\ DOMAIN binds \subseteq Users
  /\ \A u \in DOMAIN binds : binds[u] \in Expressions
  /\ allowed \subseteq Users \X Names
  /\ refused \subseteq Users \X Names

\* The verdict on a user at a workstation does not change while the program
\* runs, whatever other logins come in between (main.cpp:305-359).
VerdictsAgree == allowed \cap refused = {}

\* A record of the bind table, configured or made at the first login, is never
\* replaced while the program runs (main.cpp:332-344, config.yaml:29).
BindingsStay ==
  [][process' # "down" =>
       \A u \in DOMAIN binds : u \in DOMAIN binds' /\ binds'[u] = binds[u]]_vars

\* Neither the whitelist nor the check for an address can be got around: no
\* rule, queued or in the firewall, is for a whitelisted or malformed address
\* (main.cpp:178-189).
OnlyBlockable ==
  /\ \A r \in rules : r.addr \notin Whitelist \cup Invalid
  /\ \A i \in DOMAIN handlers :
       handlers[i].op = "block" => handlers[i].addr \notin Whitelist \cup Invalid

\* "Automatically bind the workstation name at the first login"
\* (config.yaml:28): a user bound that way is allowed from one workstation,
\* apart from those on the whitelist.
AutoBindBindsOneName ==
  \A u \in Users \ DOMAIN ConfigBinds, n, m \in Names \ WhiteNames :
    CheckBind /\ <<u, n>> \in allowed /\ <<u, m>> \in allowed => n = m
=============================================================================
