------------------------- MODULE FirewallController --------------------------
(***************************************************************************)
(* The functions of firewall_controller that edit the Windows Firewall,    *)
(* one step per COM call that can fail or change the firewall, with other  *)
(* programs and administrators editing the same firewall in between.  One  *)
(* thread at a time uses them: main for DeleteRulesByRegex, afterwards the *)
(* io thread for BlockInboundIP and DeleteRuleByName.                      *)
(***************************************************************************)
EXTENDS Integers, Sequences, FiniteSets

CONSTANTS
  OwnNames,     \* rule names the program makes: m_rule_prefix + random_string(8)
  OtherNames,   \* names of other rules
  Similar,      \* those of them with the prefix somewhere in the name
  Addresses,    \* addresses to block
  Everybody,          \* the remote addresses of a rule that names none: everybody
  NoName,       \* the name of a rule that has none yet
  MaxEdits,     \* bound on the edits others make
  MaxEnds       \* bound on the number of times the process ends

ASSUME FirewallAssumption ==
  /\ Similar \subseteq OtherNames
  /\ OwnNames \cap OtherNames = {}
  /\ NoName \notin OwnNames \cup OtherNames
  /\ Everybody \notin Addresses
  /\ MaxEdits \in Nat /\ MaxEnds \in Nat

VARIABLES
  firewall,   \* the rules of the firewall
  step,       \* the COM call that comes next, "idle", or "down"
  request,    \* the call in progress: what the rule to add is to be, or a name
  draft,      \* pRule, the rule under construction
  field,      \* the number of the setter that comes next
  enum,       \* the rules pVariant has still to deliver
  doomed,     \* vt_wait_delete
  skipped,    \* history: names this run failed to list or to remove
  requested,  \* history: the rules the program was ever asked to add
  edits,      \* number of edits by others
  ends        \* number of times the process ended

callVars == <<request, draft, field, enum, doomed>>
vars == <<firewall, step, callVars, skipped, requested, edits, ends>>

\* INetFwRule as CoCreateInstance returns it, as far as it matters here.
NewRule ==
  [name |-> NoName, direction |-> "in", protocol |-> "any", address |-> Everybody,
   action |-> "allow", enabled |-> FALSE]

BlockRule(n, a) ==
  [name |-> n, direction |-> "in", protocol |-> "any", address |-> a,
   action |-> "block", enabled |-> TRUE]

OtherRule(n) == [NewRule EXCEPT !.name = n, !.enabled = TRUE]

\* The setters in the order BlockInboundIP calls them.  That of the
\* description, which says nothing of what is blocked, has no field.
Setters == <<"name", "description", "direction", "protocol", "address", "action", "enabled">>

\* A faulty variant, used to validate the properties: the expression is empty,
\* which a search finds in every name.
MatchAll(n) == TRUE

\* find_expr is m_rule_prefix itself: a search, anchored nowhere.
regex_is_match(n) == n \in OwnNames \cup Similar

Init ==
  /\ firewall = {OtherRule(n) : n \in OtherNames}
  /\ step = "down"
  /\ request = NewRule /\ draft = NewRule /\ field = 0
  /\ enum = {} /\ doomed = <<>>
  /\ skipped = {} /\ requested = {}
  /\ edits = 0 /\ ends = 0

-----------------------------------------------------------------------------
(* Faulty variants of the definitions below, used to validate properties.  *)

\* The name and the address of the rule are taken for each other.
BlockSwapped(n, a) ==
  /\ step = "idle"
  /\ \A r \in requested : r.name # a
  /\ step' = "create"
  /\ request' = BlockRule(a, n)
  /\ requested' = requested \cup {BlockRule(a, n)}
  /\ UNCHANGED <<firewall, draft, field, enum, doomed, skipped, edits, ends>>

\* BlockInboundIP goes on when a setter has failed.
SetAndGoOn ==
  /\ step = "set"
  /\ \/ UNCHANGED draft
     \/ draft' = [f \in DOMAIN draft |-> IF f = Setters[field] THEN request[f] ELSE draft[f]]
  /\ field' = field + 1
  /\ step' = IF field = Len(Setters) THEN "add" ELSE "set"
  /\ UNCHANGED <<firewall, request, enum, doomed, skipped, requested, edits, ends>>

\* The enumeration ends at the first rule whose name cannot be read.
StopAtUnreadable ==
  /\ step = "next"
  /\ \/ \E r \in enum :
          /\ enum' = enum \ {r}
          /\ doomed' = IF regex_is_match(r.name) THEN Append(doomed, r.name) ELSE doomed
          /\ UNCHANGED <<step, skipped>>
     \/ \E r \in enum :
          /\ enum' = {}
          /\ skipped' = skipped \cup {r.name}
          /\ UNCHANGED <<step, doomed>>
     \/ enum = {} /\ step' = "remove" /\ UNCHANGED <<enum, doomed, skipped>>
  /\ UNCHANGED <<firewall, request, draft, field, requested, edits, ends>>

\* The first removal that fails ends the clean-up.
RemoveOrStop ==
  /\ step = "remove"
  /\ doomed # <<>>
  /\ LET named == {r \in firewall : r.name = Head(doomed)} IN
       \/ /\ \/ \E r \in named : firewall' = firewall \ {r}
             \/ named = {} /\ UNCHANGED firewall
          /\ doomed' = Tail(doomed)
          /\ UNCHANGED skipped
       \/ /\ named # {}
          /\ skipped' = skipped \cup {Head(doomed)}
          /\ doomed' = <<>>
          /\ UNCHANGED firewall
  /\ UNCHANGED <<step, request, draft, field, enum, requested, edits, ends>>

-----------------------------------------------------------------------------
(* The calls.                                                              *)

\* Forget the call: the thread is idle again.
Return ==
  /\ step' = "idle"
  /\ request' = NewRule /\ draft' = NewRule /\ field' = 0
  /\ enum' = {} /\ doomed' = <<>>

\* The functions return false without a trace when a COM call fails.
Fails == Return /\ UNCHANGED <<firewall, skipped, requested, edits, ends>>

\* main: DeleteRulesByRegex(m_rule_prefix)
Start ==
  /\ step = "down"
  /\ step' = "open"
  /\ skipped' = {}
  /\ UNCHANGED <<firewall, callVars, requested, edits, ends>>

\* The io thread: BlockInboundIP(name, address)
BlockInboundIP(n, a) ==
  /\ step = "idle"
  /\ \A r \in requested : r.name # n
  /\ step' = "create"
  /\ request' = BlockRule(n, a)
  /\ requested' = requested \cup {BlockRule(n, a)}
  /\ UNCHANGED <<firewall, draft, field, enum, doomed, skipped, edits, ends>>

\* The io thread: DeleteRuleByName(rule_name) for a rule asked for before.
DeleteRuleByName(n) ==
  /\ step = "idle"
  /\ \E r \in requested : r.name = n
  /\ step' = "remove"
  /\ doomed' = <<n>>
  /\ UNCHANGED <<firewall, request, draft, field, enum, skipped, requested, edits, ends>>

\* GetFireWallPolicy, GetFireWallRules and CreateFireWallRule.  When the last
\* of them returns NULL the next setter uses it, which ends the process (see
\* End).
CreateFireWallRule ==
  /\ step = "create"
  /\ step' = "set" /\ draft' = NewRule /\ field' = 1
  /\ UNCHANGED <<firewall, request, enum, doomed, skipped, requested, edits, ends>>

\* SetFireWallRuleName to SetFireWallRuleEnabled
SetField ==
  /\ step = "set"
  /\ draft' = [f \in DOMAIN draft |-> IF f = Setters[field] THEN request[f] ELSE draft[f]]
  /\ field' = field + 1
  /\ step' = IF field = Len(Setters) THEN "add" ELSE "set"
  /\ UNCHANGED <<firewall, request, enum, doomed, skipped, requested, edits, ends>>

AddRule ==
  /\ step = "add"
  /\ firewall' = firewall \cup {draft}
  /\ Return
  /\ UNCHANGED <<skipped, requested, edits, ends>>

\* get_Count, get__NewEnum and QueryInterface
OpenEnumerator ==
  /\ step = "open"
  /\ step' = "next" /\ enum' = firewall
  /\ UNCHANGED <<firewall, request, draft, field, doomed, skipped, requested, edits, ends>>

\* One turn of the loop over the rules; a rule that cannot be read is passed
\* over.  The loop only notes what is to be removed, and ends when Next delivers
\* no rule: at the end of the enumeration, or because Next fails.
NextRule ==
  /\ step = "next"
  /\ \/ \E r \in enum :
          /\ enum' = enum \ {r}
          /\ \/ doomed' = (IF regex_is_match(r.name) THEN Append(doomed, r.name) ELSE doomed)
                /\ UNCHANGED skipped
             \/ skipped' = skipped \cup {r.name} /\ UNCHANGED doomed
          /\ UNCHANGED step
     \/ /\ step' = "remove" /\ enum' = {}
        /\ skipped' = skipped \cup {r.name : r \in enum}
        /\ UNCHANGED doomed
  /\ UNCHANGED <<firewall, request, draft, field, requested, edits, ends>>

\* INetFwRules::Remove of one name.  It takes out one rule of the name, and
\* its result is dropped.
Remove ==
  /\ step = "remove"
  /\ doomed # <<>>
  /\ LET named == {r \in firewall : r.name = Head(doomed)} IN
       \/ \E r \in named : firewall' = firewall \ {r} /\ UNCHANGED skipped
       \/ named = {} /\ UNCHANGED <<firewall, skipped>>
       \/ named # {} /\ skipped' = skipped \cup {Head(doomed)} /\ UNCHANGED firewall
  /\ doomed' = Tail(doomed)
  /\ UNCHANGED <<step, request, draft, field, enum, requested, edits, ends>>

RemovedAll ==
  /\ step = "remove"
  /\ doomed = <<>>
  /\ Return
  /\ UNCHANGED <<firewall, skipped, requested, edits, ends>>

\* A COM call other than Remove fails.
CallFails ==
  /\ step \in {"create", "set", "add"}
  /\ Fails

\* A failed clean-up leaves every rule of the program where it is.
CleanupFails ==
  /\ step = "open"
  /\ skipped' = {r.name : r \in firewall}
  /\ Return
  /\ UNCHANGED <<firewall, requested, edits, ends>>

\* The process ends, between or during two calls.
End ==
  /\ step # "down"
  /\ ends < MaxEnds
  /\ ends' = ends + 1
  /\ step' = "down"
  /\ request' = NewRule /\ draft' = NewRule /\ field' = 0
  /\ enum' = {} /\ doomed' = <<>>
  /\ UNCHANGED <<firewall, skipped, requested, edits>>

\* Others add and remove their rules, and may remove those of the program.
Edit ==
  /\ edits < MaxEdits
  /\ edits' = edits + 1
  /\ \/ \E n \in OtherNames : firewall' = firewall \cup {OtherRule(n)}
     \/ \E r \in firewall : firewall' = firewall \ {r}
  /\ UNCHANGED <<step, callVars, skipped, requested, ends>>

ProgramStep ==
  \/ Start
  \/ \E n \in OwnNames : DeleteRuleByName(n) \/ \E a \in Addresses : BlockInboundIP(n, a)
  \/ CreateFireWallRule \/ SetField \/ AddRule
  \/ OpenEnumerator \/ NextRule \/ Remove \/ RemovedAll
  \/ CallFails \/ CleanupFails

Next == ProgramStep \/ End \/ Edit

FirewallSpec == Init /\ [][Next]_vars

-----------------------------------------------------------------------------
(* Properties.                                                             *)

\* A rule has the fields of a rule.
IsRule(r) == r = [f \in DOMAIN NewRule |-> r[f]]

\* Every variable keeps its type.
FirewallTypeOK ==
  /\ \A r \in firewall \cup enum \cup {draft, request} : IsRule(r)
  /\ step \in {"down", "idle", "open", "next", "remove", "create", "set", "add"}
  /\ field \in 0 .. Len(Setters) + 1
  /\ doomed \in Seq(OwnNames \cup OtherNames)
  /\ skipped \subseteq OwnNames \cup OtherNames
  /\ requested \subseteq {BlockRule(n, a) : n \in OwnNames, a \in Addresses}

\* Whatever call fails and wherever the process ends, the firewall never gets
\* a half-made rule, above all none that blocks everybody because its remote
\* address is missing: the program's rules are exactly those it was asked for
\* (firewall_controller.cpp:205-251).
NoHalfMadeRule ==
  \A r \in firewall : r \in requested \/ \E n \in OtherNames : r = OtherRule(n)

\* The strengthening that makes NoHalfMadeRule inductive: the setters that were
\* called have set their fields, and the call is one that was asked for.
DraftMatches ==
  /\ IsRule(draft) /\ IsRule(request)
  /\ step \in {"create", "set", "add"} => request \in requested
  /\ step = "set" =>
       /\ field \in 1 .. Len(Setters)
       /\ \A i \in 1 .. field - 1 :
            Setters[i] \in DOMAIN draft => draft[Setters[i]] = request[Setters[i]]
  /\ step = "add" => draft = request

DraftInv == DraftMatches /\ NoHalfMadeRule

\* The clean-up misses a rule of an earlier run only by a call that fails: when
\* its loop is over, a rule of the program that is still there is to be removed,
\* or could not be read, or was not delivered because Next failed before it
\* (firewall_controller.cpp:314-341).
CleanupMissesNothing ==
  [][step = "next" /\ step' = "remove" =>
       \A r \in firewall : r.name \in OwnNames =>
         \/ \E i \in DOMAIN doomed : doomed[i] = r.name
         \/ r.name \in skipped
         \/ r \in enum /\ r.name \in skipped']_vars

\* Rules that have nothing to do with the program are only ever removed by
\* others (firewall_controller.cpp:253-341).
UnrelatedRulesStay ==
  [][ProgramStep => \A r \in firewall : r.name \in OtherNames \ Similar => r \in firewall']_vars

-----------------------------------------------------------------------------
(* The calls implement what the blocking pipeline takes them to be.        *)

\* The clean-up has listed what it removes, or has failed.
Up == step \notin {"down", "open", "next"}

Calls == INSTANCE FirewallCalls WITH
  Blocks <- {BlockRule(n, a) : n \in OwnNames, a \in Addresses},
  Names <- OwnNames,
  NoRule <- NewRule,
  rules <- {r \in firewall : r.name \in OwnNames},
  up <- Up,
  call <- IF step \in {"create", "set", "add"} THEN request ELSE NewRule,
  removing <- IF Up THEN {doomed[i] : i \in DOMAIN doomed} \cap OwnNames ELSE {},
  abandoned <- IF Up THEN skipped \cap OwnNames ELSE {}

\* However many COM calls a function makes, whichever fails, and whatever others
\* edit meanwhile, each is one step for the pipeline: the rule asked for is
\* added whole or not at all, a name to be removed is gone or given up, and the
\* clean-up removes every rule of an earlier run but for those that some call
\* failed to list, to read or to remove (firewall_controller.cpp:205-341).
ImplementsCalls == Calls!CallsSpec
=============================================================================
