---------------------------- MODULE FirewallCalls ----------------------------
(***************************************************************************)
(* What the blocking pipeline takes the functions of firewall_controller   *)
(* to be, however many COM calls each of them makes: a call to add a rule  *)
(* adds exactly that rule or changes nothing, a call to remove one removes *)
(* all there is of that name or gives it up, and the clean-up at the start *)
(* removes each rule of an earlier run, or gives it up for a failed call.  *)
(***************************************************************************)
CONSTANTS
  Blocks,      \* the rules the program may add
  Names,       \* their names
  NoRule       \* no call to add a rule in progress

VARIABLES
  rules,       \* the program's rules in the firewall
  up,          \* the clean-up has listed what it removes, or has failed
  call,        \* the rule that is to be added
  removing,    \* names that are to be removed
  abandoned    \* names whose removal this run has given up

firewallCallVars == <<rules, up, call, removing, abandoned>>

NamesOf(rs) == {r.name : r \in rs}

CallsInit ==
  /\ rules = {}
  /\ up = FALSE
  /\ call = NoRule
  /\ removing = {}
  /\ abandoned = {}

\* The program starts: each rule of an earlier run is to be removed, or given up.
CleanUp ==
  /\ ~up
  /\ up' = TRUE
  /\ \E noted, missed \in SUBSET Names :
       /\ NamesOf(rules) \subseteq noted \cup missed
       /\ removing' = noted
       /\ abandoned' = missed
  /\ UNCHANGED <<rules, call>>

\* One call at a time: a rule with a new name is to be added.
AskToAdd(r) ==
  /\ up /\ call = NoRule /\ removing = {}
  /\ r.name \notin NamesOf(rules)
  /\ call' = r
  /\ UNCHANGED <<rules, up, removing, abandoned>>

Add ==
  /\ call # NoRule
  /\ rules' = rules \cup {call}
  /\ call' = NoRule
  /\ UNCHANGED <<up, removing, abandoned>>

FailToAdd ==
  /\ call # NoRule
  /\ call' = NoRule
  /\ UNCHANGED <<rules, up, removing, abandoned>>

AskToRemove(n) ==
  /\ up /\ call = NoRule /\ removing = {}
  /\ removing' = {n}
  /\ UNCHANGED <<rules, up, call, abandoned>>

\* One name is done with: its rule is gone, or given up.
RemoveName(n) ==
  /\ n \in removing
  /\ removing' = removing \ {n}
  /\ \/ rules' = {r \in rules : r.name # n} /\ UNCHANGED abandoned
     \/ abandoned' = abandoned \cup {n} /\ UNCHANGED rules
  /\ UNCHANGED <<up, call>>

\* The program ends: of a call in progress nothing is left.
GoDown ==
  /\ up
  /\ up' = FALSE
  /\ call' = NoRule
  /\ removing' = {}
  /\ abandoned' = {}
  /\ UNCHANGED rules

\* Somebody else removes a rule.
TakeAway(r) ==
  /\ rules' = rules \ {r}
  /\ UNCHANGED <<up, call, removing, abandoned>>

CallsNext ==
  \/ CleanUp
  \/ \E r \in Blocks : AskToAdd(r) \/ TakeAway(r)
  \/ Add \/ FailToAdd
  \/ \E n \in Names : AskToRemove(n) \/ RemoveName(n)
  \/ GoDown

CallsSpec == CallsInit /\ [][CallsNext]_firewallCallVars
=============================================================================
