---------------------- MODULE FirewallControllerProofs -----------------------
(***************************************************************************)
(* Proofs about FirewallController, for any names, addresses and edits.    *)
(***************************************************************************)
EXTENDS FirewallController, SequenceTheorems, TLAPS

Fields == {"name", "direction", "protocol", "address", "action", "enabled"}

LEMMA NewRuleIsRule == DOMAIN NewRule = Fields /\ IsRule(NewRule)
  BY DEF NewRule, Fields, IsRule

LEMMA BlockRuleIsRule == ASSUME NEW n, NEW a
                         PROVE  IsRule(BlockRule(n, a))
  BY NewRuleIsRule DEF BlockRule, Fields, IsRule

\* Calling a setter sets its field, and the last setter completes the rule.
LEMMA SettersCoverFields ==
  /\ Len(Setters) = 7
  /\ Fields \subseteq {Setters[i] : i \in 1 .. 7}
  BY DEF Setters, Fields

LEMMA DraftInit == Init => DraftInv
  BY NewRuleIsRule DEF Init, DraftInv, DraftMatches, NoHalfMadeRule

LEMMA DraftStep == DraftInv /\ [Next]_vars => DraftInv'
  <1> SUFFICES ASSUME DraftInv, [Next]_vars
               PROVE  DraftInv'
    OBVIOUS
  <1> USE DEF DraftInv, DraftMatches
  <1>1. CASE Start
    BY <1>1 DEF Start, callVars, NoHalfMadeRule
  <1>2. ASSUME NEW n \in OwnNames, DeleteRuleByName(n)
        PROVE  DraftInv'
    BY <1>2 DEF DeleteRuleByName, NoHalfMadeRule
  <1>3. ASSUME NEW n \in OwnNames, NEW a \in Addresses, BlockInboundIP(n, a)
        PROVE  DraftInv'
    BY <1>3, BlockRuleIsRule DEF BlockInboundIP, NoHalfMadeRule
  <1>4. CASE CreateFireWallRule
    BY <1>4, NewRuleIsRule, SettersCoverFields DEF CreateFireWallRule, NoHalfMadeRule
  <1>5. CASE SetField
    <2>1. NoHalfMadeRule'
      BY <1>5 DEF SetField, NoHalfMadeRule
    <2>2. draft' = [f \in Fields |-> IF f = Setters[field] THEN request[f] ELSE draft[f]]
      BY <1>5, NewRuleIsRule DEF SetField, IsRule
    <2>3. IsRule(draft') /\ IsRule(request')
      BY <1>5, <2>2, NewRuleIsRule DEF SetField, IsRule
    <2>4. \A i \in 1 .. field : Setters[i] \in Fields => draft'[Setters[i]] = request[Setters[i]]
      <3> SUFFICES ASSUME NEW i \in 1 .. field, Setters[i] \in Fields
                   PROVE  draft'[Setters[i]] = request[Setters[i]]
        OBVIOUS
      <3>1. CASE Setters[i] = Setters[field]
        BY <2>2, <3>1
      <3>2. CASE Setters[i] # Setters[field]
        <4>1. i \in 1 .. field - 1
          BY <1>5, <3>2 DEF SetField
        <4>2. draft[Setters[i]] = request[Setters[i]]
          BY <1>5, <4>1, NewRuleIsRule DEF SetField, IsRule
        <4>3. QED
          BY <2>2, <3>2, <4>2
      <3>3. QED
        BY <3>1, <3>2
    <2>5. step' = "add" => draft' = request'
      <3> SUFFICES ASSUME step' = "add"
                   PROVE  draft' = request'
        OBVIOUS
      <3>1. field = 7
        BY <1>5, SettersCoverFields DEF SetField
      <3>2. \A f \in Fields : draft'[f] = request[f]
        BY <2>4, <3>1, SettersCoverFields
      <3>3. request' = request
        BY <1>5 DEF SetField
      <3>4. QED
        BY <2>3, <3>2, <3>3, NewRuleIsRule DEF IsRule
    <2>6. QED
      BY <1>5, <2>1, <2>3, <2>4, <2>5, SettersCoverFields, NewRuleIsRule DEF SetField, IsRule
  <1>6. CASE AddRule
    BY <1>6, NewRuleIsRule DEF AddRule, Return, NoHalfMadeRule
  <1>7. CASE OpenEnumerator
    BY <1>7 DEF OpenEnumerator, NoHalfMadeRule
  <1>8. CASE NextRule
    BY <1>8 DEF NextRule, NoHalfMadeRule
  <1>9. CASE Remove
    BY <1>9 DEF Remove, NoHalfMadeRule
  <1>10. CASE RemovedAll \/ CleanupFails \/ CallFails
    BY <1>10, NewRuleIsRule DEF RemovedAll, CleanupFails, CallFails, Fails, Return, NoHalfMadeRule
  <1>11. CASE End
    BY <1>11, NewRuleIsRule DEF End, NoHalfMadeRule
  <1>12. CASE Edit
    BY <1>12 DEF Edit, callVars, NoHalfMadeRule
  <1>13. CASE UNCHANGED vars
    BY <1>13 DEF vars, callVars, NoHalfMadeRule
  <1>14. QED
    BY <1>1, <1>2, <1>3, <1>4, <1>5, <1>6, <1>7, <1>8, <1>9, <1>10, <1>11, <1>12, <1>13
       DEF Next, ProgramStep

\* Whatever call fails and wherever the process ends, every rule of the firewall
\* is a complete rule the program was asked for, or one of somebody else
\* (firewall_controller.cpp:205-251).
THEOREM NoHalfMadeRuleEver == FirewallSpec => []NoHalfMadeRule
  <1>1. DraftInv => NoHalfMadeRule
    BY DEF DraftInv
  <1>2. QED
    BY <1>1, DraftInit, DraftStep, PTL DEF FirewallSpec

-----------------------------------------------------------------------------
(* Names and types.                                                        *)

\* A rule the program made or one of somebody else.
Known(r) == r \in requested \/ \E n \in OtherNames : r = OtherRule(n)

\* What the calls work on has its type, and only rules of the program and those
\* with a similar name are ever to be removed.
NamesInv ==
  /\ requested \subseteq {BlockRule(n, a) : n \in OwnNames, a \in Addresses}
  /\ \A r \in enum : Known(r)
  /\ step \in {"down", "idle", "open", "next", "remove", "create", "set", "add"}
  /\ field \in 0 .. Len(Setters) + 1
  /\ doomed \in Seq(OwnNames \cup Similar)
  /\ skipped \subseteq OwnNames \cup OtherNames

LEMMA BlockRuleFields ==
  ASSUME NEW n, NEW a
  PROVE  IsRule(BlockRule(n, a)) /\ BlockRule(n, a).name = n
  BY BlockRuleIsRule DEF BlockRule, NewRule

LEMMA OtherRuleFields ==
  ASSUME NEW n
  PROVE  IsRule(OtherRule(n)) /\ OtherRule(n).name = n
  BY NewRuleIsRule DEF OtherRule, NewRule, Fields, IsRule

LEMMA KnownRules ==
  ASSUME NamesInv, NEW r, Known(r)
  PROVE  IsRule(r) /\ r.name \in OwnNames \cup OtherNames
  <1>1. CASE r \in requested
    <2>1. PICK n \in OwnNames, a \in Addresses : r = BlockRule(n, a)
      BY <1>1 DEF NamesInv
    <2>2. QED
      BY <2>1, BlockRuleFields
  <1>2. CASE \E n \in OtherNames : r = OtherRule(n)
    BY <1>2, OtherRuleFields
  <1>3. QED
    BY <1>1, <1>2 DEF Known

LEMMA KnownFirewall == NoHalfMadeRule => \A r \in firewall : Known(r)
  BY DEF NoHalfMadeRule, Known

LEMMA NamesInit == Init => NamesInv
  BY SettersCoverFields, EmptySeq DEF Init, NamesInv

LEMMA NamesStep ==
  ASSUME NamesInv, DraftInv, [Next]_vars
  PROVE  NamesInv'
  <1>0. NoHalfMadeRule /\ Len(Setters) = 7
    BY SettersCoverFields DEF DraftInv
  <1>1. CASE Start
    BY <1>1 DEF Start, callVars, NamesInv, Known
  <1>2. ASSUME NEW n \in OwnNames, DeleteRuleByName(n)
        PROVE  NamesInv'
    BY <1>2 DEF DeleteRuleByName, NamesInv, Known
  <1>3. ASSUME NEW n \in OwnNames, NEW a \in Addresses, BlockInboundIP(n, a)
        PROVE  NamesInv'
    BY <1>3 DEF BlockInboundIP, NamesInv, Known
  <1>4. CASE CreateFireWallRule
    BY <1>0, <1>4 DEF CreateFireWallRule, NamesInv, Known
  <1>5. CASE SetField
    <2>1. field \in 1 .. 7
      BY <1>0, <1>5 DEF SetField, DraftInv, DraftMatches
    <2>2. QED
      BY <1>0, <1>5, <2>1 DEF SetField, NamesInv, Known
  <1>6. ASSUME Return, requested' = requested, skipped' \subseteq OwnNames \cup OtherNames
        PROVE  NamesInv'
    BY <1>0, <1>6, EmptySeq DEF Return, NamesInv
  <1>7. CASE AddRule \/ RemovedAll \/ CallFails
    <2>1. Return /\ requested' = requested /\ skipped' = skipped
      BY <1>7 DEF AddRule, RemovedAll, CallFails, Fails
    <2>2. QED
      BY <1>6, <2>1 DEF NamesInv
  <1>8. CASE CleanupFails
    BY <1>0, <1>6, <1>8, KnownRules, KnownFirewall DEF CleanupFails
  <1>9. CASE OpenEnumerator
    BY <1>0, <1>9, KnownFirewall DEF OpenEnumerator, NamesInv, Known
  <1>10. CASE NextRule
    <2>1. /\ enum' \subseteq enum /\ step' \in {"next", "remove"} /\ UNCHANGED <<field, requested>>
      BY <1>10 DEF NextRule
    <2>2. skipped' \subseteq OwnNames \cup OtherNames /\ doomed' \in Seq(OwnNames \cup Similar)
      <3>1. CASE UNCHANGED <<doomed, skipped>>
        BY <3>1 DEF NamesInv
      <3>2. ASSUME NEW r \in enum, skipped' = skipped \cup {r.name}, UNCHANGED doomed
            PROVE  skipped' \subseteq OwnNames \cup OtherNames /\ doomed' \in Seq(OwnNames \cup Similar)
        <4>1. r.name \in OwnNames \cup OtherNames
          BY KnownRules DEF NamesInv
        <4>2. QED
          BY <3>2, <4>1 DEF NamesInv
      <3>3. ASSUME NEW r \in enum, regex_is_match(r.name), doomed' = Append(doomed, r.name),
                   UNCHANGED skipped
            PROVE  skipped' \subseteq OwnNames \cup OtherNames /\ doomed' \in Seq(OwnNames \cup Similar)
        BY <3>3, AppendProperties DEF NamesInv, regex_is_match
      <3>4. CASE skipped' = skipped \cup {r.name : r \in enum} /\ UNCHANGED doomed
        <4>1. \A r \in enum : r.name \in OwnNames \cup OtherNames
          BY KnownRules DEF NamesInv
        <4>2. QED
          BY <3>4, <4>1 DEF NamesInv
      <3>5. QED
        BY <1>10, <3>1, <3>2, <3>3, <3>4 DEF NextRule
    <2>3. QED
      BY <2>1, <2>2 DEF NamesInv, Known
  <1>11. CASE Remove
    <2>1. /\ doomed' \in Seq(OwnNames \cup Similar) /\ Head(doomed) \in OwnNames \cup Similar
      BY <1>11, HeadTailProperties DEF Remove, NamesInv
    <2>2. skipped' \subseteq skipped \cup {Head(doomed)} /\ UNCHANGED <<requested, enum, step, field>>
      BY <1>11 DEF Remove
    <2>3. QED
      BY <2>1, <2>2, FirewallAssumption DEF NamesInv, Known
  <1>12. CASE End
    BY <1>0, <1>12, EmptySeq DEF End, NamesInv
  <1>13. CASE Edit
    BY <1>13 DEF Edit, callVars, NamesInv, Known
  <1>14. CASE UNCHANGED vars
    BY <1>14 DEF vars, callVars, NamesInv, Known
  <1>15. QED
    BY <1>1, <1>2, <1>3, <1>4, <1>5, <1>7, <1>8, <1>9, <1>10, <1>11, <1>12, <1>13, <1>14
       DEF Next, ProgramStep

THEOREM FirewallInvariant == FirewallSpec => [](DraftInv /\ NamesInv)
  <1>1. DraftInv /\ NamesInv /\ [Next]_vars => (DraftInv /\ NamesInv)'
    BY DraftStep, NamesStep
  <1>2. QED
    BY <1>1, DraftInit, NamesInit, PTL DEF FirewallSpec

\* Every variable keeps its type.
THEOREM FirewallTypeCorrect == FirewallSpec => []FirewallTypeOK
  <1>1. DraftInv /\ NamesInv => FirewallTypeOK
    <2> SUFFICES ASSUME DraftInv, NamesInv
                 PROVE  FirewallTypeOK
      OBVIOUS
    <2>1. \A r \in firewall \cup enum : IsRule(r)
      BY KnownRules, KnownFirewall DEF DraftInv, NamesInv
    <2>2. IsRule(draft) /\ IsRule(request)
      BY DEF DraftInv, DraftMatches
    <2>3. doomed \in Seq(OwnNames \cup OtherNames)
      BY FirewallAssumption, SeqDef DEF NamesInv
    <2>4. QED
      BY <2>1, <2>2, <2>3 DEF FirewallTypeOK, NamesInv
  <1>2. QED
    BY <1>1, FirewallInvariant, PTL

-----------------------------------------------------------------------------
(* What the program removes.                                               *)

\* Rules that have nothing to do with the program are only ever removed by
\* others, although the clean-up goes by a search for the prefix in their names
\* (firewall_controller.cpp:253-341).
THEOREM UnrelatedStay == FirewallSpec => UnrelatedRulesStay
  <1>1. NamesInv /\ ProgramStep =>
          \A r \in firewall : r.name \in OtherNames \ Similar => r \in firewall'
    <2> SUFFICES ASSUME NamesInv, ProgramStep, NEW r \in firewall, r.name \in OtherNames \ Similar,
                        r \notin firewall'
                 PROVE  FALSE
      OBVIOUS
    <2>1. Remove
      BY DEF ProgramStep, Start, DeleteRuleByName, BlockInboundIP, CreateFireWallRule, SetField, AddRule,
             OpenEnumerator, NextRule, RemovedAll, CallFails, CleanupFails, Fails
    <2>2. doomed # <<>> /\ r.name = Head(doomed)
      BY <2>1 DEF Remove
    <2>3. Head(doomed) \in OwnNames \cup Similar
      BY <2>2, HeadTailProperties DEF NamesInv
    <2>4. QED
      BY <2>2, <2>3, FirewallAssumption
  <1>2. QED
    BY <1>1, FirewallInvariant, PTL DEF FirewallSpec, UnrelatedRulesStay

-----------------------------------------------------------------------------
(* The clean-up misses nothing.                                            *)

Doomed(n) == \E i \in DOMAIN doomed : doomed[i] = n

\* While the loop over the rules runs, each of the program's own rules in the
\* firewall is still to be delivered, or noted, or was passed over.
LoopInv ==
  step = "next" =>
    \A r \in firewall : r.name \in OwnNames => r \in enum \/ r.name \in skipped \/ Doomed(r.name)

LEMMA LoopInit == Init => LoopInv
  BY DEF Init, LoopInv

LEMMA LoopStep ==
  ASSUME NamesInv, LoopInv, [Next]_vars
  PROVE  LoopInv'
  <1>1. ASSUME step' # "next"
        PROVE  LoopInv'
    BY <1>1 DEF LoopInv
  <1>2. CASE OpenEnumerator
    BY <1>2 DEF OpenEnumerator, LoopInv
  <1>3. CASE NextRule
    <2> SUFFICES ASSUME step' = "next", NEW r \in firewall, r.name \in OwnNames
                 PROVE  r \in enum' \/ r.name \in skipped' \/ Doomed(r.name)'
      BY <1>3 DEF NextRule, LoopInv
    <2>1. r \in enum \/ r.name \in skipped \/ Doomed(r.name)
      BY <1>3 DEF NextRule, LoopInv
    <2>2. PICK q \in enum :
            /\ enum' = enum \ {q}
            /\ \/ doomed' = (IF regex_is_match(q.name) THEN Append(doomed, q.name) ELSE doomed)
                  /\ UNCHANGED skipped
               \/ skipped' = skipped \cup {q.name} /\ UNCHANGED doomed
      BY <1>3 DEF NextRule
    <2>3. /\ Doomed(r.name) => Doomed(r.name)'
          /\ r = q => r.name \in skipped' \/ Doomed(r.name)'
      <3>1. CASE UNCHANGED doomed /\ skipped' = skipped \cup {q.name}
        BY <3>1 DEF Doomed
      <3>2. CASE regex_is_match(q.name) /\ doomed' = Append(doomed, q.name)
        <4>1. q.name \in OwnNames \cup Similar
          BY <3>2 DEF regex_is_match
        <4>2. /\ Len(doomed) \in Nat /\ DOMAIN doomed = 1 .. Len(doomed)
              /\ DOMAIN doomed' = 1 .. Len(doomed) + 1
              /\ \A i \in 1 .. Len(doomed) : doomed'[i] = doomed[i]
              /\ doomed'[Len(doomed) + 1] = q.name
          BY <3>2, <4>1, AppendProperties, LenProperties DEF NamesInv
        <4>3. Len(doomed) + 1 \in DOMAIN doomed' /\ DOMAIN doomed \subseteq DOMAIN doomed'
          BY <4>2
        <4>4. QED
          BY <4>2, <4>3 DEF Doomed
      <3>3. CASE ~regex_is_match(q.name) /\ UNCHANGED <<doomed, skipped>>
        BY <3>3 DEF Doomed, regex_is_match
      <3>4. QED
        BY <2>2, <3>1, <3>2, <3>3
    <2>4. skipped \subseteq skipped'
      BY <2>2
    <2>5. QED
      BY <2>1, <2>2, <2>3, <2>4
  <1>4. CASE Edit
    <2>1. \A r \in firewall' : r \in firewall \/ \E n \in OtherNames : r = OtherRule(n)
      BY <1>4 DEF Edit
    <2>2. \A r \in firewall' : r.name \in OwnNames => r \in firewall
      BY <2>1, OtherRuleFields, FirewallAssumption
    <2>3. QED
      BY <1>4, <2>2 DEF Edit, callVars, LoopInv, Doomed
  <1>5. CASE UNCHANGED vars
    BY <1>5 DEF vars, callVars, LoopInv, Doomed
  <1>6. QED
    BY <1>1, <1>2, <1>3, <1>4, <1>5
       DEF Next, ProgramStep, Start, DeleteRuleByName, BlockInboundIP, CreateFireWallRule, SetField,
           AddRule, Remove, RemovedAll, CallFails, CleanupFails, Fails, Return, End

\* When the loop of the clean-up is over, every rule of an earlier run that is
\* still there is to be removed, or could not be read, or was not delivered
\* because Next failed before it, whatever others edited meanwhile
\* (firewall_controller.cpp:314-341).
THEOREM CleanupListsEverything == FirewallSpec => CleanupMissesNothing
  <1> DEFINE Listed == step = "next" /\ step' = "remove" =>
                         \A r \in firewall : r.name \in OwnNames =>
                           \/ \E i \in DOMAIN doomed : doomed[i] = r.name
                           \/ r.name \in skipped
                           \/ r \in enum /\ r.name \in skipped'
  <1>1. NamesInv /\ LoopInv /\ [Next]_vars => LoopInv'
    BY LoopStep
  <1>2. LoopInv /\ [Next]_vars => Listed
    <2> SUFFICES ASSUME LoopInv, [Next]_vars, step = "next", step' = "remove"
                 PROVE  Listed
      OBVIOUS
    <2>1. NextRule
      BY DEF Next, ProgramStep, Start, DeleteRuleByName, BlockInboundIP, CreateFireWallRule, SetField,
             AddRule, OpenEnumerator, Remove, RemovedAll, CallFails, CleanupFails, Fails, Return, End,
             Edit, callVars, vars
    <2>2. skipped' = skipped \cup {r.name : r \in enum}
      BY <2>1 DEF NextRule
    <2>3. QED
      BY <2>2 DEF LoopInv, Doomed
  <1>3. QED
    BY <1>1, <1>2, LoopInit, FirewallInvariant, PTL DEF FirewallSpec, CleanupMissesNothing

-----------------------------------------------------------------------------
(* The calls implement what the blocking pipeline takes them to be.        *)

\* One call at a time works on the firewall, each rule of the program has a
\* name of its own, the rule being made is not in the firewall yet, and none of
\* the program's names is to be removed twice.
OneCall ==
  /\ step \notin {"next", "remove"} => doomed = <<>>
  /\ step # "next" => enum = {}

RulesHaveTheirNames == \A r, q \in requested : r.name = q.name => r = q

NewToAdd == step \in {"create", "set", "add"} => request \notin firewall

NamedOnce ==
  /\ \A i, j \in DOMAIN doomed : doomed[i] \in OwnNames /\ doomed[i] = doomed[j] => i = j
  /\ \A r \in enum : r.name \in OwnNames => ~Doomed(r.name)

CallInv == OneCall /\ RulesHaveTheirNames /\ NewToAdd /\ NamedOnce

LEMMA EmptyDomain == DOMAIN <<>> = {}
  OBVIOUS

\* A rule of the firewall that has one of the program's names was asked for.
LEMMA OwnRules ==
  ASSUME NamesInv
  PROVE  /\ \A r : Known(r) /\ r.name \in OwnNames => r \in requested
         /\ \A r \in requested : r.name \in OwnNames
         /\ NewRule \notin requested
  <1>1. ASSUME NEW r, Known(r), r.name \in OwnNames
        PROVE  r \in requested
    BY <1>1, OtherRuleFields, FirewallAssumption DEF Known
  <1>2. ASSUME NEW r \in requested
        PROVE  r.name \in OwnNames
    <2>1. PICK n \in OwnNames, a \in Addresses : r = BlockRule(n, a)
      BY DEF NamesInv
    <2>2. QED
      BY <2>1, BlockRuleFields
  <1>3. NewRule.name = NoName
    BY DEF NewRule
  <1>4. QED
    BY <1>1, <1>2, <1>3, FirewallAssumption

LEMMA CallInit == Init => CallInv
  BY EmptyDomain DEF Init, CallInv, OneCall, RulesHaveTheirNames, NewToAdd, NamedOnce

\* What the calls leave alone, or reset.
LEMMA CallSteps ==
  ASSUME [Next]_vars
  PROVE  /\ requested' = requested \/ \E n \in OwnNames, a \in Addresses : BlockInboundIP(n, a)
         /\ UNCHANGED <<doomed, enum>> \/ (doomed' = <<>> /\ enum' = {}) \/ OpenEnumerator \/ NextRule \/ Remove
              \/ \E n \in OwnNames : DeleteRuleByName(n)
         /\ \/ step' \notin {"create", "set", "add"}
            \/ step \in {"create", "set", "add"} /\ request' = request /\ firewall' = firewall
            \/ Edit \/ UNCHANGED vars
            \/ \E n \in OwnNames, a \in Addresses : BlockInboundIP(n, a)
  BY DEF Next, ProgramStep, Start, DeleteRuleByName, BlockInboundIP, CreateFireWallRule, SetField, AddRule,
         OpenEnumerator, NextRule, Remove, RemovedAll, CallFails, CleanupFails, Fails, Return, End, Edit,
         callVars, vars

LEMMA OneCallStep == OneCall /\ [Next]_vars => OneCall'
  BY DEF OneCall, Next, ProgramStep, Start, DeleteRuleByName, BlockInboundIP, CreateFireWallRule, SetField,
         AddRule, OpenEnumerator, NextRule, Remove, RemovedAll, CallFails, CleanupFails, Fails, Return, End,
         Edit, callVars, vars

LEMMA TheirNamesStep ==
  ASSUME RulesHaveTheirNames, [Next]_vars
  PROVE  RulesHaveTheirNames'
  <1>1. ASSUME NEW n \in OwnNames, NEW a \in Addresses, BlockInboundIP(n, a)
        PROVE  RulesHaveTheirNames'
    BY <1>1, BlockRuleFields DEF BlockInboundIP, RulesHaveTheirNames
  <1>2. QED
    BY <1>1, CallSteps DEF RulesHaveTheirNames

LEMMA NewToAddStep ==
  ASSUME NamesInv, DraftInv, NewToAdd, [Next]_vars
  PROVE  NewToAdd'
  <1>1. ASSUME NEW n \in OwnNames, NEW a \in Addresses, BlockInboundIP(n, a)
        PROVE  NewToAdd'
    <2>1. BlockRule(n, a).name = n
      BY BlockRuleFields
    <2>2. BlockRule(n, a) \notin firewall
      BY <1>1, <2>1, OwnRules, KnownFirewall DEF BlockInboundIP, DraftInv
    <2>3. QED
      BY <1>1, <2>2 DEF BlockInboundIP, NewToAdd
  <1>2. CASE Edit
    <2> SUFFICES ASSUME step \in {"create", "set", "add"}, request \in firewall'
                 PROVE  FALSE
      BY <1>2 DEF Edit, callVars, NewToAdd
    <2>1. request \notin firewall /\ request \in requested
      BY DEF NewToAdd, DraftInv, DraftMatches
    <2>2. PICK n \in OtherNames : request = OtherRule(n)
      BY <1>2, <2>1 DEF Edit
    <2>3. QED
      BY <2>1, <2>2, OwnRules, OtherRuleFields, FirewallAssumption
  <1>3. CASE UNCHANGED vars
    BY <1>3 DEF vars, callVars, NewToAdd
  <1>4. QED
    BY <1>1, <1>2, <1>3, CallSteps DEF NewToAdd

LEMMA NamedOnceStep ==
  ASSUME NamesInv, DraftInv, OneCall, RulesHaveTheirNames, NamedOnce, [Next]_vars
  PROVE  NamedOnce'
  <1>1. CASE UNCHANGED <<doomed, enum>>
    BY <1>1 DEF NamedOnce, Doomed
  <1>2. CASE doomed' = <<>> /\ enum' = {}
    BY <1>2, EmptyDomain DEF NamedOnce
  <1>3. CASE OpenEnumerator
    BY <1>3, EmptyDomain DEF OpenEnumerator, OneCall, NamedOnce, Doomed
  <1>4. ASSUME NEW n \in OwnNames, DeleteRuleByName(n)
        PROVE  NamedOnce'
    <2>1. enum' = {} /\ DOMAIN doomed' = {1}
      BY <1>4 DEF DeleteRuleByName, OneCall
    <2>2. QED
      BY <2>1 DEF NamedOnce
  <1>5. CASE Remove
    <2>1. doomed \in Seq(OwnNames \cup Similar) /\ doomed # <<>> /\ doomed' = Tail(doomed) /\ enum' = {}
      BY <1>5 DEF NamesInv, Remove, OneCall
    <2>2. \A i \in DOMAIN doomed' : i + 1 \in DOMAIN doomed /\ doomed'[i] = doomed[i + 1] /\ i \in Int
      BY <2>1, HeadTailProperties, LenProperties
    <2>3. QED
      BY <2>1, <2>2 DEF NamedOnce
  <1>6. CASE NextRule
    <2>1. CASE enum' = {} /\ UNCHANGED doomed
      BY <2>1 DEF NamedOnce, Doomed
    <2>2. ASSUME NEW q \in enum, enum' = enum \ {q}, UNCHANGED doomed
          PROVE  NamedOnce'
      BY <2>2 DEF NamedOnce, Doomed
    <2>3. ASSUME NEW q \in enum, enum' = enum \ {q}, regex_is_match(q.name), doomed' = Append(doomed, q.name)
          PROVE  NamedOnce'
      <3>1. q.name \in OwnNames \cup Similar
        BY <2>3 DEF regex_is_match
      <3>2. /\ Len(doomed) \in Nat /\ DOMAIN doomed = 1 .. Len(doomed)
            /\ DOMAIN doomed' = 1 .. Len(doomed) + 1
            /\ \A i \in 1 .. Len(doomed) : doomed'[i] = doomed[i]
            /\ doomed'[Len(doomed) + 1] = q.name
        BY <2>3, <3>1, AppendProperties, LenProperties DEF NamesInv
      <3>3. \A i \in DOMAIN doomed' : (i \in DOMAIN doomed /\ doomed'[i] = doomed[i])
                                       \/ (i = Len(doomed) + 1 /\ doomed'[i] = q.name)
        BY <3>2
      <3>4. q.name \in OwnNames => ~Doomed(q.name)
        BY DEF NamedOnce
      <3>5. ASSUME NEW r \in enum', r.name \in OwnNames
            PROVE  ~Doomed(r.name) /\ r.name # q.name
        <4>1. r \in enum /\ r # q
          BY <2>3
        <4>2. q.name \in OwnNames => q.name # r.name
          BY <3>5, <4>1, OwnRules DEF NamesInv, RulesHaveTheirNames
        <4>3. QED
          BY <3>5, <4>1, <4>2 DEF NamedOnce
      <3>6. \A i, j \in DOMAIN doomed' : doomed'[i] \in OwnNames /\ doomed'[i] = doomed'[j] => i = j
        BY <3>3, <3>4 DEF NamedOnce, Doomed
      <3>7. \A r \in enum' : r.name \in OwnNames => ~Doomed(r.name)'
        BY <3>3, <3>5 DEF Doomed
      <3>8. QED
        BY <3>6, <3>7 DEF NamedOnce
    <2>4. QED
      BY <1>6, <2>1, <2>2, <2>3 DEF NextRule
  <1>7. QED
    BY <1>1, <1>2, <1>3, <1>4, <1>5, <1>6, CallSteps

LEMMA CallStep ==
  ASSUME NamesInv, DraftInv, CallInv, [Next]_vars
  PROVE  CallInv'
  BY OneCallStep, TheirNamesStep, NewToAddStep, NamedOnceStep DEF CallInv

-----------------------------------------------------------------------------
\* What the variables of FirewallCalls are here.
OwnFirewall == {r \in firewall : r.name \in OwnNames}
InCall == step \in {"create", "set", "add"}
CallBar == IF InCall THEN request ELSE NewRule
OwnDoomed == {doomed[i] : i \in DOMAIN doomed} \cap OwnNames
RemovingBar == IF Up THEN OwnDoomed ELSE {}
AbandonedBar == IF Up THEN skipped \cap OwnNames ELSE {}
MadeRules == {BlockRule(n, a) : n \in OwnNames, a \in Addresses}

CallBars == <<OwnFirewall, Up, CallBar, RemovingBar, AbandonedBar>>

LEMMA CallsVars ==
  UNCHANGED CallBars => UNCHANGED Calls!firewallCallVars
  BY DEF CallBars, OwnFirewall, InCall, CallBar, OwnDoomed, RemovingBar, AbandonedBar,
         Calls!firewallCallVars

\* Whatever is not the program's, others may add and remove it unseen.
LEMMA OwnStays ==
  ASSUME NEW n \in OtherNames
  PROVE  {r \in firewall \cup {OtherRule(n)} : r.name \in OwnNames} = OwnFirewall
  BY OtherRuleFields, FirewallAssumption DEF OwnFirewall

LEMMA DoomedTail ==
  ASSUME NamesInv, NamedOnce, doomed # <<>>
  PROVE  /\ Head(doomed) \in OwnNames \cup Similar
         /\ {Tail(doomed)[i] : i \in DOMAIN Tail(doomed)} \cap OwnNames = OwnDoomed \ {Head(doomed)}
         /\ Head(doomed) \in OwnNames => Head(doomed) \in OwnDoomed
  <1>1. doomed \in Seq(OwnNames \cup Similar)
    BY DEF NamesInv
  <1>2. /\ Len(doomed) \in Nat /\ Len(doomed) > 0 /\ DOMAIN doomed = 1 .. Len(doomed)
        /\ DOMAIN Tail(doomed) = 1 .. Len(doomed) - 1
        /\ \A i \in 1 .. Len(doomed) - 1 : Tail(doomed)[i] = doomed[i + 1]
        /\ Head(doomed) = doomed[1] /\ doomed[1] \in OwnNames \cup Similar
    BY <1>1, HeadTailProperties, LenProperties, EmptySeq
  <1>3. ASSUME NEW n \in OwnNames, NEW i \in DOMAIN Tail(doomed), n = Tail(doomed)[i]
        PROVE  n \in OwnDoomed \ {Head(doomed)}
    <2>1. i + 1 \in DOMAIN doomed /\ n = doomed[i + 1] /\ i + 1 # 1 /\ 1 \in DOMAIN doomed
      BY <1>2, <1>3
    <2>2. n # doomed[1]
      BY <2>1 DEF NamedOnce
    <2>3. QED
      BY <1>2, <2>1, <2>2 DEF OwnDoomed
  <1>4. ASSUME NEW n \in OwnDoomed \ {Head(doomed)}
        PROVE  \E i \in DOMAIN Tail(doomed) : n = Tail(doomed)[i]
    <2>1. PICK i \in DOMAIN doomed : n = doomed[i]
      BY DEF OwnDoomed
    <2>2. i # 1
      BY <1>2, <2>1
    <2>3. i - 1 \in DOMAIN Tail(doomed) /\ Tail(doomed)[i - 1] = doomed[i]
      BY <1>2, <2>2
    <2>4. QED
      BY <2>1, <2>3
  <1>5. Head(doomed) \in OwnNames => Head(doomed) \in OwnDoomed
    BY <1>2 DEF OwnDoomed
  <1>6. QED
    BY <1>2, <1>3, <1>4, <1>5 DEF OwnDoomed

\* Each step of a call is a step of FirewallCalls, or invisible.
LEMMA CallsStep ==
  ASSUME DraftInv, NamesInv, LoopInv, CallInv, [Next]_vars
  PROVE  Calls!CallsNext \/ UNCHANGED Calls!firewallCallVars
  <1> USE DEF CallInv
  <1>1. ASSUME NEW n \in OwnNames, DeleteRuleByName(n)
        PROVE  Calls!AskToRemove(n)
    <2>1. doomed = <<>> /\ doomed' = <<n>> /\ step = "idle" /\ step' = "remove"
          /\ UNCHANGED <<firewall, request, skipped>>
      BY <1>1 DEF DeleteRuleByName, OneCall
    <2>2. {doomed[i] : i \in DOMAIN doomed} \cap OwnNames = {}
      BY <2>1, EmptyDomain
    <2>3. {doomed'[i] : i \in DOMAIN doomed'} \cap OwnNames = {n}
      BY <2>1
    <2>4. QED
      BY <2>1, <2>2, <2>3 DEF Calls!AskToRemove, Up
  <1>2. ASSUME NEW n \in OwnNames, NEW a \in Addresses, BlockInboundIP(n, a)
        PROVE  Calls!AskToAdd(BlockRule(n, a))
    <2>1. doomed = <<>> /\ doomed' = <<>> /\ step = "idle" /\ step' = "create"
          /\ request' = BlockRule(n, a) /\ UNCHANGED <<firewall, skipped>>
      BY <1>2 DEF BlockInboundIP, OneCall
    <2>2. {doomed[i] : i \in DOMAIN doomed} \cap OwnNames = {}
      BY <2>1, EmptyDomain
    <2>3. BlockRule(n, a).name \notin Calls!NamesOf(OwnFirewall)
      BY <1>2, OwnRules, KnownFirewall, BlockRuleFields
         DEF BlockInboundIP, DraftInv, OwnFirewall, Calls!NamesOf
    <2>4. QED
      BY <2>1, <2>2, <2>3 DEF Calls!AskToAdd, Up, OwnFirewall
  <1>3. CASE AddRule
    <2>1. step = "add" /\ step' = "idle" /\ firewall' = firewall \cup {request} /\ UNCHANGED skipped
          /\ doomed = <<>> /\ doomed' = <<>>
      BY <1>3 DEF AddRule, Return, OneCall, DraftInv, DraftMatches
    <2>2. request.name \in OwnNames /\ request # NewRule
      BY <2>1, OwnRules DEF DraftInv, DraftMatches
    <2>3. OwnFirewall' = OwnFirewall \cup {request}
      BY <2>1, <2>2 DEF OwnFirewall
    <2>4. Calls!Add
      BY <2>1, <2>2, <2>3 DEF Calls!Add, Up, OwnFirewall
    <2>5. QED
      BY <2>4 DEF Calls!CallsNext
  <1>4. CASE CallFails
    <2>1. step \in {"create", "set", "add"} /\ step' = "idle" /\ UNCHANGED <<firewall, skipped>>
          /\ doomed = <<>> /\ doomed' = <<>>
      BY <1>4 DEF CallFails, Fails, Return, OneCall
    <2>2. request # NewRule
      BY <2>1, OwnRules DEF DraftInv, DraftMatches
    <2>3. Calls!FailToAdd
      BY <2>1, <2>2 DEF Calls!FailToAdd, Up
    <2>4. QED
      BY <2>3 DEF Calls!CallsNext
  <1>5. CASE CleanupFails
    <2>1. step = "open" /\ step' = "idle" /\ skipped' = {r.name : r \in firewall} /\ doomed' = <<>>
          /\ UNCHANGED firewall
      BY <1>5 DEF CleanupFails, Return
    <2>2. Calls!NamesOf(OwnFirewall) \subseteq {} \cup (skipped' \cap OwnNames)
      BY <2>1 DEF Calls!NamesOf, OwnFirewall
    <2>3. {doomed'[i] : i \in DOMAIN doomed'} \cap OwnNames = {}
      BY <2>1, EmptyDomain
    <2>4. \E noted, missed \in SUBSET OwnNames :
            /\ Calls!NamesOf(OwnFirewall) \subseteq noted \cup missed
            /\ RemovingBar' = noted
            /\ AbandonedBar' = missed
      <3>1. RemovingBar' = {} /\ AbandonedBar' = skipped' \cap OwnNames
        BY <2>1, <2>3 DEF RemovingBar, AbandonedBar, Up, OwnDoomed
      <3>2. QED
        BY <2>2, <3>1
    <2>5. Calls!CleanUp
      BY <2>1, <2>4 DEF Calls!CleanUp, Up, OwnFirewall, RemovingBar, AbandonedBar, OwnDoomed
    <2>6. QED
      BY <2>5 DEF Calls!CallsNext
  <1>6. CASE NextRule
    <2>1. CASE step' = "next"
      BY <1>6, <2>1, CallsVars DEF NextRule, CallBars, OwnFirewall, Up, CallBar, InCall, RemovingBar, AbandonedBar
    <2>2. CASE step' # "next"
      <3>1. /\ step = "next" /\ step' = "remove" /\ UNCHANGED <<doomed, firewall>>
            /\ skipped' = skipped \cup {r.name : r \in enum}
            /\ request' = request
        BY <1>6, <2>2 DEF NextRule
      <3>2. Calls!NamesOf(OwnFirewall) \subseteq OwnDoomed \cup (skipped' \cap OwnNames)
        BY <3>1 DEF Calls!NamesOf, OwnFirewall, OwnDoomed, LoopInv, Doomed
      <3>3. RemovingBar' = OwnDoomed /\ AbandonedBar' = skipped' \cap OwnNames
        BY <3>1 DEF RemovingBar, AbandonedBar, Up, OwnDoomed
      <3>4. \E noted, missed \in SUBSET OwnNames :
              /\ Calls!NamesOf(OwnFirewall) \subseteq noted \cup missed
              /\ RemovingBar' = noted
              /\ AbandonedBar' = missed
        BY <3>2, <3>3 DEF OwnDoomed
      <3>5. Calls!CleanUp
        BY <3>1, <3>4 DEF Calls!CleanUp, Up, OwnFirewall, RemovingBar, AbandonedBar, OwnDoomed
      <3>6. QED
        BY <3>5 DEF Calls!CallsNext
    <2>3. QED
      BY <2>1, <2>2
  <1>7. CASE Remove
    <2>0. PICK n \in OwnNames \cup Similar : n = Head(doomed)
      BY <1>7, DoomedTail DEF Remove
    <2> DEFINE named == {r \in firewall : r.name = n}
    <2>1. /\ doomed # <<>> /\ step = "remove" /\ step' = "remove"
          /\ n \in OwnNames \cup Similar /\ OwnDoomed' = OwnDoomed \ {n}
          /\ n \in OwnNames => n \in OwnDoomed
      BY <1>7, <2>0, DoomedTail DEF Remove, OwnDoomed
    <2>2. RemovingBar = OwnDoomed /\ RemovingBar' = OwnDoomed \ {n} /\ Up /\ Up'
          /\ ~InCall /\ ~InCall'
          /\ AbandonedBar = skipped \cap OwnNames /\ AbandonedBar' = skipped' \cap OwnNames
      BY <2>1 DEF RemovingBar, AbandonedBar, Up, InCall
    <2>3. \/ \E r \in named : firewall' = firewall \ {r} /\ UNCHANGED skipped
          \/ named = {} /\ UNCHANGED <<firewall, skipped>>
          \/ named # {} /\ skipped' = skipped \cup {n} /\ UNCHANGED firewall
      BY <1>7, <2>0 DEF Remove
    <2>4. CASE n \in OwnNames
      <3>1. \/ OwnFirewall' = {r \in OwnFirewall : r.name # n} /\ AbandonedBar' = AbandonedBar
            \/ OwnFirewall' = OwnFirewall /\ AbandonedBar' = AbandonedBar \cup {n}
        <4>1. ASSUME NEW r \in named, firewall' = firewall \ {r}, UNCHANGED skipped
              PROVE  OwnFirewall' = {q \in OwnFirewall : q.name # n} /\ AbandonedBar' = AbandonedBar
          <5>1. \A q \in firewall : q.name = n => q = r
            BY <2>4, OwnRules, KnownFirewall DEF DraftInv, RulesHaveTheirNames
          <5>2. QED
            BY <2>2, <4>1, <5>1 DEF OwnFirewall
        <4>2. CASE named = {} /\ UNCHANGED <<firewall, skipped>>
          BY <2>2, <4>2 DEF OwnFirewall
        <4>3. CASE skipped' = skipped \cup {n} /\ UNCHANGED firewall
          BY <2>2, <2>4, <4>3 DEF OwnFirewall
        <4>4. QED
          BY <2>3, <4>1, <4>2, <4>3
      <3>2. Calls!RemoveName(n)
        BY <1>7, <2>1, <2>2, <2>4, <3>1
           DEF Remove, Calls!RemoveName, OwnFirewall, RemovingBar, AbandonedBar, OwnDoomed, InCall
      <3>3. QED
        BY <2>4, <3>2 DEF Calls!CallsNext
    <2>5. CASE n \notin OwnNames
      <3>1. OwnFirewall' = OwnFirewall /\ AbandonedBar' = AbandonedBar
        BY <2>2, <2>3, <2>5 DEF OwnFirewall
      <3>2. RemovingBar' = RemovingBar /\ CallBar' = CallBar /\ Up' = Up
        BY <2>2, <2>5 DEF OwnDoomed, CallBar
      <3>3. QED
        BY <3>1, <3>2, CallsVars DEF CallBars
    <2>6. QED
      BY <2>4, <2>5
  <1>8. CASE End
    <2>1. step # "down" /\ step' = "down" /\ UNCHANGED firewall
      BY <1>8 DEF End
    <2>2. CASE Up
      <3>1. Calls!GoDown
        BY <2>1, <2>2 DEF Calls!GoDown, Up
      <3>2. QED
        BY <3>1 DEF Calls!CallsNext
    <2>3. CASE ~Up
      BY <2>1, <2>3, CallsVars DEF CallBars, OwnFirewall, Up, CallBar, InCall, RemovingBar, AbandonedBar
    <2>4. QED
      BY <2>2, <2>3
  <1>9. CASE Edit
    <2>1. UNCHANGED <<Up, CallBar, RemovingBar, AbandonedBar>>
      BY <1>9 DEF Edit, callVars, Up, CallBar, InCall, RemovingBar, AbandonedBar, OwnDoomed
    <2>2. ASSUME NEW n \in OtherNames, firewall' = firewall \cup {OtherRule(n)}
          PROVE  UNCHANGED Calls!firewallCallVars
      BY <2>1, <2>2, OwnStays, CallsVars DEF CallBars, OwnFirewall
    <2>3. ASSUME NEW r \in firewall, firewall' = firewall \ {r}
          PROVE  Calls!CallsNext \/ UNCHANGED Calls!firewallCallVars
      <3>1. CASE r.name \in OwnNames
        <4>1. r \in MadeRules
          BY <3>1, OwnRules, KnownFirewall DEF DraftInv, NamesInv, MadeRules
        <4>2. OwnFirewall' = OwnFirewall \ {r}
          BY <2>3 DEF OwnFirewall
        <4>3. Calls!TakeAway(r)
          BY <2>1, <4>2 DEF Calls!TakeAway, OwnFirewall, CallBar, InCall, RemovingBar, AbandonedBar, OwnDoomed
        <4>4. QED
          BY <4>1, <4>3 DEF Calls!CallsNext, MadeRules
      <3>2. CASE r.name \notin OwnNames
        BY <2>1, <2>3, <3>2, CallsVars DEF CallBars, OwnFirewall
      <3>3. QED
        BY <3>1, <3>2
    <2>4. QED
      BY <1>9, <2>2, <2>3 DEF Edit
  <1>10. CASE Start \/ CreateFireWallRule \/ SetField \/ OpenEnumerator
    BY <1>10, CallsVars
       DEF Start, CreateFireWallRule, SetField, OpenEnumerator, callVars, CallBars, OwnFirewall, Up, CallBar,
           InCall, RemovingBar, AbandonedBar, OwnDoomed
  <1>11. CASE RemovedAll
    <2>1. doomed = <<>> /\ doomed' = <<>> /\ step = "remove" /\ step' = "idle" /\ UNCHANGED <<firewall, skipped>>
      BY <1>11 DEF RemovedAll, Return
    <2>2. QED
      BY <2>1, CallsVars DEF CallBars, OwnFirewall, Up, CallBar, InCall, RemovingBar, AbandonedBar, OwnDoomed
  <1>12. CASE UNCHANGED vars
    BY <1>12, CallsVars
       DEF vars, callVars, CallBars, OwnFirewall, Up, CallBar, InCall, RemovingBar, AbandonedBar, OwnDoomed
  <1>13. \A n \in OwnNames : Calls!AskToRemove(n) => Calls!CallsNext
    BY DEF Calls!CallsNext
  <1>14. \A n \in OwnNames, a \in Addresses : Calls!AskToAdd(BlockRule(n, a)) => Calls!CallsNext
    BY DEF Calls!CallsNext
  <1>15. QED
    BY <1>1, <1>2, <1>3, <1>4, <1>5, <1>6, <1>7, <1>8, <1>9, <1>10, <1>11, <1>12, <1>13, <1>14
       DEF Next, ProgramStep

\* However many COM calls a function makes, whichever of them fails and whatever
\* others edit meanwhile, it is one step for the blocking pipeline: the rule
\* asked for is added whole or not at all, a name to be removed is gone or
\* given up, and the clean-up accounts for every rule of an earlier run
\* (firewall_controller.cpp:205-341).
THEOREM ControllerImplementsCalls == FirewallSpec => ImplementsCalls
  <1> DEFINE I == DraftInv /\ NamesInv /\ LoopInv /\ CallInv
  <1>1. Init => I /\ Calls!CallsInit
    <2> SUFFICES ASSUME Init
                 PROVE  I /\ Calls!CallsInit
      OBVIOUS
    <2>1. I
      BY DraftInit, NamesInit, LoopInit, CallInit
    <2>2. \A r \in firewall : r.name \notin OwnNames
      BY OtherRuleFields, FirewallAssumption DEF Init
    <2>3. QED
      BY <2>1, <2>2 DEF Calls!CallsInit, Init, Up
  <1>2. I /\ [Next]_vars => I' /\ (Calls!CallsNext \/ UNCHANGED Calls!firewallCallVars)
    BY DraftStep, NamesStep, LoopStep, CallStep, CallsStep
  <1>3. QED
    BY <1>1, <1>2, PTL DEF FirewallSpec, ImplementsCalls, Calls!CallsSpec

=============================================================================
