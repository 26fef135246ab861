----------------------- MODULE EventSubscriptionProofs -----------------------
(***************************************************************************)
(* Proofs about the way of an event from the event-log service to an event *)
(* thread, for any number of callback threads, event threads and events.   *)
(***************************************************************************)
EXTENDS EventSubscription, ConcurrentQueueProofs, SequenceTheorems

-----------------------------------------------------------------------------
(* Every step of the subscription is a step of the queue, or leaves it     *)
(* alone.                                                                  *)

LEMMA QueueSteps == SubscriptionTypeOK /\ [SubscriptionNext]_vars => [QueueNext]_queueVars
  <1> SUFFICES ASSUME SubscriptionTypeOK, [SubscriptionNext]_vars
               PROVE  [QueueNext]_queueVars
    OBVIOUS
  <1>1. ASSUME NEW w \in Writers, Push(w)
        PROVE  QueueNext
    <2>1. inHand[w] \in Values
      BY <1>1 DEF Push, BeginPush, SubscriptionTypeOK, QueueTypeOK
    <2>2. BeginPush(w, inHand[w])
      BY <1>1 DEF Push
    <2>3. QED
      BY <2>1, <2>2 DEF QueueNext
  <1>2. ASSUME NEW t \in Threads, QueueStep(t)
        PROVE  QueueNext
    BY <1>2 DEF QueueStep, QueueNext
  <1>3. ASSUME NEW r \in Readers, PopBegins(r) \/ WakesUp(r)
        PROVE  QueueNext
    BY <1>3 DEF PopBegins, WakesUp, QueueNext
  <1>4. ASSUME Subscribe \/ EndOfProcess \/ \E v \in Values : Miss(v)
        PROVE  UNCHANGED queueVars
    BY <1>4 DEF Subscribe, EndOfProcess, Miss
  <1>5. ASSUME NEW w \in Writers,
               AskSize(w) \/ RenderContent(w) \/ Drop(w) \/ \E v \in Values : Deliver(w, v)
        PROVE  UNCHANGED queueVars
    BY <1>5 DEF AskSize, RenderContent, Rendering, Drop, Deliver
  <1>6. ASSUME NEW r \in Readers, Handle(r)
        PROVE  UNCHANGED queueVars
    BY <1>6 DEF Handle
  <1>7. CASE UNCHANGED vars
    BY <1>7 DEF vars
  <1>8. QED
    BY <1>1, <1>2, <1>3, <1>4, <1>5, <1>6, <1>7 DEF SubscriptionNext, CallbackStep

-----------------------------------------------------------------------------
(* Typing, with what each callback has in hand.                            *)

\* A callback has an event exactly while it renders it.
CallbackInv == \A w \in Writers : inHand[w] = NoEvent <=> render[w] = "no"

LEMMA SubscriptionTypeInit == SubscriptionInit => SubscriptionTypeOK /\ CallbackInv
  <1>1. QueueInit => QueueTypeOK
    BY TypeInit
  <1>2. QED
    BY <1>1 DEF SubscriptionInit, SubscriptionTypeOK, CallbackInv

LEMMA SubscriptionTypeStep ==
  ASSUME SubscriptionTypeOK, CallbackInv, [SubscriptionNext]_vars
  PROVE  SubscriptionTypeOK' /\ CallbackInv'
  <1> DEFINE Inv == SubscriptionTypeOK /\ CallbackInv
  <1>0. QueueTypeOK'
    BY QueueSteps, TypeStep DEF SubscriptionTypeOK
  <1> USE <1>0, SubscriptionAssumption
      DEF SubscriptionTypeOK, CallbackInv
  <1>1. ASSUME Subscribe \/ EndOfProcess
        PROVE  Inv'
    BY <1>1 DEF Subscribe, EndOfProcess, callbackVars
  <1>2. ASSUME NEW v \in Values, Miss(v)
        PROVE  Inv'
    BY <1>2 DEF Miss, callbackVars
  <1>3. ASSUME NEW w \in Writers, NEW v \in Values, Deliver(w, v)
        PROVE  Inv'
    BY <1>3 DEF Deliver
  <1>4. ASSUME NEW w \in Writers, AskSize(w)
        PROVE  Inv'
    BY <1>4 DEF AskSize, Rendering
  <1>5. ASSUME NEW w \in Writers, RenderContent(w)
        PROVE  Inv'
    BY <1>5 DEF RenderContent, Rendering
  <1>6. ASSUME NEW w \in Writers, Push(w)
        PROVE  Inv'
    BY <1>6 DEF Push
  <1>7. ASSUME NEW w \in Writers, Drop(w)
        PROVE  Inv'
    BY <1>7 DEF Drop
  <1>8. ASSUME NEW r \in Readers, Handle(r)
        PROVE  Inv'
    BY <1>8 DEF Handle, callbackVars
  <1>9. ASSUME UNCHANGED subscriptionVars
        PROVE  Inv'
    BY <1>9 DEF subscriptionVars, callbackVars
  <1>10. QED
    BY <1>1, <1>2, <1>3, <1>4, <1>5, <1>6, <1>7, <1>8, <1>9
       DEF SubscriptionNext, CallbackStep, QueueStep, PopBegins, WakesUp, vars

\* Every variable keeps its type, for every value of the constants.
THEOREM SubscriptionTypeCorrect == SubscriptionSpec => [](SubscriptionTypeOK /\ CallbackInv)
  <1>1. (SubscriptionTypeOK /\ CallbackInv) /\ [SubscriptionNext]_vars
          => (SubscriptionTypeOK /\ CallbackInv)'
    BY SubscriptionTypeStep
  <1>2. QED
    BY <1>1, SubscriptionTypeInit, PTL DEF SubscriptionSpec

\* The subscription uses the queue as ConcurrentQueue has it, so that what is
\* proved of the queue holds of it (subscribe_system_event.cpp:51, 134-142).
THEOREM SubscriptionImplementsQueue == SubscriptionSpec => QueueSpec
  <1>1. SubscriptionInit => QueueInit
    BY DEF SubscriptionInit
  <1>2. SubscriptionTypeOK /\ [SubscriptionNext]_vars => [QueueNext]_queueVars
    BY QueueSteps
  <1>3. QED
    BY <1>1, <1>2, SubscriptionTypeCorrect, PTL DEF SubscriptionSpec, QueueSpec

\* What the queue promises holds between the callbacks and the event threads:
\* one thread at a time is in a critical section, an event thread never takes
\* from an empty queue, none sleeps on an event that nobody will announce, and
\* events leave in the order in which they were pushed
\* (concurrent_queue.h:18-66, subscribe_system_event.cpp:51, 134-142).
THEOREM SubscriptionKeepsQueuePromises ==
  SubscriptionSpec => []OneInCritical /\ []NeverPopsEmpty /\ []NoLostWakeup /\ ImplementsFifo
  BY SubscriptionImplementsQueue, MutualExclusion, FrontExists, WakeupsArrive,
     QueueImplementsFifo, PTL
-----------------------------------------------------------------------------
(* Every event is in exactly one place.                                    *)

PlaceNumbers == 1 .. 6

\* Event v goes from one place to another, and nothing else moves.
Moves(v, from, to) ==
  \A p \in PlaceNumbers :
    Places'[p] = CASE p = from -> Places[p] \ {v} [] p = to -> Places[p] \cup {v} [] OTHER -> Places[p]

LEMMA SixPlaces ==
  /\ Places[1] = upcoming /\ Places[2] = InHand /\ Places[3] = BeingPushed
  /\ Places[4] = InQueue /\ Places[5] = Taken /\ Places[6] = lost
  BY DEF Places

LEMMA SixPlacesNext ==
  /\ Places'[1] = upcoming' /\ Places'[2] = InHand' /\ Places'[3] = BeingPushed'
  /\ Places'[4] = InQueue' /\ Places'[5] = Taken' /\ Places'[6] = lost'
  BY DEF Places

LEMMA PlaceCases == \A p \in PlaceNumbers : p \in {1, 2, 3, 4, 5, 6}
  BY DEF PlaceNumbers

\* A move keeps every event in exactly one place.
LEMMA AccountsAfterMove ==
  ASSUME EventsAccounted,
         NEW v, NEW from \in PlaceNumbers, NEW to \in PlaceNumbers, from # to,
         v \in Places[from], Moves(v, from, to)
  PROVE  EventsAccounted'
  <1> DEFINE P == Places
             Q == Places'
  <1>1. \A x \in Values : \E place \in PlaceNumbers :
          \A p \in PlaceNumbers : x \in P[p] <=> p = place
    BY DEF EventsAccounted, PlaceNumbers
  <1>2. /\ v \in P[from]
        /\ Q[from] = P[from] \ {v} /\ Q[to] = P[to] \cup {v}
        /\ \A p \in PlaceNumbers : p # from /\ p # to => Q[p] = P[p]
    BY DEF Moves
  <1> HIDE DEF P, Q
  <1>3. ASSUME NEW x \in Values
        PROVE  \E place \in PlaceNumbers : \A p \in PlaceNumbers : x \in Q[p] <=> p = place
    <2>1. PICK place \in PlaceNumbers : \A p \in PlaceNumbers : x \in P[p] <=> p = place
      BY <1>1
    <2>2. CASE x = v
      <3>1. place = from
        BY <1>2, <2>1, <2>2
      <3>2. \A p \in PlaceNumbers : x \in Q[p] <=> p = to
        BY <1>2, <2>1, <2>2, <3>1
      <3>3. QED
        BY <3>2
    <2>3. CASE x # v
      <3>1. \A p \in PlaceNumbers : x \in Q[p] <=> x \in P[p]
        BY <1>2, <2>3
      <3>2. QED
        BY <2>1, <3>1
    <2>4. QED
      BY <2>2, <2>3
  <1>4. QED
    BY <1>3 DEF EventsAccounted, PlaceNumbers, Q

LEMMA AccountsUnmoved ==
  ASSUME EventsAccounted,
         UNCHANGED <<upcoming, InHand, BeingPushed, InQueue, Taken, lost>>
  PROVE  EventsAccounted'
  BY DEF EventsAccounted, Places

\* An event in one place is in no other.
LEMMA NowhereElse ==
  ASSUME EventsAccounted, NEW v \in Values
  PROVE  /\ v \in upcoming => v \notin InHand
         /\ v \in InHand => v \notin BeingPushed
         /\ v \in BeingPushed => v \notin InQueue
  <1>1. PICK place \in PlaceNumbers : \A p \in PlaceNumbers : v \in Places[p] <=> p = place
    BY DEF EventsAccounted, PlaceNumbers
  <1>2. 1 \in PlaceNumbers /\ 2 \in PlaceNumbers /\ 3 \in PlaceNumbers /\ 4 \in PlaceNumbers
    BY DEF PlaceNumbers
  <1>3. QED
    BY <1>1, <1>2, SixPlaces

Elements(s) == {s[i] : i \in DOMAIN s}

\* What is in a sequence after something joined it at the end.
LEMMA ElementsAfterAppend ==
  ASSUME NEW S, NEW s \in Seq(S), NEW e \in S
  PROVE  Elements(Append(s, e)) = Elements(s) \cup {e}
  <1> DEFINE t == Append(s, e)
             len == Len(s)
  <1>1. /\ len \in Nat /\ DOMAIN s = 1 .. len /\ DOMAIN t = 1 .. len + 1
        /\ \A i \in 1 .. len : t[i] = s[i]
        /\ t[len + 1] = e
    BY AppendProperties, LenProperties
  <1> HIDE DEF t, len
  <1>2. \A i \in DOMAIN t : t[i] \in Elements(s) \cup {e}
    <2>1. \A i \in DOMAIN t : i \in DOMAIN s \/ i = len + 1
      BY <1>1, SMT
    <2>2. QED
      BY <1>1, <2>1 DEF Elements
  <1>3. \A i \in DOMAIN s : i \in DOMAIN t /\ t[i] = s[i]
    BY <1>1, SMT
  <1>4. len + 1 \in DOMAIN t
    BY <1>1, SMT
  <1>5. Elements(t) = Elements(s) \cup {e}
    BY <1>1, <1>2, <1>3, <1>4 DEF Elements
  <1>6. QED
    BY <1>5 DEF t

\* What is in a sequence without repetitions after its head was taken.
LEMMA ElementsAfterTail ==
  ASSUME NEW S, NEW s \in Seq(S), s # <<>>,
         \A i, j \in DOMAIN s : i # j => s[i] # s[j]
  PROVE  /\ Elements(Tail(s)) = Elements(s) \ {Head(s)}
         /\ Head(s) \in Elements(s)
         /\ \A i, j \in DOMAIN Tail(s) : i # j => Tail(s)[i] # Tail(s)[j]
  <1> DEFINE t == Tail(s)
             len == Len(s)
             h == Head(s)
  <1>1. /\ len \in Nat \ {0} /\ DOMAIN s = 1 .. len /\ DOMAIN t = 1 .. len - 1
        /\ \A i \in 1 .. len - 1 : t[i] = s[i + 1]
        /\ h = s[1]
    BY HeadTailProperties, LenProperties
  <1> HIDE DEF t, len, h
  <1>2. \A i \in DOMAIN t : i + 1 \in DOMAIN s /\ i + 1 # 1 /\ t[i] = s[i + 1]
    BY <1>1, SMT
  <1>3. \A i \in DOMAIN s : i # 1 => i - 1 \in DOMAIN t /\ t[i - 1] = s[i]
    BY <1>1, SMT
  <1>4. 1 \in DOMAIN s
    BY <1>1, SMT
  <1>5. h \in Elements(s)
    BY <1>1, <1>4 DEF Elements
  <1>6. \A i \in DOMAIN t : t[i] \in Elements(s) \ {h}
    BY <1>1, <1>2, <1>4 DEF Elements
  <1>7. \A i \in DOMAIN s : s[i] # h => s[i] \in Elements(t)
    <2>1. \A i \in DOMAIN s : s[i] # h => i - 1 \in DOMAIN t /\ t[i - 1] = s[i]
      BY <1>1, <1>3
    <2>2. QED
      BY <2>1 DEF Elements
  <1>8. Elements(t) = Elements(s) \ {h}
    BY <1>6, <1>7 DEF Elements
  <1>9. \A i, j \in DOMAIN t : i # j => t[i] # t[j]
    <2>1. \A i, j \in DOMAIN t : i # j => i + 1 # j + 1
      BY <1>1, SMT
    <2>2. QED
      BY <1>2, <2>1
  <1>10. QED
    BY <1>5, <1>8, <1>9 DEF t, h

\* No two callbacks have one event in hand or push it, and the queue holds no
\* event twice.
Pushing(w) == pc[w] \in {"lock", "push"}
HandsDiffer == \A w, x \in Writers : w # x /\ inHand[w] # NoEvent => inHand[w] # inHand[x]
PushersDiffer == \A w, x \in Writers : w # x /\ Pushing(w) /\ Pushing(x) => pushing[w] # pushing[x]
QueueDiffers == \A i, j \in DOMAIN queue : i # j => queue[i] # queue[j]

AccountInv == EventsAccounted /\ HandsDiffer /\ PushersDiffer /\ QueueDiffers

LEMMA AccountInit == SubscriptionInit => AccountInv
  <1> SUFFICES ASSUME SubscriptionInit
               PROVE  AccountInv
    OBVIOUS
  <1> USE QueueAssumption DEF SubscriptionInit, QueueInit, Threads
  <1>1. HandsDiffer /\ PushersDiffer /\ QueueDiffers
    BY DEF HandsDiffer, PushersDiffer, Pushing, QueueDiffers
  <1>2. upcoming = Values /\ InHand = {} /\ BeingPushed = {} /\ lost = {}
    BY DEF InHand, BeingPushed
  <1>3. InQueue = {} /\ Taken = {}
    BY DEF InQueue, Taken
  <1>4. \A v \in Values, p \in PlaceNumbers : v \in Places[p] <=> p = 1
    BY <1>2, <1>3, SixPlaces, PlaceCases
  <1>5. 1 \in PlaceNumbers
    BY DEF PlaceNumbers
  <1>6. QED
    BY <1>1, <1>4, <1>5 DEF AccountInv, EventsAccounted, PlaceNumbers

\* The steps of the callbacks, of which Deliver, Push and Drop move an event.
LEMMA AccountCallback ==
  ASSUME SubscriptionTypeOK, CallbackInv, AccountInv, NEW w \in Writers,
         CallbackStep(w) \/ \E v \in Values : Deliver(w, v)
  PROVE  AccountInv'
  <1> USE QueueAssumption, SubscriptionAssumption
      DEF AccountInv, SubscriptionTypeOK, QueueTypeOK, Threads
  <1>1. ASSUME NEW v \in Values, Deliver(w, v)
        PROVE  AccountInv'
    <2>1. /\ inHand[w] = NoEvent /\ inHand' = [inHand EXCEPT ![w] = v]
          /\ v \in upcoming /\ upcoming' = upcoming \ {v}
          /\ UNCHANGED <<queueVars, lost>>
      BY <1>1 DEF Deliver
    <2>2. InHand' = InHand \cup {v}
      BY <2>1 DEF InHand
    <2>3. UNCHANGED <<BeingPushed, InQueue, Taken>>
      BY <2>1 DEF BeingPushed, InQueue, Taken, queueVars
    <2>4. Moves(v, 1, 2)
      BY <2>1, <2>2, <2>3, SixPlaces, SixPlacesNext, PlaceCases DEF Moves
    <2>5. EventsAccounted'
      <3>1. 1 \in PlaceNumbers /\ 2 \in PlaceNumbers
        BY DEF PlaceNumbers
      <3>2. QED
        BY <2>1, <2>4, <3>1, SixPlaces, AccountsAfterMove
    <2>6. HandsDiffer'
      <3>1. v \notin InHand
        BY <2>1, NowhereElse
      <3>2. \A x \in Writers : x # w => inHand'[x] = inHand[x] /\ inHand[x] # v
        BY <2>1, <3>1 DEF InHand
      <3>3. QED
        BY <2>1, <3>2 DEF HandsDiffer
    <2>7. PushersDiffer' /\ QueueDiffers'
      BY <2>1 DEF PushersDiffer, Pushing, QueueDiffers, queueVars
    <2>8. QED
      BY <2>5, <2>6, <2>7
  <1>2. ASSUME AskSize(w) \/ RenderContent(w)
        PROVE  AccountInv'
    <2>1. UNCHANGED <<queueVars, upcoming, inHand, lost>>
      BY <1>2 DEF AskSize, RenderContent, Rendering
    <2>2. UNCHANGED <<upcoming, InHand, BeingPushed, InQueue, Taken, lost>>
      BY <2>1 DEF InHand, BeingPushed, InQueue, Taken, queueVars
    <2>3. EventsAccounted'
      BY <2>2, AccountsUnmoved
    <2>4. QED
      BY <2>1, <2>3 DEF HandsDiffer, PushersDiffer, Pushing, QueueDiffers, queueVars
  <1>3. ASSUME Push(w)
        PROVE  AccountInv'
    <2> DEFINE v == inHand[w]
    <2>1. /\ v \in Values /\ inHand' = [inHand EXCEPT ![w] = NoEvent]
          /\ pc[w] = "out" /\ pc' = [pc EXCEPT ![w] = "lock"]
          /\ pushing' = [pushing EXCEPT ![w] = v]
          /\ UNCHANGED <<upcoming, lost, queue, taken>>
      BY <1>3 DEF Push, BeginPush, At, Goto
    <2>2. InHand' = InHand \ {v} /\ v \in InHand
      <3>1. \A x \in Writers : x # w => inHand'[x] = inHand[x] /\ inHand[x] # v
        BY <2>1 DEF HandsDiffer
      <3>2. QED
        BY <2>1, <3>1 DEF InHand
    <2>3. BeingPushed' = BeingPushed \cup {v}
      BY <2>1 DEF BeingPushed
    <2>4. UNCHANGED <<InQueue, Taken>>
      BY <2>1 DEF InQueue, Taken
    <2>5. Moves(v, 2, 3)
      BY <2>1, <2>2, <2>3, <2>4, SixPlaces, SixPlacesNext, PlaceCases DEF Moves
    <2>6. EventsAccounted'
      <3>1. 2 \in PlaceNumbers /\ 3 \in PlaceNumbers
        BY DEF PlaceNumbers
      <3>2. QED
        BY <2>2, <2>5, <3>1, SixPlaces, AccountsAfterMove
    <2>7. HandsDiffer' /\ QueueDiffers'
      BY <2>1 DEF HandsDiffer, QueueDiffers
    <2>8. PushersDiffer'
      <3>1. v \notin BeingPushed
        BY <2>1, <2>2, NowhereElse
      <3>2. \A x \in Writers : x # w =>
              pc'[x] = pc[x] /\ pushing'[x] = pushing[x] /\ (Pushing(x) => pushing[x] # v)
        BY <2>1, <3>1 DEF BeingPushed, Pushing
      <3>3. QED
        BY <2>1, <3>2 DEF PushersDiffer, Pushing
    <2>9. QED
      BY <2>6, <2>7, <2>8
  <1>4. ASSUME Drop(w)
        PROVE  AccountInv'
    <2> DEFINE v == inHand[w]
    <2>1. /\ v \in Values /\ inHand' = [inHand EXCEPT ![w] = NoEvent]
          /\ lost' = lost \cup {v}
          /\ UNCHANGED <<queueVars, upcoming>>
      BY <1>4 DEF Drop, CallbackInv
    <2>2. InHand' = InHand \ {v} /\ v \in InHand
      <3>1. \A x \in Writers : x # w => inHand'[x] = inHand[x] /\ inHand[x] # v
        BY <2>1 DEF HandsDiffer
      <3>2. QED
        BY <2>1, <3>1 DEF InHand
    <2>3. UNCHANGED <<BeingPushed, InQueue, Taken>>
      BY <2>1 DEF BeingPushed, InQueue, Taken, queueVars
    <2>4. Moves(v, 2, 6)
      BY <2>1, <2>2, <2>3, SixPlaces, SixPlacesNext, PlaceCases DEF Moves
    <2>5. EventsAccounted'
      <3>1. 2 \in PlaceNumbers /\ 6 \in PlaceNumbers
        BY DEF PlaceNumbers
      <3>2. QED
        BY <2>2, <2>4, <3>1, SixPlaces, AccountsAfterMove
    <2>6. HandsDiffer' /\ PushersDiffer' /\ QueueDiffers'
      BY <2>1 DEF HandsDiffer, PushersDiffer, Pushing, QueueDiffers, queueVars
    <2>7. QED
      BY <2>5, <2>6
  <1>5. QED
    BY <1>1, <1>2, <1>3, <1>4 DEF CallbackStep

\* The steps inside push and pop, of which PushAndUnlock and PopAndUnlock move
\* an event.
LEMMA AccountQueue ==
  ASSUME SubscriptionTypeOK, AccountInv, UNCHANGED subscriptionVars,
         \/ \E w \in Writers : PushStep(w)
         \/ \E r \in Readers : PopStep(r) \/ BeginPop(r) \/ SpuriousWakeup(r)
  PROVE  AccountInv'
  <1> USE QueueAssumption DEF AccountInv, SubscriptionTypeOK, QueueTypeOK, Threads
  <1>0. UNCHANGED <<upcoming, inHand, lost, InHand>> /\ HandsDiffer'
    BY DEF subscriptionVars, callbackVars, InHand, HandsDiffer
  <1>1. ASSUME NEW w \in Writers, PushAndUnlock(w)
        PROVE  AccountInv'
    <2> DEFINE v == pushing[w]
    <2>1. /\ v \in Values /\ pc[w] = "push" /\ pc' = [pc EXCEPT ![w] = "notify"]
          /\ queue' = Append(queue, v) /\ UNCHANGED <<pushing, taken>>
      BY <1>1 DEF PushAndUnlock, At, Goto
    <2>2. /\ Len(queue) \in Nat /\ DOMAIN queue = 1 .. Len(queue)
          /\ DOMAIN queue' = 1 .. Len(queue) + 1
          /\ \A i \in 1 .. Len(queue) : queue'[i] = queue[i]
          /\ queue'[Len(queue) + 1] = v
      BY <2>1, AppendProperties, LenProperties
    <2>3. BeingPushed' = BeingPushed \ {v} /\ v \in BeingPushed
      <3>1. \A x \in Writers : x # w => pc'[x] = pc[x] /\ (Pushing(x) => pushing[x] # v)
        BY <2>1 DEF PushersDiffer, Pushing
      <3>2. QED
        BY <2>1, <3>1 DEF BeingPushed, Pushing
    <2>4. InQueue' = InQueue \cup {v}
      <3>1. InQueue = Elements(queue) /\ InQueue' = Elements(queue')
        BY DEF InQueue, Elements
      <3>2. Elements(Append(queue, v)) = Elements(queue) \cup {v}
        <4>1. queue \in Seq(Values) /\ v \in Values
          BY <2>1
        <4>2. QED
          BY <4>1, ElementsAfterAppend
      <3>3. QED
        BY <2>1, <3>1, <3>2
    <2>5. UNCHANGED Taken
      BY <2>1 DEF Taken
    <2>6. Moves(v, 3, 4)
      BY <1>0, <2>3, <2>4, <2>5, SixPlaces, SixPlacesNext, PlaceCases DEF Moves
    <2>7. EventsAccounted'
      <3>1. 3 \in PlaceNumbers /\ 4 \in PlaceNumbers
        BY DEF PlaceNumbers
      <3>2. QED
        BY <2>3, <2>6, <3>1, SixPlaces, AccountsAfterMove
    <2>8. PushersDiffer'
      BY <2>1 DEF PushersDiffer, Pushing
    <2>9. QueueDiffers'
      <3>1. v \notin InQueue
        BY <2>1, <2>3, NowhereElse
      <3>2. \A i \in 1 .. Len(queue) : queue[i] # v
        BY <2>2, <3>1 DEF InQueue
      <3>3. QED
        BY <2>2, <3>2 DEF QueueDiffers
    <2>10. QED
      BY <1>0, <2>7, <2>8, <2>9
  <1>2. ASSUME NEW r \in Readers, PopAndUnlock(r)
        PROVE  AccountInv'
    <2> DEFINE v == Head(queue)
    <2>1. /\ queue # <<>> /\ queue' = Tail(queue)
          /\ taken' = [taken EXCEPT ![r] = Append(@, v)]
          /\ pc[r] = "pop" /\ pc' = [pc EXCEPT ![r] = "out"] /\ pushing' = pushing
      BY <1>2 DEF PopAndUnlock, At, Goto
    <2>2. v \in Values
      BY <2>1, HeadTailProperties
    <2>3. InQueue' = InQueue \ {v} /\ v \in InQueue /\ QueueDiffers'
      <3>1. /\ InQueue = Elements(queue) /\ InQueue' = Elements(queue')
            /\ queue \in Seq(Values)
        BY DEF InQueue, Elements
      <3>2. \A i, j \in DOMAIN queue : i # j => queue[i] # queue[j]
        BY DEF QueueDiffers
      <3>3. /\ Elements(Tail(queue)) = Elements(queue) \ {v}
            /\ v \in Elements(queue)
            /\ \A i, j \in DOMAIN Tail(queue) : i # j => Tail(queue)[i] # Tail(queue)[j]
        BY <2>1, <3>1, <3>2, ElementsAfterTail
      <3>4. QED
        BY <2>1, <3>1, <3>3 DEF QueueDiffers
    <2>4. Taken' = Taken \cup {v}
      <3>1. Elements(taken'[r]) = Elements(taken[r]) \cup {v}
        BY <2>1, <2>2, ElementsAfterAppend
      <3>2. \A q \in Readers : q # r => Elements(taken'[q]) = Elements(taken[q])
        BY <2>1
      <3>3. \A x : (x \in Taken <=> \E q \in Readers : x \in Elements(taken[q]))
        BY DEF Taken, Elements
      <3>4. \A x : (x \in Taken' <=> \E q \in Readers : x \in Elements(taken'[q]))
        BY DEF Taken, Elements
      <3>5. \A x : x \in Taken' <=> x \in Taken \cup {v}
        BY <3>1, <3>2, <3>3, <3>4
      <3>6. QED
        BY <3>5
    <2>5. UNCHANGED BeingPushed /\ PushersDiffer'
      BY <2>1 DEF BeingPushed, PushersDiffer, Pushing
    <2>6. Moves(v, 4, 5)
      BY <1>0, <2>3, <2>4, <2>5, SixPlaces, SixPlacesNext, PlaceCases DEF Moves
    <2>7. EventsAccounted'
      <3>1. 4 \in PlaceNumbers /\ 5 \in PlaceNumbers
        BY DEF PlaceNumbers
      <3>2. QED
        BY <2>3, <2>6, <3>1, SixPlaces, AccountsAfterMove
    <2>8. QED
      BY <1>0, <2>3, <2>5, <2>7
  <1>3. ASSUME UNCHANGED <<queue, taken, pushing>>,
               \A x \in Writers : Pushing(x)' <=> Pushing(x)
        PROVE  AccountInv'
    <2>1. UNCHANGED <<InQueue, Taken, BeingPushed>>
      BY <1>3 DEF InQueue, Taken, BeingPushed, Pushing
    <2>2. EventsAccounted'
      BY <1>0, <2>1, AccountsUnmoved
    <2>3. PushersDiffer' /\ QueueDiffers'
      BY <1>3 DEF PushersDiffer, QueueDiffers
    <2>4. QED
      BY <1>0, <2>2, <2>3
  <1>4. ASSUME NEW w \in Writers, LockToPush(w) \/ Notify(w)
        PROVE  UNCHANGED <<queue, taken, pushing>> /\ \A x \in Writers : Pushing(x)' <=> Pushing(x)
    BY <1>4 DEF LockToPush, Notify, Pushing, At, Goto, Waiters
  <1>5. ASSUME NEW r \in Readers,
               \/ BeginPop(r) \/ SpuriousWakeup(r) \/ Wait(r) \/ Wake(r)
               \/ FindValue(r) \/ TryPop(r)
        PROVE  UNCHANGED <<queue, taken, pushing>> /\ \A x \in Writers : Pushing(x)' <=> Pushing(x)
    BY <1>5 DEF BeginPop, SpuriousWakeup, Wait, Wake, FindValue, TryPop, Pushing, At, Goto
  <1>6. QED
    BY <1>1, <1>2, <1>3, <1>4, <1>5 DEF PushStep, PopStep

LEMMA AccountStep ==
  ASSUME SubscriptionTypeOK, CallbackInv, AccountInv, [SubscriptionNext]_vars
  PROVE  AccountInv'
  <1>1. ASSUME NEW v \in Values, Miss(v)
        PROVE  AccountInv'
    <2>1. /\ v \in upcoming /\ upcoming' = upcoming \ {v} /\ lost' = lost \cup {v}
          /\ UNCHANGED <<queueVars, inHand>>
      BY <1>1 DEF Miss, callbackVars
    <2>2. UNCHANGED <<InHand, BeingPushed, InQueue, Taken>>
      BY <2>1 DEF InHand, BeingPushed, InQueue, Taken, queueVars
    <2>3. Moves(v, 1, 6)
      BY <2>1, <2>2, SixPlaces, SixPlacesNext, PlaceCases DEF Moves
    <2>4. 1 \in PlaceNumbers /\ 6 \in PlaceNumbers
      BY DEF PlaceNumbers
    <2>5. EventsAccounted'
      BY <2>1, <2>3, <2>4, SixPlaces, AccountsAfterMove DEF AccountInv
    <2>6. QED
      BY <2>1, <2>5 DEF AccountInv, HandsDiffer, PushersDiffer, Pushing, QueueDiffers, queueVars
  <1>2. ASSUME UNCHANGED <<queueVars, upcoming, inHand, lost>>
        PROVE  AccountInv'
    <2>1. UNCHANGED <<upcoming, InHand, BeingPushed, InQueue, Taken, lost>>
      BY <1>2 DEF InHand, BeingPushed, InQueue, Taken, queueVars
    <2>2. EventsAccounted'
      BY <2>1, AccountsUnmoved DEF AccountInv
    <2>3. QED
      BY <1>2, <2>2 DEF AccountInv, HandsDiffer, PushersDiffer, Pushing, QueueDiffers, queueVars
  <1>3. ASSUME Subscribe \/ EndOfProcess \/ (\E r \in Readers : Handle(r)) \/ UNCHANGED vars
        PROVE  UNCHANGED <<queueVars, upcoming, inHand, lost>>
    BY <1>3 DEF Subscribe, EndOfProcess, Handle, vars, subscriptionVars, callbackVars
  <1>4. ASSUME \/ \E t \in Threads : QueueStep(t)
               \/ \E r \in Readers : PopBegins(r) \/ WakesUp(r)
        PROVE  AccountInv'
    BY <1>4, AccountQueue DEF QueueStep, PopBegins, WakesUp
  <1>5. QED
    BY <1>1, <1>2, <1>3, <1>4, AccountCallback DEF SubscriptionNext

\* On its way from the event log to an event thread no event gets lost or is
\* taken twice (subscribe_system_event.cpp:44-54, concurrent_queue.h:18-66).
THEOREM EventsAreAccounted == SubscriptionSpec => []EventsAccounted
  <1>1. (SubscriptionTypeOK /\ CallbackInv) /\ AccountInv /\ [SubscriptionNext]_vars => AccountInv'
    BY AccountStep
  <1>2. AccountInv => EventsAccounted
    BY DEF AccountInv
  <1>3. QED
    BY <1>1, <1>2, AccountInit, SubscriptionTypeCorrect, PTL DEF SubscriptionSpec
=============================================================================
