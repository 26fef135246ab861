-------------------------- MODULE EventSubscription --------------------------
(***************************************************************************)
(* The way of a login event into the program: SubscribeSystemEventBase     *)
(* subscribes to the Security log, the event-log service calls             *)
(* SubscriptionCallback on threads of its own, which render the event and  *)
(* push it, and an event thread pops it and takes it apart with            *)
(* EventDataToMap.  The queue in between is ConcurrentQueue, its writers   *)
(* being the threads of the service.                                       *)
(***************************************************************************)
EXTENDS ConcurrentQueue

CONSTANTS
  Odd,      \* events of which EventDataToMap cannot make a map, and throws
  NoEvent,  \* a callback thread has no event in hand
  ResetsLastError  \* EvtRender that succeeds sets the last error to ERROR_SUCCESS

ASSUME SubscriptionAssumption ==
  /\ Odd \subseteq Values
  /\ NoEvent \notin Values
  /\ ResetsLastError \in BOOLEAN

VARIABLES
  handle,      \* m_handle_subscription: "invalid" or "open", "ended" with the process
  upcoming,    \* events that are not written to the log yet
  inHand,      \* the event each callback was called with
  render,      \* where each callback is in GetEventData
  status,      \* the status GetEventData has so far, which GetLastError gave it
  lost,        \* history: events that will never reach the queue
  unread,      \* history: those of which EvtRender made no text
  handled      \* the number of events each event thread is done with

callbackVars == <<inHand, render, status>>
subscriptionVars == <<handle, upcoming, callbackVars, lost, unread, handled>>
vars == <<queueVars, subscriptionVars>>

Alive == handle # "ended"

SubscriptionInit ==
  /\ QueueInit
  /\ handle = "invalid"
  /\ upcoming = Values
  /\ inHand = [w \in Writers |-> NoEvent]
  /\ render = [w \in Writers |-> "no"]
  /\ status = [w \in Writers |-> "SUCCESS"]
  /\ lost = {} /\ unread = {}
  /\ handled = [r \in Readers |-> 0]

\* GetEventData takes the writer from one call to the next, with the status that
\* the call in between leaves.
Rendering(w, from, to, new) ==
  /\ Alive
  /\ render[w] = from
  /\ render' = [render EXCEPT ![w] = to]
  /\ status' = [status EXCEPT ![w] = new]
  /\ UNCHANGED <<queueVars, handle, upcoming, inHand, lost, handled>>

-----------------------------------------------------------------------------
(* Subscribe                                                               *)

\* EvtSubscribe succeeds, and the handle is assigned to the wrapper.
Subscribe ==
  /\ handle = "invalid"
  /\ handle' = "open"
  /\ UNCHANGED <<queueVars, upcoming, callbackVars, lost, unread, handled>>

\* The process ends: Subscribe returns false and the event thread exits, or
\* for any other reason.  What is queued or in hand is gone.
EndOfProcess ==
  /\ Alive
  /\ handle' = "ended"
  /\ UNCHANGED <<queueVars, upcoming, callbackVars, lost, unread, handled>>

\* An event that is written before the subscription is never delivered
\* (EvtSubscribeToFutureEvents), nor is a record that is missing when the
\* service comes to deliver it; then it calls back with EvtSubscribeActionError
\* and the callback logs that.
Miss(v) ==
  /\ Alive
  /\ v \in upcoming
  /\ upcoming' = upcoming \ {v}
  /\ lost' = lost \cup {v}
  /\ UNCHANGED <<queueVars, handle, callbackVars, unread, handled>>

-----------------------------------------------------------------------------
(* Faulty variants, used to validate the properties.                       *)

\* The status of the first EvtRender decides, not that of the second.
FirstStatusDecides(w) ==
  /\ Rendering(w, "content", "done", "ERROR_INSUFFICIENT_BUFFER")
  /\ UNCHANGED unread

\* The event is pushed whatever the status, once more at the end of the case.
PushAgain(w) ==
  /\ Alive
  /\ render[w] = "done" /\ status[w] = "SUCCESS"
  /\ BeginPush(w, inHand[w])
  /\ UNCHANGED subscriptionVars

\* The exception ends the event thread only.
ThreadDies(r) ==
  /\ Alive
  /\ At(r, "out") /\ handled[r] < Len(taken[r])
  /\ taken[r][handled[r] + 1] \notin Odd \cup unread
  /\ handled' = [handled EXCEPT ![r] = @ + 1]
  /\ UNCHANGED <<queueVars, handle, upcoming, callbackVars, lost, unread>>

-----------------------------------------------------------------------------
(* SubscriptionCallback                                                    *)

\* EvtSubscribeActionDeliver
Deliver(w, v) ==
  /\ handle = "open"
  /\ At(w, "out") /\ inHand[w] = NoEvent
  /\ v \in upcoming
  /\ upcoming' = upcoming \ {v}
  /\ inHand' = [inHand EXCEPT ![w] = v]
  /\ render' = [render EXCEPT ![w] = "size"]
  /\ UNCHANGED <<queueVars, handle, status, lost, unread, handled>>

\* EvtRender without a buffer fails, as a rule because the buffer is too small.
\* Should it succeed, the status is ERROR_SUCCESS and the text stays empty.
AskSize(w) ==
  \/ Rendering(w, "size", "content", "ERROR_INSUFFICIENT_BUFFER") /\ UNCHANGED unread
  \/ \E new \in {"SUCCESS", "other"} :
       Rendering(w, "size", "done", new) /\ unread' = unread \cup {inHand[w]}

\* EvtRender with a buffer of that size.  Its result is not looked at: the status
\* is what GetLastError returns, be it left over from the first call.
RenderContent(w) ==
  \/ /\ \/ Rendering(w, "content", "done", "SUCCESS")
        \/ ~ResetsLastError /\ Rendering(w, "content", "done", status[w])
     /\ UNCHANGED unread
  \/ Rendering(w, "content", "done", "other") /\ unread' = unread \cup {inHand[w]}

\* With status ERROR_SUCCESS the event is pushed.
Push(w) ==
  /\ Alive
  /\ render[w] = "done" /\ status[w] = "SUCCESS"
  /\ BeginPush(w, inHand[w])
  /\ inHand' = [inHand EXCEPT ![w] = NoEvent]
  /\ render' = [render EXCEPT ![w] = "no"]
  /\ UNCHANGED <<handle, upcoming, status, lost, unread, handled>>

\* Otherwise it is dropped.
Drop(w) ==
  /\ Alive
  /\ render[w] = "done" /\ status[w] # "SUCCESS"
  /\ lost' = lost \cup {inHand[w]}
  /\ inHand' = [inHand EXCEPT ![w] = NoEvent]
  /\ render' = [render EXCEPT ![w] = "no"]
  /\ UNCHANGED <<queueVars, handle, upcoming, status, unread, handled>>

-----------------------------------------------------------------------------
(* The event thread: Pop, EventDataToMap and what is done with the map.    *)

PopBegins(r) ==
  /\ Alive
  /\ handled[r] = Len(taken[r])
  /\ BeginPop(r)
  /\ UNCHANGED subscriptionVars

\* The event in hand is handled; EventDataToMap throws on one that is odd or has
\* no text, and the exception ends the process.
Handle(r) ==
  /\ Alive
  /\ At(r, "out") /\ handled[r] < Len(taken[r])
  /\ IF taken[r][handled[r] + 1] \in Odd \cup unread
     THEN handle' = "ended" /\ UNCHANGED handled
     ELSE handled' = [handled EXCEPT ![r] = @ + 1] /\ UNCHANGED handle
  /\ UNCHANGED <<queueVars, upcoming, callbackVars, lost, unread>>

\* Steps inside push and pop.
QueueStep(t) ==
  /\ Alive
  /\ \/ t \in Writers /\ PushStep(t)
     \/ t \in Readers /\ PopStep(t)
  /\ UNCHANGED subscriptionVars

WakesUp(r) == Alive /\ SpuriousWakeup(r) /\ UNCHANGED subscriptionVars

-----------------------------------------------------------------------------
CallbackStep(w) == AskSize(w) \/ RenderContent(w) \/ Push(w) \/ Drop(w)

SubscriptionNext ==
  \/ Subscribe \/ EndOfProcess
  \/ \E v \in Values : Miss(v)
  \/ \E w \in Writers : CallbackStep(w) \/ \E v \in Values : Deliver(w, v)
  \/ \E t \in Threads : QueueStep(t)
  \/ \E r \in Readers : PopBegins(r) \/ Handle(r) \/ WakesUp(r)

SubscriptionSpec == SubscriptionInit /\ [][SubscriptionNext]_vars

\* The threads are scheduled, callbacks and handlers come to their ends, and a
\* thread that needs the mutex finds it free again and again, since every
\* critical section is short, and gets it in the end.  Nothing is assumed of
\* what the log delivers and of when the process ends.
WantsLock(t) ==
  \/ t \in Writers /\ LockToPush(t)
  \/ t \in Readers /\ (Wake(t) \/ (handled[t] = Len(taken[t]) /\ BeginPop(t)))

FairSubscriptionSpec ==
  /\ SubscriptionSpec
  /\ \A w \in Writers : WF_vars(CallbackStep(w))
  /\ \A r \in Readers : WF_vars(Handle(r))
  /\ \A t \in Threads :
       WF_vars(QueueStep(t)) /\ SF_vars(Alive /\ WantsLock(t) /\ UNCHANGED subscriptionVars)

-----------------------------------------------------------------------------
(* Properties.                                                             *)

\* Every variable keeps its type.
SubscriptionTypeOK ==
  /\ QueueTypeOK
  /\ handle \in {"invalid", "open", "ended"}
  /\ upcoming \subseteq Values
  /\ inHand \in [Writers -> Values \cup {NoEvent}]
  /\ render \in [Writers -> {"no", "size", "content", "done"}]
  /\ status \in [Writers -> {"SUCCESS", "ERROR_INSUFFICIENT_BUFFER", "other"}]
  /\ lost \subseteq Values /\ unread \subseteq Values
  /\ handled \in [Readers -> Nat]

InQueue == {queue[i] : i \in DOMAIN queue}
BeingPushed == {pushing[w] : w \in {x \in Writers : pc[x] \in {"lock", "push"}}}
InHand == {inHand[w] : w \in Writers} \ {NoEvent}
Taken == UNION {{taken[r][i] : i \in DOMAIN taken[r]} : r \in Readers}

\* No event is taken twice or gets lost on the way: at any time each is still
\* to come, in the hand of one callback, being pushed, queued, taken by an
\* event thread, or lost, and only one of these
\* (subscribe_system_event.cpp:44-54, concurrent_queue.h:18-66).
Places == <<upcoming, InHand, BeingPushed, InQueue, Taken, lost>>
EventsAccounted ==
  \A v \in Values :
    \E place \in 1 .. 6 : \A p \in 1 .. 6 : v \in Places[p] <=> p = place

\* No login goes unnoticed: an event that was delivered and could be rendered
\* is handled, or the process ends, although GetEventData fails once on every
\* event to learn its size and judges the second call by GetLastError
\* (subscribe_system_event.cpp:44-54, 73-94, main.cpp:232-253, 278-301).
Handled(v) ==
  \E r \in Readers, i \in 1 .. Cardinality(Values) :
    i <= handled[r] /\ i \in DOMAIN taken[r] /\ taken[r][i] = v

DeliveredIsHandled ==
  \A v \in Values : (v \in InHand) ~> (v \in unread \/ Handled(v) \/ ~Alive)
=============================================================================
