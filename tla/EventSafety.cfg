SPECIFICATION FairSubscriptionSpec
CONSTANTS
  Writers = {w1, w2}
  Readers = {r1}
  Values = {v1, v2, v3}
  Odd = {v3}
  Nobody = Nobody
  NoEvent = NoEvent
  ResetsLastError = TRUE
INVARIANTS SubscriptionTypeOK OneInCritical NeverPopsEmpty NoLostWakeup EventsAccounted
PROPERTIES ImplementsFifo DeliveredIsHandled
\* The behaviour ends with the process.
CHECK_DEADLOCK FALSE
