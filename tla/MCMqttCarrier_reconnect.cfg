\* Subscriptions of two topics across reconnects.
SPECIFICATION Spec
CONSTANTS
  Topics = {t1, t2}
  SubscriptionCapacity = 2
  EventCapacity = 1
  MaxConnects = 3
  MaxCalls = 4
  MaxFrames = 0
  StopFails = FALSE
  SendModes = {FALSE}
SYMMETRY Symmetry
INVARIANTS ConfirmedCovered ReadyMeansRestored
