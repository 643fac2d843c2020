\* Inbound messages, overflow and polling, with calls that fail, across a reconnect.
SPECIFICATION FairSpec
CONSTANTS
  Topics = {t1, t2}
  SubscriptionCapacity = 1
  EventCapacity = 1
  MaxConnects = 2
  MaxCalls = 2
  MaxFrames = 2
  StopFails = TRUE
  SendModes = {TRUE, FALSE}
INVARIANTS OverflowReported
PROPERTIES Resubscribed
