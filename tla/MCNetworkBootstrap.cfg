\* Two sessions, forced reconnects, losses beyond the retry budget, drivers that report in time or not.
SPECIFICATION FairSpec
CONSTANTS
  MaxRetries = 2
  MaxSessions = 2
  MaxLosses = 4
  MaxForced = 2
INVARIANTS DownIsClean HandlerNeedsGroup CompleteMeansStopped NoSilentStall
PROPERTIES TeardownReturns
CHECK_DEADLOCK FALSE
