\* Either carrier, outages and faults in any session of several boots.
SPECIFICATION FairSpec
CONSTANTS
  Carriers = {"mqtt", "zenoh"}
  MaxFailed = 3
  MaxReadings = 3
  MaxOutages = 3
  MaxFaults = 4
INVARIANTS RestartMeansOutage
PROPERTIES Recovers
CHECK_DEADLOCK FALSE
