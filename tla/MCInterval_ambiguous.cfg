\* A store through an address that may be either of two stack words.
SPECIFICATION MCIntervalSpec
CONSTANTS
  Images <- AmbiguousImages
  MaxFacts = 2
  DepthLimit = 12
  ConfiguredStack = 9
INVARIANTS BoundCoversExecution
CHECK_DEADLOCK FALSE
