\* Every host tool on its own small inputs.
SPECIFICATION MCSpec
CONSTANTS
  Bodies <- MCBodies
  ExecDepth = 12
  Root = "root"
  Hook = "hook"
  Linked = {"root", "hook", "f", "g", "once", "malloc"}
  Bodyless = {"malloc"}
  Once = {"once"}
  Allocators = {"malloc"}
  RomStray = "rom"
  ImageStray = "image"
  NoTarget = "none"
  Programs <- MCPrograms
  Images <- MCImages
  MaxFacts = 2
  DepthLimit = 12
  ConfiguredStack = 9
  Builds = {1, 2}
  MaxCommands = 2
  MaxRebuilds = 3
  MaxLines = 5
  Links <- MCLinks
  PrintedMaps <- MCPrintedMaps
  Policies <- MCPolicies
  Object = "app"
  MaxGates = 2
  Checks <- MCChecks
  Units = {"a"}
  Pins <- MCPins
  Declared <- MCDeclared
  Metrics <- MCMetrics
  MaxCommits = 2
  MaxRuns = 2
  MaxEdits = 1
  Trees <- MCTrees
  Tables <- MCTables
  MaxConfigures = 2
INVARIANTS
  FrameCoversExecution
  RecursionReported
  ReachSurveyed
  BoundCoversExecution
  ReceiptBinds
  AcceptedSetWhole
  EpochIsFirstBoot
  DestinationHonest
  MeasurementExact
  JoinExact
  ReceiptTrue
  ValidMeansQualified
  DeclaredCallsSafe
  ImageBoundsAgree
CHECK_DEADLOCK FALSE
