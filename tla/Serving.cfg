SPECIFICATION FairServing
CONSTANTS
  r1 = r1
  r2 = r2
  r3 = r3
  s1 = s1
  p1 = p1
  p2 = p2
  Requests <- MCRequests
  Seeds <- MCSeeds
  SeedMovies <- MCSeedMovies
  RawTitles <- MCRawTitles
  TooLong <- MCTooLong
  Trim <- MCTrim
  Inputs <- MCInputs
  Faults = {"db", "crash"}
  Concurrency = 2
  AttachOnce = TRUE
  Processes <- MCProcesses
  Patient = TRUE
INVARIANTS
  ServingTypeOK
  HistogramLacksTheErrors
  ReplicasAllowTheSameOrigins
  DanglingOnlyAfterTrouble
  RevivedOnlyAfterTrouble
PROPERTIES
  RunsTheHandlers
  OnlyGuardsKeepWaiting
