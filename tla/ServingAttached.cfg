SPECIFICATION ServingSpec
CONSTANTS
  r1 = r1
  r2 = r2
  r3 = r3
  s1 = s1
  p1 = p1
  p2 = p2
  Requests <- MCRequests3
  Seeds <- MCSeeds
  SeedMovies <- MCSeedMovies
  RawTitles <- MCRawTitles
  TooLong <- MCTooLong
  Trim <- MCTrim
  Inputs <- AttachInputs
  Faults = {"db", "crash"}
  Concurrency = 2
  AttachOnce = TRUE
  Processes <- MCProcess1
  Patient = TRUE
SYMMETRY Symmetry
INVARIANT
  OrphanOnlyAfterTrouble
