SPECIFICATION Spec
CONSTANTS
  r1 = r1
  r2 = r2
  r3 = r3
  s1 = s1
  s2 = s2
  Requests <- MCRequests2
  Seeds <- MCSeeds
  SeedMovies <- MCSeedMovies
  RawTitles <- MCRawTitles
  TooLong <- MCTooLong
  Trim <- MCTrim
  Inputs <- KeepingInputs
  Faults = {}
  Concurrency = 2
  AttachOnce = TRUE
INVARIANTS
  LivePostersStored
