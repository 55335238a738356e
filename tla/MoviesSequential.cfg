SPECIFICATION Spec
CONSTANTS
  r1 = r1
  r2 = r2
  r3 = r3
  s1 = s1
  s2 = s2
  Requests <- MCRequests3
  Seeds <- MCSeeds
  SeedMovies <- MCSeedMovies
  RawTitles <- MCRawTitles
  TooLong <- MCTooLong
  Trim <- MCTrim
  Inputs <- SequentialInputs
  Faults = {"db", "crash"}
  Concurrency = 1
  AttachOnce = TRUE
SYMMETRY Symmetry
INVARIANTS
  DanglingOnlyAfterFailure
  OrphanOnlyAfterFailure
  DeletedMoviesKeepNoFile
PROPERTIES
  PatchWritesOnlyWhatItNames
