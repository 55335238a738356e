SPECIFICATION Spec
CONSTANTS
  r1 = r1
  r2 = r2
  r3 = r3
  s1 = s1
  s2 = s2
  Requests <- MCRequests3
  Seeds <- MCSeeds
  SeedMovies <- MCSeedMovies
  RawTitles <- MCRawTitles
  TooLong <- MCTooLong
  Trim <- MCTrim
  Inputs <- ConcurrentInputs
  Faults = {"s3", "db", "crash"}
  Concurrency = 3
  AttachOnce = FALSE
SYMMETRY Symmetry
INVARIANTS
  TypeOK
  UniqueTitles
  ClientErrorsLeaveNoTrace
  CreateAnswersMatchRows
  ReferencedWasUploaded
PROPERTIES
  ImplementsCatalogue
  NoCrossMovieDelete
