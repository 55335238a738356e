SPECIFICATION Spec
CONSTANTS
  r1 = r1
  r2 = r2
  s1 = s1
  Requests <- MCRequests
  Seeds <- MCSeeds
  SeedUsers <- MCSeedUsers
  RawEmails <- MCRawEmails
  Lower <- MCLower
  Inputs <- MCInputs
  Deployments <- MCDeployments
  Lifetime <- MCLifetime
  RefreshTtl <- MCRefreshTtl
  Instants <- MCInstants
  Managed <- MCSeeds
  Faults = {"db", "crash"}
SYMMETRY Symmetry
INVARIANTS
  TypeOK
  UniqueEmails
  AnswersMatchTables
  RevokedForANewOne
  RefreshRefusalsAreTrue
  DefaultAccessLastsAsTold
PROPERTIES
  RedeemedOnlyInOverlap
  RightsAreCurrent
