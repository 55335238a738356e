SPECIFICATION SeedingSpec
CONSTANTS
  e1 = e1
  e2 = e2
  m1 = m1
  admin = admin
  u1 = u1
  s1 = s1
  s2 = s2
  local = local
  remote = remote
  Databases <- MCDatabases
  MovieIds <- MCMovieIds
  UserIds <- MCUserIds
  Instants = {1, 2}
  Limits = {1, 2}
  Seeders <- MCSeeders
  Default = local
  Admin = admin
  Examples <- MCExamples
SYMMETRY Symmetry
INVARIANTS
  SeedingTypeOK
  WalkMissesOnlyAfterRemoval
  WalkRepeatsOnlyAfterArrival
  ExamplesComeWithTheAdmin
  SeedingFillsTheDefault
PROPERTIES
  HalfSeededStays
