\* A federal lookup with its province and a provincial one, new files, a sync, a refused feature; a batch.
SPECIFICATION MCSpec
CONSTANTS
  Datasets = {"fed", "on"}
  Federal = "fed"
  Points = {"p1", "p2", "p3"}
  None = None
  Error = Error
  LastVersion = 2
  File <- MCFile
  Land <- MCLand
  Box <- MCBox
  Stored <- MCStored
  Rounded <- MCRounded
  Brief <- MCBrief
  ProvinceOf <- MCProvinceOf
  Lookups = {"l1", "l2"}
  Query <- MCQuery
  Located <- MCLocated
  MaxSyncs = 1
  Batches <- MCBatches
  Targets <- MCTargets
  MaxRounds = 2
  MaxFailures = 1
  Scenes = {"lookups", "warming", "batch"}
  WithPoint = {q1}
  PostalAlone = {q2}
  WithAddress = {q3}
  KnownHere = {q2}
  KnownOutside = {q3}
  MaxBatchSize = 3
  NoBatch = NoBatch
INVARIANTS
  AnswersTrue
  AnsweredInPlace
PROPERTIES
  RidingSurvives
  EveryRequestEnds
CHECK_DEADLOCK FALSE
