\* The queue implements JobPool, with a crash, a failed load and a swallowed save.
CONSTANTS
  b1 = b1
  b2 = b2
  c1 = c1
  c2 = c2
  Batches <- OneBatch
  BatchSize <- OneSize
  Priorities = {1, 2}
  AnyPriority = AnyPriority
  Calls = {c1, c2}
  MaxAttempts = 2
  MaxJobs = 2
  MaxInterventions = 1
  MaxCrashes = 1
  MaxLoadFailures = 1
  MaxSaveFailures = 1
SPECIFICATION FairSpec
INVARIANTS
  OnePlace
  PlaceMatchesStatus
  CompletedCountExact
  VerdictsEarned
PROPERTIES
  PicksBestFirst
  CompletedIsFinal
  JobsSettle
  ImplementsJobPool
