\* Violated: two addresses of one postal code share the key of their answers.
SPECIFICATION Spec
CONSTANTS
  Datasets = {"fed", "on"}
  Federal = "fed"
  Points = {"p1", "p2", "p3"}
  None = None
  Error = Error
  LastVersion = 1
  File <- MCFile
  Land <- MCLand
  Box <- MCBox
  Stored <- MCStored
  Rounded <- MCRounded
  Brief <- MCBrief
  ProvinceOf <- MCProvinceOf
  Lookups = {"l1", "l2"}
  Query <- SamePostal
  Located <- MCLocated
  MaxSyncs = 0
  Batches <- MCBatches
  Targets <- MCTargets
  MaxRounds = 1
  MaxFailures = 0
INVARIANTS
  OwnPoint
CHECK_DEADLOCK FALSE
