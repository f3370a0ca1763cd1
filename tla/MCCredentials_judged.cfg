\* What each isolate makes of keys and tokens, and whom a visit acts for.
SPECIFICATION MCSpec
CONSTANTS
  Scenes = {"credentials", "members"}
  i1 = i1  i2 = i2
  sk = sk  pk = pk  s1 = s1
  ann = ann  bob = bob  q1 = q1  q2 = q2
  Isolates = {i1, i2}
  ServerKeys = {sk}
  BrowserKeys = {pk}
  Sessions = {s1}
  Populations <- MCPopulations
  KeyTTL = 1  VerdictTTL = 2  Grace = 2  ReadTime = 1
  MaxReads = 1  MaxChecks = 2  MaxFaults = 1
  None = None
  People = {ann, bob}
  Visits = {q1, q2}
  MaxCalls = 4  MaxInvites = 2  MaxDeaths = 1
  Nobody = Nobody
SYMMETRY MCSymmetry
INVARIANTS
  AccessEnds
  ActsForOne
PROPERTIES
  AdmittedOnce
CHECK_DEADLOCK FALSE
