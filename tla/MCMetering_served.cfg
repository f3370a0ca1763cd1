\* Requests that are limited and billed while the Customer's record changes.
SPECIFICATION MeteringSpec
CONSTANTS
  i1 = i1  i2 = i2
  c1 = c1  c2 = c2
  k1 = k1  k2 = k2  b1 = b1
  Isolates = {i1, i2}
  Fuses = {0, 1}
  FreeAllowance = 2
  Efforts <- MCEfforts
  MaxFaults = 1
  Calls = {c1, c2}
  ServerKeys = {k1, k2}
  BrowserKeys = {b1}
  KeyLimit = 1
  CustomerLimit = 2
  DailyLimit = 1
  BatchSize = 2
  None = None
SYMMETRY MCSymmetry
INVARIANTS
  ProjectionInStep
  CountersAgree
CHECK_DEADLOCK FALSE
