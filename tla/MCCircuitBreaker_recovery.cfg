\* Two calls of an isolate at a time, for ever, with one mishap.
SPECIFICATION FairSpec
CONSTANTS
  c1 = c1  c2 = c2  i1 = i1
  Calls = {c1, c2}
  Isolates = {i1}
  Home <- MCHome
  Object = Object
  FailureThreshold <- MCFailureThreshold
  SuccessThreshold <- MCSuccessThreshold
  MaxMishaps = 1
INVARIANTS
  ClosedIsEarned
PROPERTIES
  FollowsService
