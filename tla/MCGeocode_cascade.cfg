\* Two requests over four kinds of query: Google with its fallback, one retry, both circuits.
SPECIFICATION FairSpec
CONSTANTS
  r1 = r1  r2 = r2
  Requests = {r1, r2}
  Queries = {"street in a city", "STREET in a city", "street", "centroid", "point"}
  Deployments <- Pairs
  PointQueries = {"point"}
  Folded <- LowerCase
  Hinted = {"street in a city", "STREET in a city"}
  CentroidOnly = {"centroid"}
  PostalOnly = {}
  Providers <- GoogleThenNominatim
  MaxAttempts = 2
  FailureThreshold = 2
  Nil = Nil
  TimedOut = TimedOut
  Failed = Failed
  Nameless = Nameless
INVARIANTS
  AnswersPassGates
  LocalFirst
PROPERTIES
  EveryCascadeEnds
CHECK_DEADLOCK FALSE
