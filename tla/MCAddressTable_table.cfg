\* Two releases of two cities, with failures; the province imported; readers during a refresh.
SPECIFICATION MCSpec
CONSTANTS
  c1 = c1  c2 = c2
  k1 = k1  k1b = k1b  k2 = k2
  a1 = a1  a2 = a2  a3 = a3  a4 = a4  a5 = a5
  p1 = p1  p2 = p2
  r1 = r1  r2 = r2  r3 = r3  r4 = r4  fsa1 = fsa1  fsa2 = fsa2
  Addresses = {a1, a2, a3, a4, a5}
  Keys = {k1, k1b, k2}
  Postals = {p1, p2}
  NoPostal = NoPostal
  Cities = {c1, c2}
  Queue <- MCQueue
  PlainlyWritten = {c1, c2}
  Scope <- MCScope
  Oda <- MCOda
  Release <- MCRelease
  LastVintage = 2
  ChunkRows = 2
  BatchSize = 2
  MaxAttempts = 2
  MaxFailures = 2
  MaxManual = 1
  Csv <- MCCsv
  FileStatements = 2
  UploadAttempts = 2
  MaxLoads = 2
  Modes = {"import", "province", "area", "civics", "units", "lookup", "suggest", "delta"}
  InBox = {a1, a2, a3, a4, a5}
  Inside = {a1, a3, a4}
  Allowances = {3, 5}
  PageMax = 2
  ScanBudget = 4
  Container = k1
  Civic <- MCCivic
  Unit <- MCUnit
  ListLimit = 1
  None = None
  Queries <- MCQueries
  CivicNo <- MCCivicNo
  UnitNo <- MCUnitNo
  Siblings <- MCSiblings
  Scattered = {}
  ExactLimit = 2
  MaxAsks = 2
  Nobody = Nobody
  Typings <- MCTypings
  CivicOf <- MCCivicNo
  UnitOf <- MCUnitNo
  SuggestLimit = 2
  LeafLookups = 1
  MaxSearches = 1
  Missing = Missing
  Guids = {a1, a2, a3}
  Rows = {r1, r2, r3, r4}
  PartOf <- MCPartOf
  GroupsOf <- MCGroupsOf
  Baseline <- MCBaseline
  Releases <- MCReleases
  Claims = {k2}
  WritesCeiling = 6
  ReadsCeiling = 8
  MaxTries = 2
  MaxPlans = 2
  MaxFaults = 2
  Gone = Gone
  NoPlan = NoPlan
  NoFile = NoFile
INVARIANTS
  RefreshedWhole
  ImportedIsWhole
  PagesAddUp
  ToldTruly
  OfferedAsTyped
  DeltaLands
PROPERTIES
  RefreshesByVintage
  RotationGetsRound
CHECK_DEADLOCK FALSE
