\* What is paid for: two calls on the payment rail, the offers of an area,
\* and what a request meets before it is served.
SPECIFICATION MCSpec
CONSTANTS
  Scenes = {"rail", "quotes", "gateway"}
  c1 = c1  c2 = c2  p1 = p1  p2 = p2  p3 = p3  alice = alice
  r1 = r1  sh1 = sh1  sh2 = sh2  on = on  qc = qc
  NoPayer = NoPayer  NoCall = NoCall  NoReceipt = NoReceipt
  Calls = {c1, c2}
  Payloads = {p1, p2, p3}
  Payers = {alice}
  PayerOf <- MCPayerOf
  Amount <- MCAmount
  Cap = 2  LastDay = 2
  MaxLostReplies = 1  MaxLostWrites = 2  MaxReconciles = 1
  SameMillisecond = FALSE  ListLimit = 3
  Ridings = {r1}  Shapes = {sh1, sh2}  Provinces = {on, qc}
  FileOf <- MCFileOf
  Rows <- MCRows
  AskedHalves = {1, 7}
  fd = fd  od = od  cd = cd  fd24 = fd24  on22 = on22  on26 = on26
  Datasets = {fd, od, cd}  Federal = fd
  FederalFile = fd24  NextFiles = {on26}
  FirstRegistry <- MCRegistry
  PointPrice = 1
  Unit = 2  UnitPrice = 2  MaxResults = 4  ReadMax = 2
  OfferTTL = 1  MaxTicks = 1  MaxQuotes = 2  MaxPaid = 2  MaxChanges = 1
  Absent = Absent
  g1 = g1  g2 = g2
  k1 = k1  k2 = k2  b1 = b1  t1 = t1  t2 = t2  h1 = h1  h2 = h2  acme = acme
  Places = {g1, g2}
  Requests <- MCRequests
  SecretKeys = {k1, k2}
  PublicKeys = {b1}
  DemoKey = b1
  Tokens = {t1, t2}
  Scopes <- MCScopes
  Owner <- MCOwner
  Enterprise = {acme}
  ApiLimit = 1  DemoLimit = 1  PaidLimit = 1  Ceiling = 2  FloodGuard = 2
  MaxRequests = 3
  Free = Free
SYMMETRY MCSymmetry
INVARIANTS
  PaymentsAccounted
  PaidAsQuoted
  GateHolds
PROPERTIES
  ImplementsPaidRequest
CHECK_DEADLOCK FALSE
