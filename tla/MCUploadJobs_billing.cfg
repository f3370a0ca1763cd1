\* Two uploads of one customer, two tabs, API calls, a lost webhook, a failure, a month's end.
SPECIFICATION Spec
CONSTANTS
  u1 = u1  u2 = u2
  Uploads = {u1, u2}
  Tabs = {t1}
  Sheets = {1, 3}
  Allowance = 2
  MinCharge = 1
  MaxPerDay = 2
  RowsPerAlarm = 2
  NoUpload = NoUpload
  LastDay = 2
  MonthOf <- MCMonthOf
  MaxApiCalls = 1
  MaxFailures = 1
SYMMETRY UploadSymmetry
INVARIANTS
  BooksBalance
CHECK_DEADLOCK FALSE
