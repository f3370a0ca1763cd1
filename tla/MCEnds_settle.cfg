\* Two uploads one after the other with no webhook owed, or two events of a webhook: each ends.
SPECIFICATION MCSpec
CONSTANTS
  u1 = u1  u2 = u2
  Uploads = {u1, u2}
  Tabs = {t1}
  Sheets = {3}
  Allowance = 2
  MinCharge = 1
  MaxPerDay = 2
  RowsPerAlarm = 2
  NoUpload = NoUpload
  LastDay = 1
  MonthOf <- MCMonthOf
  MaxApiCalls = 0
  MaxFailures = 1
  Scenes = {"uploads", "webhooks"}
  Hooks = {w1}
  Events = {e1, e2}
  MaxAttempts = 2
  MaxMisses = 1
  NoEvent = NoEvent
INVARIANTS
  OutcomesEarned
PROPERTIES
  UploadsSettle
  EventsSettle
CHECK_DEADLOCK FALSE
