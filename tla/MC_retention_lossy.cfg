\* One tick after the other, and nothing fails.
SPECIFICATION TelemetrySpec
CONSTANTS
  None = None
  QUEUE_MAX = 3
  BATCH_MAX = 2
  RETRY_MAX = 1
  MaxRows = 0
  MaxCrashes = 0
  MaxStoreFails = 0
  MaxWalFails = 0
  Tenant = {t1, t2}
  HourLen = 2
  RawDays = 4
  Override = {}
  FirstSlot = 6
  LastSlot = 8
  Job = {j1}
  InitialDays <- MC_InitialDays
  MaxFaults = 0
  Series <- MC_Series
  LastBucket = 7
  Page = 3
  MaxGap = 2
  Grace = 1
  MinSpan = 3
  Worker = {w1}
  MaxLapses = 0
INVARIANT HistorySurvives
CHECK_DEADLOCK FALSE
