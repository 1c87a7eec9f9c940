\* Backpressure, retries, process ends and a failing disk; two retention ticks at
\* once over two organisations; one battery at a time, one sweep.
SPECIFICATION TelemetryFairSpec
CONSTANTS
  None = None
  QUEUE_MAX = 3
  BATCH_MAX = 2
  RETRY_MAX = 1
  MaxRows = 4
  MaxCrashes = 2
  MaxStoreFails = 2
  MaxWalFails = 1
  Tenant = {t1, t2}
  HourLen = 2
  RawDays = 4
  Override = {3, 6}
  FirstSlot = 6
  LastSlot = 7
  Job = {j1, j2}
  InitialDays <- MC_InitialDays
  MaxFaults = 1
  Series <- MC_Series
  LastBucket = 7
  Page = 3
  MaxGap = 2
  Grace = 1
  MinSpan = 3
  Worker = {w1}
  MaxLapses = 1
INVARIANTS TelemetryTypeOK Recoverable LossCounted
PROPERTIES Settles Retained HealthBooked
CHECK_DEADLOCK FALSE
