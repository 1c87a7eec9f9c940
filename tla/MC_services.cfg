SPECIFICATION ServicesFairSpec
CONSTANTS
  None = None
  MaxCrashes = 1
  MaxFails = 1
  Delivery = {d1}
  Dispatch = {s1, s2}
  WebhookAttempts = 3
  MaxToggles = 1
  Server = {r1, r2}
  PeriodLen = 2
  DueSlot = 1
  LastSlot = 11
  MaxAdhoc = 1
  Request = {q1, q2}
  Burst = 3
  MAX_CAS_ATTEMPTS = 2
  LastTime = 2
  Purger = {p1, p2}
  Doomed = Doomed
  Other = Other
  MaxRequests = 1
  Last = 2
  Builder = {b1, b2}
  AssetCount = 2
  Followers = {2}
  Rated = 2
  Limits <- MC_Limits
  Weather <- MC_Weather
  MaxTotal = 6
  Power <- MC_Power
  ShavingThreshold = 2
  Hysteresis = 1
  MaxDischarge = 2
  RegisterMax = 2
  MinMove = 1
  Reading <- MC_AnyReading
  Stale = Stale
  NoMetric = NoMetric
  Window = 2
  TickLen = 2
  MinInterval = 2
  Setting <- MC_Setting
  N = 4
  CanaryCount = 1
  BatchSize = 2
  FailureThresholdPct = 50
  Sweep = {s1}
  InitialStatus = {"draft"}
  MaxOps = 3
  MaxFaults = 1
INVARIANTS ServicesTypeOK ClosedHonest WaveGate CompletedHonest OneJob BucketHonest
PROPERTIES RolloutEnds ImplementsOutbox Reported Purged Exported EmsSettles
CHECK_DEADLOCK FALSE
