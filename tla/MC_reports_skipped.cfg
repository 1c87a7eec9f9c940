\* A daily report, two replicas; an operator's run and a failure may happen.
SPECIFICATION FairSpec
CONSTANTS
  Server = {r1, r2}
  PeriodLen = 2
  DueSlot = 1
  LastSlot = 11
  None = None
  MaxAdhoc = 1
  MaxCrashes = 1
PROPERTY EveryPeriod
CHECK_DEADLOCK FALSE
