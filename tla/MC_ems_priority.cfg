\* A limited plan against peak shaving and a charging schedule: two replicas
\* that take turns, one failure, one process end.
SPECIFICATION FairSpec
CONSTANTS
  Replica = {r1, r2}
  Slot = {k1}
  Config = {c1}
  Power <- MC_Power
  Threshold = 2
  Hysteresis = 1
  MaxDischarge = 2
  RegisterMax = 2
  MinMove = 1
  Reading <- MC_AgingReading
  Stale = Stale
  NoMetric = NoMetric
  Soc <- MC_LowSoc
  Plan <- MC_Plans
  Schedule <- MC_Charge
  NoPlan = NoPlan
  None = None
  Window = 1
  MaxFails = 1
  MaxCrashes = 1
INVARIANTS TypeOK OneOwner
PROPERTY CutsUnsafe
