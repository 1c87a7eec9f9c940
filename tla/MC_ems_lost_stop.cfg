\* One write may fail.
SPECIFICATION FairSpec
CONSTANTS
  Replica = {r1}
  Slot = {k1}
  Config = {c1}
  Power <- MC_Power
  Threshold = 2
  Hysteresis = 1
  MaxDischarge = 2
  RegisterMax = 2
  MinMove = 1
  Reading <- MC_AnyReading
  Stale = Stale
  NoMetric = NoMetric
  Soc <- MC_SoundSoc
  Plan <- MC_NoPlans
  Schedule <- MC_NoPlans
  NoPlan = NoPlan
  None = None
  Window = 2
  MaxFails = 1
  MaxCrashes = 0
PROPERTIES Stops
