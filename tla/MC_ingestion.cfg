\* Two replicas, one failure; one rule and meter, one channel for each line of
\* an alarm, one gateway that may be removed once.
SPECIFICATION FairSpec
CONSTANTS
  Replica = {r1, r2}
  Home = r1
  None = None
  MaxFaults = 1
  Duration = 1
  MaxOps = 1
  First = {c1}
  Second = {c2}
  Breach = Breach
  Clear = {z1, z2}
  MaxAtOnce = 2
  MaxToggles = 1
  Threshold = 2
  MaxRemovals = 1
INVARIANT TypeOK
PROPERTIES Alarming Notified StatusFollows Provisioned
\* An alarm that is over ends the notifiers' part.
CHECK_DEADLOCK FALSE
