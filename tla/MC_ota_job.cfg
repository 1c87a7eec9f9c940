\* Two overlapping sweeps and an ack handler, one failure, one process end.
SPECIFICATION FairSpec
CONSTANTS
  MAX_ATTEMPTS = 2
  Creator = Creator
  Sweep = {s1, s2}
  Handler = {h1}
  MaxFails = 1
  MaxCrashes = 1
INVARIANTS TypeOK ReportsHonest
PROPERTY Settles
\* A settled job is left alone.
CHECK_DEADLOCK FALSE
