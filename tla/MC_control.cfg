\* A writer and the emergency stop.
SPECIFICATION FairSpec
CONSTANTS
  Call = {stop, c1}
  Stop = stop
  Key = {k1}
  SafeKey = k1
  Value = {0, 1}
  None = None
  MaxLost = 1
  MaxCuts = 1
INVARIANTS TypeOK StopStops OkVerifiedApart AlwaysLogged
PROPERTY SentSettles
CHECK_DEADLOCK FALSE
