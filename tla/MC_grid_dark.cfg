\* The plant of the services run, alone.
SPECIFICATION FairSpec
CONSTANTS
  N = 2
  Followers = {2}
  Rated = 2
  Limits <- MC_Limits
  Weather <- MC_Weather
  MaxTotal = 6
  MaxFails = 1
  MaxCrashes = 1
  None = None
PROPERTY HeldWhenDark
CHECK_DEADLOCK FALSE
