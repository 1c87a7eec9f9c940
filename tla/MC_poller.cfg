\* Refreshes that do not overlap, clocks off by one unit either way, a crash and a failed
\* statement; one device that comes, changes its settings and goes.
\* Two units on one or two hosts, three failures or edits.
SPECIFICATION PollingFairSpec
CONSTANTS
  Replica = {r1, r2}
  Slot = {k1}
  TTL = 1
  MaxSkew = 1
  Skews <- MC_Skews
  MaxCrashes = 1
  MaxDbFails = 1
  NoOne = NoOne
  Gone = Gone
  Device = {d1}
  Setup = {c1, c2}
  Absent = Absent
  Unit = {u1, u2}
  Host = {h1, h2}
  MaxFaults = 3
INVARIANTS PollingTypeOK Exclusive Covered PollsOnce
PROPERTIES PollingFollows SocketsShared
