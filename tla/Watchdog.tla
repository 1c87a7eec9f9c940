------------------------------ MODULE Watchdog ------------------------------
(***************************************************************************)
(* The setpoint deadman (api/ems/watchdog.ts, refreshWatchdogs of            *)
(* api/ems/controller.ts) for one device: the last thing an EMS tick does is *)
(* to write the device's watchdog register if a refresh is due, and a device *)
(* that has not seen one for its own timeout falls back to its safe state.   *)
(* Time is discrete; a tick takes as long as it takes.                       *)
(***************************************************************************)
EXTENDS Integers

CONSTANTS
  TickLen,       \* EMS_TICK_S
  MinInterval,   \* MIN_INTERVAL_MS
  Setting,       \* watchdog blocks: intervalMs, deviceTimeoutMs
  None,
  MaxFails,      \* bound: refreshes that fail, ticks that throw
  MaxCrashes     \* bound: process ends

RefreshesPerTimeout == 3

\* validateWatchdog
Valid(c) == c.interval > 0 /\ c.interval < c.timeout

WatchdogAssumption ==
  /\ TickLen \in Nat \ {0} /\ MinInterval \in Nat \ {0}
  /\ Setting # {} /\ \A c \in Setting : c.timeout \in Nat \ {0} /\ c.interval \in Nat
  /\ {MaxFails, MaxCrashes} \subseteq Nat /\ None \notin Nat

VARIABLES
  cfg,         \* the device's watchdog block
  up,
  phase,       \* time since the interval timer fired
  refresh,     \* where the tick is
  lastPet,     \* time since lastPet was set, or None
  silent,      \* device: time since it took a refresh, or None before the first
  steady,      \* history: since the last refresh the device took, nothing failed or was late
  fails, crashes

vars == <<cfg, up, phase, refresh, lastPet, silent, steady, fails, crashes>>

Smaller(a, b) == IF a < b THEN a ELSE b
Larger(a, b) == IF a > b THEN a ELSE b

\* Mutant: the configured interval is honoured.
EffectiveAsConfigured(c) == Larger(MinInterval, c.interval)
\* effectiveIntervalMs
EffectiveInterval(c) == Larger(MinInterval, Smaller(c.interval, c.timeout \div RefreshesPerTimeout))
TickTooSlow(c) == TickLen > EffectiveInterval(c)

\* More than any due time.
Cap(c) == c.timeout + c.interval
Age(time, cap) == IF time = None THEN None ELSE Smaller(time + 1, cap)

TypeOK ==
  /\ cfg \in {c \in Setting : Valid(c)}
  /\ up \in BOOLEAN /\ steady \in BOOLEAN
  /\ phase \in 0..TickLen
  /\ refresh \in {"idle", "evaluate", "write", "confirm"}
  /\ lastPet \in 0..Cap(cfg) \cup {None}
  /\ silent \in 0..cfg.timeout \cup {None}
  /\ fails \in 0..MaxFails /\ crashes \in 0..MaxCrashes

Init ==
  /\ cfg \in {c \in Setting : Valid(c)}
  /\ up = TRUE /\ phase = 0 /\ refresh = "idle" /\ lastPet = None /\ silent = None
  /\ steady = FALSE /\ fails = 0 /\ crashes = 0

---------------------------------------------------------------------------
\* setInterval fires.  A tick beside one that is still under way is left out.
Fire ==
  /\ up /\ phase = TickLen
  /\ phase' = 0
  /\ refresh' = IF refresh = "idle" THEN "evaluate" ELSE refresh
  /\ UNCHANGED <<cfg, up, lastPet, silent, steady, fails, crashes>>

\* Mutant: a first refresh waits as well.
DueLater == lastPet # None /\ lastPet >= EffectiveInterval(cfg)
\* watchdogDue
Due == lastPet # None => lastPet >= EffectiveInterval(cfg)

\* The strategies are through.
Check ==
  /\ refresh = "evaluate"
  /\ refresh' = IF Due THEN "write" ELSE "idle"
  /\ UNCHANGED <<cfg, up, phase, lastPet, silent, steady, fails, crashes>>

\* executeControl: the device takes the write ...
Lands ==
  /\ refresh = "write"
  /\ silent' = 0 /\ steady' = TRUE
  /\ refresh' = "confirm"
  /\ UNCHANGED <<cfg, up, phase, lastPet, fails, crashes>>

\* ... and the read-back returns.
Returns ==
  /\ refresh = "confirm"
  /\ lastPet' = 0
  /\ refresh' = "idle"
  /\ UNCHANGED <<cfg, up, phase, silent, steady, fails, crashes>>

\* A strategy throws and takes the tick along, or the refresh fails: "do NOT
\* record a refresh".
Throws ==
  /\ fails < MaxFails /\ fails' = fails + 1
  /\ refresh # "idle" /\ refresh' = "idle"
  /\ steady' = FALSE
  /\ UNCHANGED <<cfg, up, phase, lastPet, silent, crashes>>

\* lastPet goes with the process.
Crash ==
  /\ up /\ crashes < MaxCrashes /\ crashes' = crashes + 1
  /\ up' = FALSE /\ phase' = 0 /\ refresh' = "idle" /\ lastPet' = None
  /\ steady' = FALSE
  /\ UNCHANGED <<cfg, silent, fails>>

\* The process is started again, or another replica takes the lease.
Restart ==
  /\ ~up
  /\ up' = TRUE
  /\ UNCHANGED <<cfg, phase, refresh, lastPet, silent, steady, fails, crashes>>

\* Time passes; a tick that is not over when the next one is due is late.
Pass ==
  /\ up => phase < TickLen
  /\ phase' = IF up THEN phase + 1 ELSE phase
  /\ lastPet' = Age(lastPet, Cap(cfg))
  /\ silent' = Age(silent, cfg.timeout)
  /\ steady' = (steady /\ ~(refresh # "idle" /\ phase' = TickLen))
  /\ UNCHANGED <<cfg, up, refresh, fails, crashes>>

Step == Check \/ Lands \/ Returns

Next == Fire \/ Step \/ Throws \/ Crash \/ Restart \/ Pass

Spec == Init /\ [][Next]_vars

---------------------------------------------------------------------------
Reverted == silent = cfg.timeout

(***************************************************************************)
(* "make the device revert DURING normal operation ... worse than no         *)
(* watchdog" (watchdog.ts:75-76): a device that has taken a refresh never    *)
(* reverts as long as the process runs, no tick or refresh fails and every   *)
(* tick is over before the next.  Of its block it takes a timeout of three   *)
(* of the shortest refreshes and of more than four and a half ticks: a third *)
(* for the refresh to fall due, one tick that just misses it, and the time   *)
(* two ticks may take from their timer to their write.  One failure is one   *)
(* too many: lastPet is set behind the write, so a tick as long as the       *)
(* interval refreshes every other time.                                      *)
(***************************************************************************)
KeptAlive ==
  Reverted =>
    \/ ~steady
    \/ cfg.timeout < RefreshesPerTimeout * MinInterval
    \/ 2 * cfg.timeout <= 9 * (TickLen - 1)

(***************************************************************************)
(* "Will the controller's own tick keep up with this watchdog?"              *)
(* (watchdog.ts:100-101): an interval no shorter than the ticks is not       *)
(* enough.  A tick of 7 that takes its time reverts a device refreshed every *)
(* 9 with a timeout of 27.                                                   *)
(***************************************************************************)
KeepsUp ==
  Reverted => ~steady \/ TickTooSlow(cfg) \/ cfg.timeout < RefreshesPerTimeout * MinInterval

(***************************************************************************)
(* "silently refreshing too slowly looks like it works until the day it      *)
(* matters" (watchdog.ts:104-105): whatever failed or ended, refreshes come  *)
(* again and again.                                                          *)
(***************************************************************************)
ComesBack == <>[]up => []<>(silent = 0)

=============================================================================
