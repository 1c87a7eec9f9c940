--------------------------- MODULE EmsController ---------------------------
(***************************************************************************)
(* The EMS controller (api/ems/controller.ts, decide.ts) for one BESS with a *)
(* bipolar power register: at every tick peak shaving is evaluated first,    *)
(* then the active plan, then the schedules, and the first strategy that     *)
(* drives the BESS keeps the later ones off it.                              *)
(*                                                                           *)
(* peak and last are the two in-memory maps of a process: the peak events it *)
(* believes to be active and the last setpoint it sent.  They are written    *)
(* when the device write has returned, while the register changes when the   *)
(* write lands.  A tick runs on the replica that holds the lease; nothing    *)
(* stops a replica's timer from starting a tick while an earlier one waits   *)
(* for a device, so a replica has several tick slots.                        *)
(***************************************************************************)
EXTENDS Integers, FiniteSets

CONSTANTS
  Replica,
  Slot,          \* ticks of a replica that can overlap
  Config,        \* peak-shaving configurations of the BESS
  Power,         \* import powers the source meters can show
  Threshold, Hysteresis, MaxDischarge,   \* of every configuration
  RegisterMax,   \* upper end of the register's range
  MinMove,       \* peakMinMoveKw
  Reading,       \* readings of a source meter: Power, Stale, NoMetric
  Stale,         \* no row, or an old one
  NoMetric,      \* a fresh row without activePowerKw
  Soc,           \* readings of the BESS: "low", "inside", "high", "unknown"
  Plan,          \* what the active plan can ask for: [limited, kw], NoPlan
  Schedule,      \* what the due schedule can ask for, likewise
  NoPlan,
  None,
  Window,        \* EMS_IDEMPOTENCY_MS, in ticks
  MaxFails,      \* bound: failed writes and evaluations
  MaxCrashes     \* bound: process ends

ASSUME EmsAssumption ==
  /\ Power \subseteq Nat /\ Reading \subseteq Power \cup {Stale, NoMetric}
  /\ {Threshold, Hysteresis, MaxDischarge, RegisterMax, Window} \subseteq Nat
  /\ MinMove \in Nat \ {0}
  /\ Plan \cup Schedule \subseteq [limited : BOOLEAN, kw : Int \cup {None}] \cup {NoPlan}
  /\ {"plan", "schedule"} \cap Config = {}
  /\ MaxFails \in Nat /\ MaxCrashes \in Nat

VARIABLES
  reading, soc, plan, due,   \* what the tick reads
  register,                     \* the BESS's power register
  peak,                         \* peakState of each replica
  last,                         \* lastCmd of each replica
  tick,                         \* where each tick is
  fails, crashes                \* bound counters

env == <<reading, soc, plan, due>>
vars == <<reading, soc, plan, due, register, peak, last, tick, fails, crashes>>

Lesser(a, b) == IF a < b THEN a ELSE b
Greater(a, b) == IF a > b THEN a ELSE b

Setpoint == ({p.kw : p \in (Plan \cup Schedule) \ {NoPlan}} \ {None})
            \cup 0..Lesser(MaxDischarge, RegisterMax)

Event == [active : BOOLEAN, lastSent : Setpoint \cup {None}]
NoEvent == [active |-> FALSE, lastSent |-> None]

\* What an evaluation hands to send(), and the peak event once send() returns.
Strategy == Config \cup {"plan", "schedule"}
Command == [value : Setpoint, by : Strategy, next : Event, landed : BOOLEAN]

ASSUME NoneAssumption == None \notin Command

TickState ==
  [stage : {"idle", "peak", "schedule", "ending"},
   todo : SUBSET Config,           \* configurations still to evaluate
   limited : BOOLEAN,              \* planLimits, read before the loop
   drove : BOOLEAN,                \* the skip sets
   sent : SUBSET Strategy,         \* history: strategies that called send()
   cmd : Command \cup {None}]
IdleTick == [stage |-> "idle", todo |-> {}, limited |-> FALSE, drove |-> FALSE,
             sent |-> {}, cmd |-> None]

TypeOK ==
  /\ reading \in [Config -> Reading]
  /\ soc \in Soc /\ plan \in Plan /\ due \in Schedule
  /\ register \in Setpoint
  /\ peak \in [Replica -> [Config -> Event]]
  /\ last \in [Replica -> [value : Setpoint, age : 0..Window]]
  /\ tick \in [Replica -> [Slot -> TickState]]
  /\ fails \in 0..MaxFails /\ crashes \in 0..MaxCrashes

---------------------------------------------------------------------------
\* Decisions (decide.ts).

\* socGuardDecision, with both limits configured or none.
Blocked(kw, limited) ==
  /\ limited
  /\ \/ kw > 0 /\ soc \in {"low", "unknown"}
     \/ kw < 0 /\ soc \in {"high", "unknown"}

StopDue(import) == import < Threshold - Hysteresis
\* Mutant: neither limit is applied.
StartPowerUncapped(import) == import - Threshold
StartPower(import) ==
  Lesser(import - Threshold, Lesser(MaxDischarge, RegisterMax))
HoldPower(import) ==
  Lesser(Greater(import - Threshold, 0), Lesser(MaxDischarge, RegisterMax))
\* Mutant: a move of MinMove itself is not worth a write.
RetrimDueLate(power, sent) ==
  sent = None \/ power - sent > MinMove \/ sent - power > MinMove
RetrimDue(power, sent) ==
  sent = None \/ power - sent >= MinMove \/ sent - power >= MinMove

\* The guard of send(): the same value within the window is not sent again.
Duplicate(r, value) == last[r].value = value /\ last[r].age < Window

\* An evaluation's outcome: the value to send or None, the peak event
\* afterwards, and whether the configuration drives the BESS in this tick.
Outcome(value, event, drives) == [value |-> value, next |-> event, drives |-> drives]
Leave(st) == Outcome(None, st, FALSE)

\* Mutant: the cut does not claim the tick.
CutOpen(st) == IF st.active THEN Outcome(0, NoEvent, FALSE) ELSE Leave(st)
\* Mutant: the event ends without the idle command.
CutSilently(st) == IF st.active THEN Outcome(None, NoEvent, TRUE) ELSE Leave(st)
\* An active event ends with an idle command; the others are left alone.
Cut(st) == IF st.active THEN Outcome(0, NoEvent, TRUE) ELSE Leave(st)

\* Not active: start above the threshold.
Rest(import, st) ==
  LET p == StartPower(import)
  IN IF import > Threshold /\ p > 0
     THEN Outcome(p, [active |-> TRUE, lastSent |-> p], TRUE)
     ELSE Leave(st)

\* Mutant: an event that sends nothing does not claim the tick.
RideOpen(import, st) ==
  LET p == HoldPower(import)
  IN IF StopDue(import) THEN Cut(st)
     ELSE IF RetrimDue(p, st.lastSent)
          THEN Outcome(p, [active |-> TRUE, lastSent |-> p], TRUE)
          ELSE Leave(st)
\* Active: stop, re-trim, or hold the tick.
Ride(import, st) ==
  LET p == HoldPower(import)
  IN IF StopDue(import) THEN Cut(st)
     ELSE IF RetrimDue(p, st.lastSent)
          THEN Outcome(p, [active |-> TRUE, lastSent |-> p], TRUE)
          ELSE Outcome(None, st, TRUE)

(***************************************************************************)
(* evalPeakShaving for one configuration: the plan's SoC override first,     *)
(* then the age of the source's row.  A fresh row without activePowerKw      *)
(* leaves everything alone.                                                  *)
(***************************************************************************)
PeakOutcome(st, import, limited) ==
  IF Blocked(1, limited) \/ import = Stale THEN Cut(st)
  ELSE IF import = NoMetric THEN Leave(st)
  ELSE IF st.active THEN Ride(import, st) ELSE Rest(import, st)

\* Mutant: a blocked plan leaves the last setpoint in place, as schedules do.
PlanValueKeeps ==
  IF plan = NoPlan \/ plan.kw = None \/ Blocked(plan.kw, plan.limited) THEN None ELSE plan.kw
\* evalPlans: no setpoint is due yet, or a blocked one becomes an explicit idle.
PlanValue ==
  IF plan = NoPlan \/ plan.kw = None THEN None
  ELSE IF Blocked(plan.kw, plan.limited) THEN 0 ELSE plan.kw

\* evalSchedules: a blocked schedule leaves the last setpoint in place.
ScheduleValue ==
  IF due = NoPlan \/ Blocked(due.kw, due.limited) THEN None ELSE due.kw

---------------------------------------------------------------------------
Init ==
  /\ reading \in [Config -> Reading]
  /\ soc \in Soc /\ plan \in Plan /\ due \in Schedule
  /\ register = 0
  /\ peak = [r \in Replica |-> [c \in Config |-> NoEvent]]
  /\ last = [r \in Replica |-> [value |-> 0, age |-> Window]]
  /\ tick = [r \in Replica |-> [k \in Slot |-> IdleTick]]
  /\ fails = 0 /\ crashes = 0

SetTick(r, k, t) == tick' = [tick EXCEPT ![r][k] = t]
Busy(r) == \E k \in Slot : tick[r][k].stage # "idle"

(***************************************************************************)
(* The interval fires on the replica that has the lease.  A tick is the unit *)
(* of time of the idempotency window.                                        *)
(***************************************************************************)
Begin(r, k) ==
  /\ tick[r][k].stage = "idle"
  /\ \A s \in Replica \ {r} : ~Busy(s)
  /\ SetTick(r, k, [IdleTick EXCEPT !.stage = "peak", !.todo = Config,
                    !.limited = IF plan = NoPlan THEN FALSE ELSE plan.limited])
  /\ last' = [s \in Replica |-> [last[s] EXCEPT !.age = Lesser(@ + 1, Window)]]
  /\ UNCHANGED <<env, register, peak, fails, crashes>>

\* send(value): its early return for a duplicate, or a write under way.
Sends(r, k, t, by, out) ==
  IF out.value = None
  THEN /\ SetTick(r, k, t)
       /\ peak' = IF by \in Config THEN [peak EXCEPT ![r][by] = out.next] ELSE peak
  ELSE IF Duplicate(r, out.value)
  THEN /\ SetTick(r, k, [t EXCEPT !.sent = @ \cup {by}])
       /\ peak' = IF by \in Config THEN [peak EXCEPT ![r][by] = out.next] ELSE peak
  ELSE /\ SetTick(r, k, [t EXCEPT !.sent = @ \cup {by},
            !.cmd = [value |-> out.value, by |-> by, next |-> out.next, landed |-> FALSE]])
       /\ UNCHANGED peak

EvalPeak(r, k, c) ==
  LET t == tick[r][k]
      out == PeakOutcome(peak[r][c], reading[c], t.limited)
  IN /\ t.stage = "peak" /\ c \in t.todo /\ t.cmd = None
     /\ Sends(r, k, [t EXCEPT !.todo = @ \ {c}, !.drove = @ \/ out.drives], c, out)
     /\ UNCHANGED <<env, register, last, fails, crashes>>

\* evalPlans, unless peak shaving drove the BESS.
EvalPlan(r, k) ==
  LET t == tick[r][k]
      value == IF t.drove THEN None ELSE PlanValue
  IN /\ t.stage = "peak" /\ t.todo = {} /\ t.cmd = None
     /\ Sends(r, k, [t EXCEPT !.stage = "schedule", !.drove = @ \/ value # None],
              "plan", Outcome(value, NoEvent, TRUE))
     /\ UNCHANGED <<env, register, last, fails, crashes>>

\* evalSchedules, unless the BESS was driven already.
EvalSchedule(r, k) ==
  LET t == tick[r][k]
      value == IF t.drove THEN None ELSE ScheduleValue
  IN /\ t.stage = "schedule" /\ t.cmd = None
     /\ Sends(r, k, [t EXCEPT !.stage = "ending"], "schedule", Outcome(value, NoEvent, TRUE))
     /\ UNCHANGED <<env, register, last, fails, crashes>>

End(r, k) ==
  /\ tick[r][k].stage = "ending" /\ tick[r][k].cmd = None
  /\ SetTick(r, k, IdleTick)
  /\ UNCHANGED <<env, register, peak, last, fails, crashes>>

\* The device takes the value.
Lands(r, k) ==
  LET cmd == tick[r][k].cmd IN
  /\ cmd # None /\ ~cmd.landed
  /\ register' = cmd.value
  /\ SetTick(r, k, [tick[r][k] EXCEPT !.cmd.landed = TRUE])
  /\ UNCHANGED <<env, peak, last, fails, crashes>>

\* send() is over: the caller records the peak event whatever became of it.
Returns(r, k) ==
  LET cmd == tick[r][k].cmd IN
  /\ SetTick(r, k, [tick[r][k] EXCEPT !.cmd = None])
  /\ peak' = IF cmd.by \in Config THEN [peak EXCEPT ![r][cmd.by] = cmd.next] ELSE peak
  /\ UNCHANGED <<env, register, crashes>>

Remember(r, value) == last' = [last EXCEPT ![r] = [value |-> value, age |-> 0]]

\* The write has landed and its response is back.
SendOk(r, k) ==
  /\ tick[r][k].cmd # None /\ tick[r][k].cmd.landed
  /\ Remember(r, tick[r][k].cmd.value)
  /\ Returns(r, k)
  /\ UNCHANGED fails

(***************************************************************************)
(* executeAndLog reports or throws a failure, before or after the write has  *)
(* reached the device.  A reported one and a ControlError are remembered in  *)
(* lastCmd like a success, other exceptions are not.                         *)
(***************************************************************************)
SendFails(r, k) ==
  /\ fails < MaxFails
  /\ fails' = fails + 1
  /\ tick[r][k].cmd # None
  /\ Remember(r, tick[r][k].cmd.value) \/ UNCHANGED last
  /\ Returns(r, k)

\* A query of one evaluation throws: it is skipped, the loop goes on.
EvalFails(r, k) ==
  LET t == tick[r][k] IN
  /\ fails < MaxFails
  /\ fails' = fails + 1
  /\ t.cmd = None
  /\ \/ /\ t.stage = "peak"
        /\ \E c \in t.todo : SetTick(r, k, [t EXCEPT !.todo = @ \ {c}])
     \/ /\ t.stage = "peak" /\ t.todo = {}
        /\ SetTick(r, k, [t EXCEPT !.stage = "schedule"])
     \/ /\ t.stage = "schedule"
        /\ SetTick(r, k, [t EXCEPT !.stage = "ending"])
  /\ UNCHANGED <<env, register, peak, last, crashes>>

\* The process ends and is started again: both maps are empty.
Crash(r) ==
  /\ crashes < MaxCrashes
  /\ crashes' = crashes + 1
  /\ peak' = [peak EXCEPT ![r] = [c \in Config |-> NoEvent]]
  /\ last' = [last EXCEPT ![r] = [value |-> 0, age |-> Window]]
  /\ tick' = [tick EXCEPT ![r] = [k \in Slot |-> IdleTick]]
  /\ UNCHANGED <<env, register, fails>>

\* Telemetry arrives or ages, a plan is pushed or expires, a window opens.
Change ==
  /\ \/ /\ \E c \in Config, v \in Reading : reading' = [reading EXCEPT ![c] = v]
        /\ UNCHANGED <<soc, plan, due>>
     \/ soc' \in Soc /\ UNCHANGED <<reading, plan, due>>
     \/ plan' \in Plan /\ UNCHANGED <<reading, soc, due>>
     \/ due' \in Schedule /\ UNCHANGED <<reading, soc, plan>>
  /\ UNCHANGED <<register, peak, last, tick, fails, crashes>>

TickStep(r, k) ==
  \/ \E c \in Config : EvalPeak(r, k, c)
  \/ EvalPlan(r, k)
  \/ EvalSchedule(r, k)
  \/ End(r, k)
  \/ Lands(r, k)
  \/ SendOk(r, k)

Next ==
  \/ \E r \in Replica, k \in Slot :
       \/ Begin(r, k)
       \/ TickStep(r, k)
       \/ SendFails(r, k)
       \/ EvalFails(r, k)
  \/ \E r \in Replica : Crash(r)
  \/ Change

Spec == Init /\ [][Next]_vars

\* The loop ticks, on one replica or another, and a tick that began goes on.
FairSpec ==
  /\ Spec
  /\ WF_vars(\E r \in Replica, k \in Slot : Begin(r, k))
  /\ \A r \in Replica, k \in Slot : WF_vars(TickStep(r, k))

---------------------------------------------------------------------------
(***************************************************************************)
(* "import < thresholdKw - hysteresisKw -> stop (setpoint 0)"                *)
(* (controller.ts:31): without plans and schedules, once the import of every *)
(* source stays below the band, the BESS ends up idle.                       *)
(***************************************************************************)
AllBelow == \A c \in Config : reading[c] \in Power /\ StopDue(reading[c])
Stops == <>[]AllBelow => <>[](register = 0)

(***************************************************************************)
(* "import > thresholdKw -> discharge" (controller.ts:29-30): while the      *)
(* import stays at one level above the threshold, the BESS ends up within    *)
(* the re-trim margin of the power that level asks for.                      *)
(***************************************************************************)
Shaves ==
  \A c \in Config : \A p \in Power :
    p > Threshold /\ <>[](reading[c] = p)
      => <>[](register - HoldPower(p) \in (1 - MinMove)..(MinMove - 1))

(***************************************************************************)
(* The SoC limits of a plan bind whatever commands the BESS: once a          *)
(* discharging plan with limits stays active and the SoC stays low or        *)
(* unknown, the BESS ends up not discharging, whatever peak shaving and the  *)
(* schedules want, and whatever writes failed or processes ended before.     *)
(***************************************************************************)
Unsafe ==
  /\ plan # NoPlan /\ plan.limited /\ plan.kw # None /\ plan.kw > 0
  /\ soc \in {"low", "unknown"}
CutsUnsafe == <>[]Unsafe => <>[](register <= 0)

(***************************************************************************)
(* Priority peak > plan > schedule: at most one of them calls send() for the *)
(* BESS in a tick.                                                           *)
(***************************************************************************)
OneStrategyPerTick ==
  \A r \in Replica, k \in Slot : \A b, d \in tick[r][k].sent : b = d \/ {b, d} \subseteq Config

(***************************************************************************)
(* "a BESS with a firing/active peak config this tick skips plan and         *)
(* schedule evaluation entirely" (controller.ts:45-46), as long as every     *)
(* source row carries the power (a row that does not is passed over before   *)
(* the BESS is claimed), no query fails and ticks do not overlap.            *)
(***************************************************************************)
PeakOwnsTick ==
  \A r \in Replica, k \in Slot :
    fails = 0 /\ (\E c \in Config : peak[r][c].active)
      => tick[r][k].sent \cap {"plan", "schedule"} = {}

\* Who commands the BESS in a tick: one strategy, and peak shaving before all.
OneOwner == OneStrategyPerTick /\ PeakOwnsTick

=============================================================================
