--------------------------- MODULE ReportSchedule ---------------------------
(***************************************************************************)
(* One report schedule (api/reports/scheduler.ts) and the replicas whose     *)
(* timers tick for it without a lease.  Time is counted in slots on the      *)
(* site's clock, PeriodLen of them to a day, week or month; the schedule is  *)
(* due in the slot DueSlot of each period and reports the one before.        *)
(***************************************************************************)
EXTENDS Naturals

CONSTANTS
  Server,       \* replicas
  PeriodLen, DueSlot,
  LastSlot,     \* bound: the time of the run
  None,
  MaxAdhoc,     \* bound: runs an operator asks for
  MaxCrashes    \* bound: process ends and failed runs

ReportAssumption ==
  /\ PeriodLen \in Nat \ {0} /\ DueSlot \in 0..(PeriodLen - 1)
  /\ LastSlot \in Nat /\ PeriodLen <= LastSlot /\ MaxAdhoc \in Nat /\ MaxCrashes \in Nat
  /\ None \notin Nat

VARIABLES
  slot,         \* the time
  lastRunAt,    \* the row
  tick,         \* per replica: where its tick is, its `now` and its snapshot of the row
  ticked,       \* replicas that have ticked in this slot
  mailed,       \* history: how often the scheduler reported each period, capped at 2
  late,         \* history: a claim or a run took longer than its slot
  adhoc, crashes

vars == <<slot, lastRunAt, tick, ticked, mailed, late, adhoc, crashes>>

Period(at) == at \div PeriodLen
Start(period) == period * PeriodLen
Resting == [pc |-> "idle", now |-> 0, seen |-> None]

\* The last_run_at column of report_schedules.
LastRunAt == 0..LastSlot \cup {None}

TypeOK ==
  /\ slot \in 0..LastSlot
  /\ lastRunAt \in LastRunAt
  /\ tick \in [Server -> [pc : {"idle", "claim", "run"}, now : 0..LastSlot,
                          seen : 0..LastSlot \cup {None}]]
  /\ ticked \subseteq Server
  /\ mailed \in [0..Period(LastSlot) -> 0..2]
  /\ late \in BOOLEAN /\ adhoc \in 0..MaxAdhoc /\ crashes \in 0..MaxCrashes

---------------------------------------------------------------------------
Init ==
  /\ slot = PeriodLen
  /\ lastRunAt = None
  /\ tick = [r \in Server |-> Resting]
  /\ ticked = {}
  /\ mailed = [p \in 0..Period(LastSlot) |-> 0]
  /\ late = FALSE /\ adhoc = 0 /\ crashes = 0

\* isDue: the hour (and weekday, or day of the month) and no run in this period.
IsDue(now, seen) ==
  /\ now % PeriodLen = DueSlot
  /\ seen = None \/ Period(seen) # Period(now)

\* reportTick reads the schedules; one that is not due ends the tick here.
Tick(r) ==
  /\ tick[r].pc = "idle" /\ r \notin ticked
  /\ ticked' = ticked \cup {r}
  /\ tick' = IF IsDue(slot, lastRunAt)
             THEN [tick EXCEPT ![r] = [pc |-> "claim", now |-> slot, seen |-> lastRunAt]]
             ELSE tick
  /\ UNCHANGED <<slot, lastRunAt, mailed, late, adhoc, crashes>>

\* Mutants: the claim trusts the snapshot; it looks one period further back.
ClaimableSeen(now, seen) == lastRunAt = None \/ seen = None \/ seen < Start(Period(now) - 1)
ClaimableOlder(now, seen) == lastRunAt = None \/ lastRunAt < Start(Period(now) - 2)
\* UPDATE ... WHERE last_run_at IS NULL OR last_run_at < the start of the
\* period to report, which is the one before.
Claimable(now, seen) == lastRunAt = None \/ lastRunAt < Start(Period(now) - 1)

Claim(r) ==
  /\ tick[r].pc = "claim"
  /\ IF Claimable(tick[r].now, tick[r].seen)
     THEN lastRunAt' = tick[r].now /\ tick' = [tick EXCEPT ![r].pc = "run"]
     ELSE UNCHANGED lastRunAt /\ tick' = [tick EXCEPT ![r] = Resting]
  /\ UNCHANGED <<slot, ticked, mailed, late, adhoc, crashes>>

Mail(period) == mailed' = [mailed EXCEPT ![period] = IF @ = 2 THEN 2 ELSE @ + 1]

\* runSchedule, which takes the time of day anew.
Run(r) ==
  /\ tick[r].pc = "run"
  /\ Mail(Period(slot) - 1)
  /\ lastRunAt' = slot
  /\ tick' = [tick EXCEPT ![r] = Resting]
  /\ UNCHANGED <<slot, ticked, late, adhoc, crashes>>

\* The query, the file or the mail fails, before or after the mail is out, or
\* the process ends.
Fail(r) ==
  /\ crashes < MaxCrashes /\ crashes' = crashes + 1
  /\ tick[r].pc # "idle"
  /\ UNCHANGED mailed \/ (tick[r].pc = "run" /\ Mail(Period(slot) - 1))
  /\ tick' = [tick EXCEPT ![r] = Resting]
  /\ UNCHANGED <<slot, lastRunAt, ticked, late, adhoc>>

\* An operator runs it now, for the current period to date.
RunNow ==
  /\ adhoc < MaxAdhoc /\ adhoc' = adhoc + 1
  /\ lastRunAt' = slot
  /\ UNCHANGED <<slot, tick, ticked, mailed, late, crashes>>

\* A slot is far longer than the interval: it ends after every replica ticked
\* in it.  A run may last into the next slot, where its replica ticks anew only
\* when it is over.
Pass ==
  /\ slot < LastSlot /\ ticked = Server
  /\ slot' = slot + 1 /\ ticked' = {}
  /\ late' = (late \/ \E r \in Server : tick[r].pc # "idle")
  /\ UNCHANGED <<lastRunAt, tick, mailed, adhoc, crashes>>

Next ==
  \/ \E r \in Server : Tick(r) \/ Claim(r) \/ Run(r) \/ Fail(r)
  \/ RunNow \/ Pass

Spec == Init /\ [][Next]_vars

FairSpec ==
  /\ Spec
  /\ WF_vars(Pass)
  /\ \A r \in Server : WF_vars(Tick(r)) /\ WF_vars(Claim(r) \/ Run(r))

---------------------------------------------------------------------------
(***************************************************************************)
(* "exactly one replica wins" (scheduler.ts:203-206): no period is mailed    *)
(* twice by the scheduler, whichever replicas raced for it, though a claim   *)
(* or a run comes in the slot after its tick, and whatever failed between.   *)
(***************************************************************************)
AtMostOnce == \A p \in DOMAIN mailed : mailed[p] < 2

(***************************************************************************)
(* "daily -> local hour == hourLocal (runs once per day)"                    *)
(* (scheduler.ts:4): with nothing failing, no run by hand and none that      *)
(* takes longer than its slot, every period that ends is mailed.             *)
(***************************************************************************)
Undisturbed == <>[](adhoc = 0 /\ crashes = 0 /\ ~late)
EveryPeriod ==
  \A p \in 1..(Period(LastSlot) - 1) :
    Undisturbed => <>[](mailed[p] > 0)

(***************************************************************************)
(* What the claim does let through: of two periods in a row at least one is  *)
(* mailed.                                                                   *)
(***************************************************************************)
NeverTwoMissed ==
  \A p \in 1..(Period(LastSlot) - 2) :
    Undisturbed => <>[](mailed[p] + mailed[p + 1] > 0)

=============================================================================
