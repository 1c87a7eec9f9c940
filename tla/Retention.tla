----------------------------- MODULE Retention -----------------------------
(***************************************************************************)
(* How long raw telemetry is kept (api/telemetry/rollup.ts, the plan of      *)
(* api/orgs/retention.ts): every replica's timer rolls the last closed hour  *)
(* up, then everything that is about to go, and deletes it in passes - what  *)
(* is past the longest retention anybody asked for, what is past the         *)
(* deployment's default, and each organisation's own.                        *)
(*                                                                           *)
(* Time is counted in slots, HourLen to an hour; every meter has one sample  *)
(* per slot, in the table as its slot begins.  A tick's statements are steps *)
(* of their own.  A statement that fails and a process that ends both leave  *)
(* the tick where it is.                                                     *)
(***************************************************************************)
EXTENDS Integers, FiniteSets, FiniteSetsExt

CONSTANTS
  Tenant,        \* organisations, with one meter each; one without an override
                 \* stands for the meters without an organisation, too
  None,
  HourLen, RawDays, Override,   \* the default and the overrides, in slots
  FirstSlot, LastSlot,          \* the first tick looks at a full table
  Job,           \* ticks that can be under way at once, over all replicas
  InitialDays,   \* telemetry_raw_days to begin with
  MaxFaults      \* bound: changed overrides, failing statements, process ends

RetentionAssumption ==
  /\ HourLen \in Nat \ {0} /\ RawDays \in Nat \ {0} /\ LastSlot \in Nat /\ FirstSlot \in 0..LastSlot
  /\ Override \subseteq Nat /\ IsFiniteSet(Override) /\ None \notin Nat
  \* Whole days from 1 to 3650 (routers/orgs.ts:415), so finitely many, and none
  \* reaches into the last closed hour.
  /\ \A d \in Override \cup {RawDays} : d >= 2 * HourLen - 1
  /\ InitialDays \subseteq [Tenant -> Override \cup {None}] /\ MaxFaults \in Nat

VARIABLES
  now,
  days,      \* telemetry_raw_days of each organisation, None for the default
  asked,     \* history: the shortest retention it has asked for
  raw,       \* each organisation's samples in telemetry, by slot
  hourly,    \* those its rows of telemetry_hourly count
  rolled,    \* history: those some row has counted
  job, faults

vars == <<now, days, asked, raw, hourly, rolled, job, faults>>

Slot == 0..LastSlot
Samples == [Tenant -> SUBSET Slot]
Hour(h) == h * HourLen .. (h + 1) * HourLen - 1

\* The telemetry_raw_days column of orgs.
TelemetryRawDays == [Tenant -> Override \cup {None}]
Asleep == [pc |-> "idle", at |-> 0, days |-> [o \in Tenant |-> None], hour |-> 0, todo |-> {}]

TypeOK ==
  /\ now \in Slot
  /\ days \in TelemetryRawDays
  /\ asked \in [Tenant -> Override \cup {RawDays}]
  /\ raw \in Samples /\ hourly \in Samples /\ rolled \in Samples
  /\ job \in [Job -> [pc : {"idle", "plan", "oldest", "roll", "global", "default", "orgs"},
                      at : Slot, days : TelemetryRawDays, hour : 0..LastSlot + 1,
                      todo : SUBSET Tenant]]
  /\ faults \in 0..MaxFaults

---------------------------------------------------------------------------
\* The plan a tick works by follows from when it read the overrides, and them.
Asks(plan, o) == IF plan.days[o] = None THEN RawDays ELSE plan.days[o]
\* An override equal to the default is none ...
Overrides(plan) == {o \in Tenant : plan.days[o] \notin {None, RawDays}}
Longest(plan) == Max({RawDays} \cup {Asks(plan, o) : o \in Overrides(plan)})
GlobalCutoff(plan) == plan.at - Longest(plan)
DefaultCutoff(plan) == plan.at - RawDays
PerOrg(plan) == {o \in Overrides(plan) : Asks(plan, o) < Longest(plan)}
Cutoff(plan, o) == plan.at - Asks(plan, o)
\* Mutant: the roll-up stops at the default.
RollupUpToDefault(plan) == Max({GlobalCutoff(plan), DefaultCutoff(plan)})
RollupUpTo(plan) ==
  Max({GlobalCutoff(plan), DefaultCutoff(plan)} \cup {Cutoff(plan, o) : o \in PerOrg(plan)})
\* Mutant: the default's pass runs when somebody keeps less, not more.
OwnPassLate(plan) == DefaultCutoff(plan) < GlobalCutoff(plan)
\* defaultNeedsOwnPass
OwnPass(plan) == DefaultCutoff(plan) > GlobalCutoff(plan)

Before(c) == 0..(c - 1)
\* Mutant: the global pass runs at the default.
GlobalPassDefault(plan) == [o \in Tenant |-> raw[o] \ Before(DefaultCutoff(plan))]
GlobalPass(plan) == [o \in Tenant |-> raw[o] \ Before(GlobalCutoff(plan))]
\* ... but its organisation is left out of the default's pass all the same.
DefaultPass(plan) ==
  [o \in Tenant |-> IF plan.days[o] = None THEN raw[o] \ Before(DefaultCutoff(plan)) ELSE raw[o]]

---------------------------------------------------------------------------
Init ==
  /\ now = FirstSlot
  /\ days \in InitialDays
  /\ asked = [o \in Tenant |-> IF days[o] = None THEN RawDays ELSE days[o]]
  /\ raw = [o \in Tenant |-> 0..FirstSlot]
  /\ hourly = [o \in Tenant |-> {}] /\ rolled = hourly
  /\ job = [j \in Job |-> Asleep]
  /\ faults = 0

\* rollupHour, one statement: a row for every meter with raw samples in the
\* hour, over the row it had.
RolledUp(h) ==
  [o \in Tenant |-> LET fresh == raw[o] \cap Hour(h)
                    IN IF fresh = {} THEN hourly[o] ELSE (hourly[o] \ Hour(h)) \cup fresh]
RollUp(h) ==
  /\ hourly' = RolledUp(h)
  /\ rolled' = [o \in Tenant |-> rolled[o] \cup hourly'[o]]

Begin(j) ==
  /\ job[j].pc = "idle"
  /\ RollUp(now \div HourLen - 1)
  /\ job' = [job EXCEPT ![j] = [Asleep EXCEPT !.pc = "plan"]]
  /\ UNCHANGED <<now, days, asked, raw, faults>>

Plan(j) ==
  /\ job[j].pc = "plan"
  /\ job' = [job EXCEPT ![j] = [Asleep EXCEPT !.pc = "oldest", !.at = now, !.days = days]]
  /\ UNCHANGED <<now, days, asked, raw, hourly, rolled, faults>>

\* The oldest row that is to go decides where the roll-up starts.
FindOldest(j) ==
  LET doomed == (UNION {raw[o] : o \in Tenant}) \cap Before(RollupUpTo(job[j])) IN
  /\ job[j].pc = "oldest"
  /\ job' = [job EXCEPT ![j].pc = IF doomed = {} THEN "global" ELSE "roll",
                        ![j].hour = IF doomed = {} THEN 0 ELSE Min(doomed) \div HourLen]
  /\ UNCHANGED <<now, days, asked, raw, hourly, rolled, faults>>

\* rollupRange: an hour after the other.
RollHour(j) ==
  LET next == job[j].hour + 1 IN
  /\ job[j].pc = "roll"
  /\ RollUp(job[j].hour)
  /\ job' = [job EXCEPT ![j] = IF next * HourLen < RollupUpTo(@)
                               THEN [@ EXCEPT !.hour = next]
                               ELSE [@ EXCEPT !.hour = 0, !.pc = "global"]]
  /\ UNCHANGED <<now, days, asked, raw, faults>>

Remaining(plan) == IF PerOrg(plan) = {} THEN Asleep
               ELSE [plan EXCEPT !.pc = "orgs", !.todo = PerOrg(plan)]

DeleteGlobal(j) ==
  /\ job[j].pc = "global"
  /\ raw' = GlobalPass(job[j])
  /\ job' = [job EXCEPT ![j] = IF OwnPass(@) THEN [@ EXCEPT !.pc = "default"] ELSE Remaining(@)]
  /\ UNCHANGED <<now, days, asked, hourly, rolled, faults>>

DeleteDefault(j) ==
  /\ job[j].pc = "default"
  /\ raw' = DefaultPass(job[j])
  /\ job' = [job EXCEPT ![j] = Remaining(@)]
  /\ UNCHANGED <<now, days, asked, hourly, rolled, faults>>

DeleteOrg(j) ==
  /\ job[j].pc = "orgs"
  /\ \E o \in job[j].todo :
       LET left == job[j].todo \ {o} IN
       /\ raw' = [raw EXCEPT ![o] = @ \ Before(Cutoff(job[j], o))]
       /\ job' = [job EXCEPT ![j] = IF left = {} THEN Asleep ELSE [@ EXCEPT !.todo = left]]
  /\ UNCHANGED <<now, days, asked, hourly, rolled, faults>>

\* A statement fails, or the process ends.
Fails(j) ==
  /\ job[j].pc # "idle"
  /\ faults < MaxFaults /\ faults' = faults + 1
  /\ job' = [job EXCEPT ![j] = Asleep]
  /\ UNCHANGED <<now, days, asked, raw, hourly, rolled>>

\* setRetention
SetRetention(o) ==
  /\ faults < MaxFaults /\ faults' = faults + 1
  /\ \E d \in Override \cup {None} :
       /\ days' = [days EXCEPT ![o] = d]
       /\ asked' = [asked EXCEPT ![o] = Min({@, IF d = None THEN RawDays ELSE d})]
  /\ UNCHANGED <<now, raw, hourly, rolled, job>>

\* A slot passes, with its samples.
Pass ==
  /\ now < LastSlot /\ now' = now + 1
  /\ raw' = [o \in Tenant |-> raw[o] \cup {now'}]
  /\ UNCHANGED <<days, asked, hourly, rolled, job, faults>>

Work(j) ==
  \/ Plan(j) \/ FindOldest(j) \/ RollHour(j)
  \/ DeleteGlobal(j) \/ DeleteDefault(j) \/ DeleteOrg(j)

Next ==
  \/ \E j \in Job : Begin(j) \/ Work(j) \/ Fails(j)
  \/ \E o \in Tenant : SetRetention(o)
  \/ Pass

Spec == Init /\ [][Next]_vars

\* The timer fires and its statements come back; time passes.
FairSpec ==
  /\ Spec
  /\ \A j \in Job : WF_vars(Begin(j)) /\ WF_vars(Work(j))
  /\ WF_vars(Pass)

---------------------------------------------------------------------------
Age(t) == now - t
Keeps(o) == IF days[o] = None THEN RawDays ELSE days[o]

(***************************************************************************)
(* "everything about to be deleted must be rolled up to here first, or a     *)
(* tenant with a short retention would lose hours that never made it into an *)
(* aggregate" (orgs/retention.ts:25-27): whatever replicas, changes and      *)
(* failures come between the two, no sample goes that no aggregate counted.  *)
(***************************************************************************)
RolledFirst == \A o \in Tenant : 0..now \subseteq raw[o] \cup rolled[o]

(***************************************************************************)
(* "the global purge would delete, at ninety days, the very rows a tenant is *)
(* paying to keep for five years" (orgs/retention.ts:10-12): no pass deletes *)
(* a sample its owner has always asked to keep for longer.                   *)
(***************************************************************************)
KeptAsAsked == [][\A o \in Tenant : \A t \in raw[o] \ raw'[o] : Age(t) > asked[o]]_vars

(***************************************************************************)
(* "Each org keeping less than the longest, at its own later cutoff"         *)
(* (rollup.ts:166): what is past its owner's retention does not stay - but   *)
(* for the organisation whose override equals the default (README).          *)
(***************************************************************************)
GoneInTime ==
  <>[](\A o \in Tenant : days[o] = RawDays \/ \A t \in raw[o] : Age(t) <= Keeps(o))

(***************************************************************************)
(* "History survives raw-data pruning" (docs/sla.md:38): a sample is in the  *)
(* raw table or counted in its hour's aggregate.                             *)
(***************************************************************************)
HistorySurvives == \A o \in Tenant : 0..now \subseteq raw[o] \cup hourly[o]

=============================================================================
