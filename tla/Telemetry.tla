----------------------------- MODULE Telemetry -----------------------------
(***************************************************************************)
(* What becomes of a sample: the writer that takes it to the table           *)
(* (BatchWriter), the job that rolls it up and deletes it (Retention) and    *)
(* the sweep that reads a battery's health from it (SohTracker).  The three  *)
(* meet in the telemetry table only, months apart, so their behaviours are   *)
(* looked at one at a time: `part` says whose a behaviour is, and the others *)
(* rest in an initial state.                                                 *)
(***************************************************************************)
EXTENDS BatchWriter

CONSTANTS
  None,
  Tenant, HourLen, RawDays, Override, FirstSlot, LastSlot, Job, InitialDays, MaxFaults,  \* Retention
  Series, LastBucket, Page, MaxGap, Grace, MinSpan, Worker, MaxLapses                     \* SohTracker

VARIABLES
  part,
  now, days, asked, raw, hourly, rolled, job, faults,
  clock, series, health, estimates, worker, lapses

R == INSTANCE Retention
H == INSTANCE SohTracker WITH MaxFaults <- MaxLapses

ASSUME TelemetryAssumption == R!RetentionAssumption /\ H!SohAssumption

writing == vars
keeping == <<now, days, asked, raw, hourly, rolled, job, faults>>
health_tracking == <<clock, series, health, estimates, worker, lapses>>
telemetryVars == <<part, writing, keeping, health_tracking>>

TelemetryTypeOK ==
  /\ part \in {"writer", "retention", "health"}
  /\ TypeOK
  /\ part = "retention" => R!TypeOK
  /\ part = "health" => H!TypeOK

TelemetryInit ==
  /\ part \in {"writer", "retention", "health"}
  /\ Init /\ R!Init /\ H!Init
  \* At rest one plan of retention and one battery are as good as another.
  /\ part # "retention" => days = CHOOSE d \in InitialDays : TRUE
  /\ part # "health" => series = CHOOSE s \in Series : TRUE

TelemetryNext ==
  \/ part = "writer" /\ Next /\ UNCHANGED <<part, keeping, health_tracking>>
  \/ part = "retention" /\ R!Next /\ UNCHANGED <<part, writing, health_tracking>>
  \/ part = "health" /\ H!Next /\ UNCHANGED <<part, writing, keeping>>

TelemetrySpec == TelemetryInit /\ [][TelemetryNext]_telemetryVars

rVars == R!vars
hVars == H!vars

\* The fairness of each component, while it is the one that moves.
TelemetryFairness ==
  /\ WF_writing(part = "writer" /\ FlushTimer)
  /\ WF_writing(part = "writer" /\ BackoffOver)
  /\ WF_writing(part = "writer" /\ (WriteOk \/ WriteFails))
  /\ WF_writing(part = "writer" /\ (ReplayOk \/ ReplayFails))
  /\ WF_writing(part = "writer" /\ Boot)
  /\ \A j \in Job :
       /\ WF_rVars(part = "retention" /\ R!Begin(j))
       /\ WF_rVars(part = "retention" /\ R!Work(j))
  /\ WF_rVars(part = "retention" /\ R!Pass)
  /\ \A w \in Worker :
       /\ WF_hVars(part = "health" /\ H!Select(w))
       /\ WF_hVars(part = "health" /\ H!Work(w))
  /\ WF_hVars(part = "health" /\ H!Tick)

TelemetryFairSpec == TelemetrySpec /\ TelemetryFairness

---------------------------------------------------------------------------
\* The writer's properties are BatchWriter's own; these are the others', in the
\* words of their modules.  `part` is rigid; <>[] keeps TLC's tableaux small.

\* Retention: nothing goes that was not rolled up, nothing goes that its owner
\* keeps, and what its owner does not keep goes.
Retained ==
  /\ [](part = "retention" => R!RolledFirst)
  /\ R!KeptAsAsked
  /\ <>[](part = "retention") => R!GoneInTime

\* Battery health: every stretch is booked once, every estimate is of an unbroken
\* discharge and keeps its working, and a backlog is worked off.
HealthBooked ==
  /\ [](part = "health" => H!BookedOnce /\ H!WindowsSound /\ H!WorkingKept)
  /\ <>[](part = "health") => H!CatchesUp

\* Retention: a sample is in the raw table or counted in its hour's aggregate.
HistorySurvives == part = "retention" => R!HistorySurvives

=============================================================================
