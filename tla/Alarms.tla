------------------------------- MODULE Alarms -------------------------------
(***************************************************************************)
(* One alarm rule on one meter (evaluateAlarmRules and the breach state of   *)
(* api/mqtt/handlers.ts, alarmTransition of api/alarms/hysteresis.ts).       *)
(* Every replica evaluates the frames the shared subscription hands it,      *)
(* from its own cached breach record, over one alarm_breach_state row and    *)
(* one alarms table.  A meter's frames are seconds apart: a replica finishes *)
(* one evaluation before it starts the next.                                 *)
(***************************************************************************)
EXTENDS Integers

CONSTANTS
  Ingester,     \* replicas that evaluate
  Duration,     \* the rule's durationSec, in units of time
  NoRecord,
  MaxOps,       \* bound: acknowledge and resolve by operators
  MaxFaults     \* bound: failed statements and process ends

AlarmsAssumption ==
  /\ Duration \in Nat /\ MaxOps \in Nat /\ MaxFaults \in Nat
  /\ NoRecord \notin [age : Int, raised : BOOLEAN]

VARIABLES
  hot,          \* does the meter's value violate the threshold?
  maintenance,  \* is a maintenance window open?
  breachRow,    \* the alarm_breach_state row
  breachState,  \* per replica: its cached copy
  alarm,        \* the status of the last alarm of the rule and meter
  frame,        \* per replica: the evaluation under way
  raisedIn,     \* history, per replica: alarms it raised since one last saw no breach
  ops, faults

vars == <<hot, maintenance, breachRow, breachState, alarm, frame, raisedIn, ops, faults>>

\* BreachRecord: how long ago the condition started, or -1; did the rule fire?
Record == [age : -1..Duration, raised : BOOLEAN]
Cleared == [age |-> -1, raised |-> FALSE]
\* "reopened" is "acknowledged", of an alarm that was over.
Open == {"active", "acknowledged", "reopened"}
NoFrame == [pc |-> "idle", breached |-> FALSE, next |-> Cleared]

\* Rows: of alarm_breach_state, and of alarms by their status.
BreachRow == Record \cup {NoRecord}
AlarmStatus == Open \cup {"none", "resolved"}

TypeOK ==
  /\ hot \in BOOLEAN /\ maintenance \in BOOLEAN
  /\ breachRow \in BreachRow
  /\ breachState \in [Ingester -> BreachRow]
  /\ alarm \in AlarmStatus
  /\ frame \in [Ingester -> [pc : {"idle", "load", "open", "raise", "insert", "save", "close"},
                             breached : BOOLEAN, next : Record]]
  /\ raisedIn \in [Ingester -> 0..2]
  /\ ops \in 0..MaxOps /\ faults \in 0..MaxFaults

---------------------------------------------------------------------------
\* Mutants: the clock starts anew with every sample; a raise does not note that
\* it fired; an alarm whose condition ended is forgotten.
AlarmTransitionRestarts(rec, breached) ==
  IF breached
  THEN IF rec.raised THEN [action |-> "none", next |-> rec]
       ELSE IF Duration = 0 THEN [action |-> "raise", next |-> [age |-> 0, raised |-> TRUE]]
       ELSE [action |-> "none", next |-> [age |-> 0, raised |-> FALSE]]
  ELSE [action |-> IF rec.raised THEN "clear" ELSE "none", next |-> Cleared]
AlarmTransitionForgets(rec, breached) ==
  LET age == IF rec.age < 0 THEN 0 ELSE rec.age
  IN [action |-> IF breached /\ age >= Duration THEN "raise"
                 ELSE IF ~breached /\ rec.age >= Duration THEN "clear" ELSE "none",
      next |-> IF breached THEN [age |-> age, raised |-> FALSE] ELSE Cleared]
AlarmTransitionSilent(rec, breached) ==
  IF ~breached THEN [action |-> "none", next |-> Cleared]
  ELSE LET age == IF rec.age < 0 THEN 0 ELSE rec.age
       IN [action |-> IF ~rec.raised /\ age >= Duration THEN "raise" ELSE "none",
           next |-> [age |-> age, raised |-> rec.raised \/ age >= Duration]]
\* Mutant: the clock counts samples.
AlarmTransitionCounts(rec, breached) ==
  LET fires == breached /\ ~rec.raised /\ rec.age + 1 >= Duration
  IN [action |-> IF fires THEN "raise" ELSE IF ~breached /\ rec.raised THEN "clear" ELSE "none",
      next |-> IF breached THEN [age |-> rec.age + 1, raised |-> rec.raised \/ fires] ELSE Cleared]
\* alarmTransition.
AlarmTransition(rec, breached) ==
  LET age == IF rec.age < 0 THEN 0 ELSE rec.age
      fires == breached /\ ~rec.raised /\ age >= Duration
  IN [action |-> IF fires THEN "raise" ELSE IF ~breached /\ rec.raised THEN "clear" ELSE "none",
      next |-> IF breached THEN [age |-> age, raised |-> rec.raised \/ fires] ELSE Cleared]

---------------------------------------------------------------------------
Init ==
  /\ hot = FALSE
  /\ maintenance \in BOOLEAN
  /\ breachRow = NoRecord
  /\ breachState = [r \in Ingester |-> NoRecord]
  /\ alarm = "none"
  /\ frame = [r \in Ingester |-> NoFrame]
  /\ raisedIn = [r \in Ingester |-> 0]
  /\ ops = 0 /\ faults = 0

Go(r, pc) == frame' = [frame EXCEPT ![r].pc = pc]
Drop(r) == frame' = [frame EXCEPT ![r] = NoFrame]
env == <<hot, maintenance, ops>>

\* The record is known: what the evaluation does with it up to its next await.
\* A raise in a maintenance window ends it, with nothing saved.
Decide(r, rec, breached) ==
  LET d == AlarmTransition(rec, breached) IN
  \/ /\ d.action = "raise"
     /\ frame' = [frame EXCEPT ![r] = [pc |-> "raise", breached |-> breached, next |-> d.next]]
     /\ breachState' = [breachState EXCEPT ![r] = rec]
  \/ /\ d.action = "clear" \/ (d.action = "none" /\ d.next # rec)
     /\ breachState' = [breachState EXCEPT ![r] = d.next]
     /\ frame' = [frame EXCEPT ![r] =
          [pc |-> "save", breached |-> d.action = "clear", next |-> d.next]]
  \/ /\ d.action = "none" /\ d.next = rec
     /\ Drop(r)
     /\ breachState' = [breachState EXCEPT ![r] = rec]

\* A frame arrives: the cached record, or a look-up.
Frame(r) ==
  /\ frame[r].pc = "idle"
  /\ IF breachState[r] # NoRecord
     THEN Decide(r, breachState[r], hot)
     ELSE /\ frame' = [frame EXCEPT ![r] = [NoFrame EXCEPT !.pc = "load", !.breached = hot]]
          /\ UNCHANGED breachState
  /\ raisedIn' = IF hot THEN raisedIn ELSE [s \in Ingester |-> 0]
  /\ UNCHANGED <<env, breachRow, alarm, faults>>

\* loadBreachState: no row, or no answer, and a breach: are there open alarms?
LoadedRow(r, row) ==
  IF row # NoRecord THEN Decide(r, row, frame[r].breached)
  ELSE IF ~frame[r].breached THEN Decide(r, Cleared, FALSE)
  ELSE Go(r, "open") /\ UNCHANGED breachState

Load(r) ==
  /\ frame[r].pc = "load"
  /\ LoadedRow(r, breachRow)
  /\ UNCHANGED <<env, breachRow, alarm, raisedIn, faults>>

LoadOpen(r) ==
  /\ frame[r].pc = "open"
  /\ Decide(r, IF alarm \in Open THEN [age |-> 0, raised |-> TRUE] ELSE Cleared, TRUE)
  /\ UNCHANGED <<env, breachRow, alarm, raisedIn, faults>>

\* isInMaintenance.
CheckMaintenance(r) ==
  /\ frame[r].pc = "raise"
  /\ IF maintenance THEN Drop(r) ELSE Go(r, "insert")
  /\ UNCHANGED <<env, breachRow, breachState, alarm, raisedIn, faults>>

Raised(r) == raisedIn' = [raisedIn EXCEPT ![r] = IF @ = 2 THEN 2 ELSE @ + 1]

\* The alarm is inserted, unless one is open: then another replica's is as good.
Insert(r) ==
  /\ frame[r].pc = "insert"
  /\ IF alarm \in Open THEN UNCHANGED <<alarm, raisedIn>> ELSE alarm' = "active" /\ Raised(r)
  /\ breachState' = [breachState EXCEPT ![r] = frame[r].next]
  /\ frame' = [frame EXCEPT ![r].pc = "save", ![r].breached = FALSE]
  /\ UNCHANGED <<env, breachRow, faults>>

\* saveBreachState's upsert.  After a raise or a change of clock that is all;
\* after a clear the open alarms are still to be resolved.
Saved(r) == IF frame[r].breached THEN Go(r, "close") ELSE Drop(r)

Upsert(r) ==
  /\ frame[r].pc = "save"
  /\ breachRow' = frame[r].next
  /\ Saved(r)
  /\ UNCHANGED <<env, breachState, alarm, raisedIn, faults>>

Resolve(r) ==
  /\ frame[r].pc = "close"
  /\ alarm' = IF alarm \in Open THEN "resolved" ELSE alarm
  /\ Drop(r)
  /\ UNCHANGED <<env, breachRow, breachState, raisedIn, faults>>

\* A statement fails: a failed look-up is no row, a failed save is swallowed,
\* any other failure ends the frame's evaluation - an insert perhaps after it
\* landed.
Fault(r) ==
  /\ faults < MaxFaults /\ faults' = faults + 1
  /\ CASE frame[r].pc = "load" -> LoadedRow(r, NoRecord) /\ UNCHANGED <<alarm, raisedIn>>
       [] frame[r].pc = "save" -> Saved(r) /\ UNCHANGED <<breachState, alarm, raisedIn>>
       [] frame[r].pc \in {"open", "raise", "close"} -> Drop(r) /\ UNCHANGED <<breachState, alarm, raisedIn>>
       [] frame[r].pc = "insert" ->
            /\ UNCHANGED <<alarm, raisedIn>> \/ (alarm \notin Open /\ alarm' = "active" /\ Raised(r))
            /\ Drop(r) /\ UNCHANGED breachState
       [] OTHER -> FALSE
  /\ UNCHANGED <<env, breachRow>>

\* The process ends and comes back with an empty cache.
Crash(r) ==
  /\ faults < MaxFaults /\ faults' = faults + 1
  /\ Drop(r)
  /\ breachState' = [breachState EXCEPT ![r] = NoRecord]
  /\ raisedIn' = [raisedIn EXCEPT ![r] = 0]
  /\ UNCHANGED <<env, breachRow, alarm>>

\* acknowledge and resolve in the alarm list, by id: also of an alarm that is over.
Acknowledge ==
  /\ ops < MaxOps /\ ops' = ops + 1
  /\ alarm \in {"active", "resolved"}
  /\ alarm' = IF alarm = "resolved" THEN "reopened" ELSE "acknowledged"
  /\ UNCHANGED <<hot, maintenance, breachRow, breachState, frame, raisedIn, faults>>
CloseByHand ==
  /\ ops < MaxOps /\ ops' = ops + 1
  /\ alarm \in Open /\ alarm' = "resolved"
  /\ UNCHANGED <<hot, maintenance, breachRow, breachState, frame, raisedIn, faults>>

\* The value crosses the threshold; a window ends; time passes for every clock.
Cross ==
  /\ hot' = ~hot
  /\ UNCHANGED <<maintenance, breachRow, breachState, alarm, frame, raisedIn, ops, faults>>
WindowEnds ==
  /\ maintenance /\ maintenance' = FALSE
  /\ UNCHANGED <<hot, breachRow, breachState, alarm, frame, raisedIn, ops, faults>>
Older(rec) ==
  IF rec = NoRecord \/ rec = Cleared \/ rec.age = Duration THEN rec ELSE [rec EXCEPT !.age = @ + 1]
Tick ==
  /\ breachRow' = Older(breachRow)
  /\ breachState' = [r \in Ingester |-> Older(breachState[r])]
  /\ frame' = [r \in Ingester |-> [frame[r] EXCEPT !.next = Older(@)]]
  /\ UNCHANGED <<env, alarm, raisedIn, faults>>

Evaluate(r) ==
  Load(r) \/ LoadOpen(r) \/ CheckMaintenance(r) \/ Insert(r) \/ Upsert(r) \/ Resolve(r)

Next ==
  \/ \E r \in Ingester : Frame(r) \/ Evaluate(r) \/ Fault(r) \/ Crash(r)
  \/ Acknowledge \/ CloseByHand
  \/ Cross \/ WindowEnds \/ Tick

Spec == Init /\ [][Next]_vars

\* Each replica keeps getting frames, statements return, time passes.
FairSpec ==
  /\ Spec
  /\ \A r \in Ingester : WF_vars(Frame(r)) /\ WF_vars(Evaluate(r))
  /\ WF_vars(Tick)

---------------------------------------------------------------------------
(***************************************************************************)
(* "an alarm fires on the transition INTO breach" (handlers.ts:211): until   *)
(* a replica sees the condition end, each of them raises one alarm at most,  *)
(* also when an operator resolved it meanwhile.  Without faults.             *)
(***************************************************************************)
OncePerBreach == faults = 0 => \A r \in Ingester : raisedIn[r] < 2

(***************************************************************************)
(* "resolving in the UI while the condition persists does not spam fresh     *)
(* alarms" (handlers.ts:214): the replicas together raise one alarm per      *)
(* breach, if none of them failed.                                           *)
(***************************************************************************)
OneAlarm == faults = 0 => \A r, s \in Ingester : r # s => raisedIn[r] = 0 \/ raisedIn[s] = 0

Undisturbed == <>[](ops = 0 /\ faults = 0)

(***************************************************************************)
(* A condition that stays is alarmed, whichever replicas saw which of its    *)
(* earlier crossings in which order, and also when it began in a             *)
(* maintenance window that has ended.                                        *)
(***************************************************************************)
Alarmed == Undisturbed /\ <>[](hot /\ ~maintenance) => <>[](alarm = "active")

(***************************************************************************)
(* A condition that is over closes its alarm, acknowledged or not, although  *)
(* the replicas write each other's breach record over - unless an operator   *)
(* opens it again.                                                           *)
(***************************************************************************)
Resolves ==
  <>[](faults = 0) /\ <>[](~hot) => <>[](alarm \in {"none", "resolved", "reopened"})

=============================================================================
