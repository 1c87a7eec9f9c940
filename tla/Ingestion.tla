----------------------------- MODULE Ingestion -----------------------------
(***************************************************************************)
(* What every replica does with the messages of the shared subscription,     *)
(* looked at one concern at a time: provisioning, liveness, alarm rules and  *)
(* the notifications of an alarm.  They meet in no table but through the     *)
(* events named in their modules, so a behaviour is of one of them, which    *)
(* `part` names, and the others rest.                                        *)
(***************************************************************************)
EXTENDS Naturals

CONSTANTS
  Replica, Home, None, MaxFaults,
  Duration, MaxOps,                          \* Alarms
  First, Second, Breach, Clear,              \* Notify
  MaxAtOnce, MaxToggles,
  Threshold,                                 \* Liveness
  MaxRemovals                                \* Provision

VARIABLES
  part, faults,
  hot, maintenance, breachRow, breachState, alarm, frame, raisedIn, ops,
  notified, stale, suppressed, crowded, alarmNotifications, job, told, toggles,
  reports, status, lastSeen, seen, flushed, flush, sweep, swept, offlineAlarm,
  gateway, meter, made, gwCache, meterCache, message, removal, removals

A == INSTANCE Alarms WITH Ingester <- Replica, NoRecord <- None
N == INSTANCE Notify WITH alarm <- notified, crashes <- faults, MaxCrashes <- MaxFaults,
                          Sweep <- Replica
L == INSTANCE Liveness
P == INSTANCE Provision WITH Ingest <- Replica

ASSUME IngestionAssumption ==
  /\ A!AlarmsAssumption /\ N!NotifyAssumption /\ L!LivenessAssumption /\ P!ProvisionAssumption

alarms    == <<hot, maintenance, breachRow, breachState, alarm, frame, raisedIn, ops>>
notifier  == <<notified, stale, suppressed, crowded, alarmNotifications, job, told, toggles>>
liveness  == <<reports, status, lastSeen, seen, flushed, flush, sweep, swept, offlineAlarm>>
provision == <<gateway, meter, made, gwCache, meterCache, message, removal, removals>>
vars      == <<part, faults, alarms, notifier, liveness, provision>>

TypeOK ==
  /\ part \in {"alarms", "notifier", "liveness", "provision"}
  /\ A!TypeOK /\ N!TypeOK /\ L!TypeOK /\ P!TypeOK

Init ==
  /\ part \in {"alarms", "notifier", "liveness", "provision"}
  /\ A!Init /\ N!Init /\ L!Init /\ P!Init
  /\ part # "alarms" => ~maintenance
  /\ part # "notifier" => ~suppressed /\ ~crowded

Next ==
  \/ part = "alarms" /\ A!Next /\ UNCHANGED <<part, notifier, liveness, provision>>
  \/ part = "notifier" /\ N!Next /\ UNCHANGED <<part, alarms, liveness, provision>>
  \/ part = "liveness" /\ L!Next /\ UNCHANGED <<part, alarms, notifier, provision>>
  \/ part = "provision" /\ P!Next /\ UNCHANGED <<part, alarms, notifier, liveness>>

Spec == Init /\ [][Next]_vars

aVars == A!vars
nVars == N!vars
lVars == L!vars
pVars == P!vars

\* The fairness of each component, while it is the one that moves.
Fairness ==
  /\ WF_aVars(part = "alarms" /\ A!Tick)
  /\ WF_nVars(part = "notifier" /\ N!Ages)
  /\ WF_lVars(part = "liveness" /\ L!Tick)
  /\ WF_lVars(part = "liveness" /\ \E r \in Replica : reports = "expected" /\ L!Seen(r))
  /\ WF_pVars(part = "provision" /\ P!Removing)
  /\ \A j \in N!Job : WF_nVars(part = "notifier" /\ N!Step(j))
  /\ \A r \in Replica :
       /\ WF_aVars(part = "alarms" /\ A!Frame(r))
       /\ WF_aVars(part = "alarms" /\ A!Evaluate(r))
       /\ WF_nVars(part = "notifier" /\ ~crowded /\ N!StartSweep(r))
       /\ WF_lVars(part = "liveness" /\ L!Flush(r))
       /\ WF_lVars(part = "liveness" /\ L!Update(r))
       /\ WF_lVars(part = "liveness" /\ L!Unmark(r))
       /\ WF_lVars(part = "liveness" /\ L!Sweep(r))
       /\ WF_lVars(part = "liveness" /\ L!Sweeping(r))
       /\ WF_pVars(part = "provision" /\ P!Arrive(r))
       /\ WF_pVars(part = "provision" /\ P!Handle(r))
       /\ WF_pVars(part = "provision" /\ P!ExpireGateway(r))
       /\ \A g \in P!GatewayId : WF_pVars(part = "provision" /\ P!ExpireMeter(r, g))

FairSpec == Spec /\ Fairness

---------------------------------------------------------------------------
\* The properties of the components, in the words of their modules.  `part` is
\* rigid; saying so with <>[] keeps TLC's tableaux small.

\* Alarm rules: once per breach, raised when it lasts, resolved when it is over.
Alarming == []A!OncePerBreach /\ (<>[](part = "alarms") => A!Alarmed /\ A!Resolves)

\* Notifications: only those who were paged hear of the end, nobody is paged on
\* and on, and an unanswered alarm escalates.
Notified ==
  []N!OnlyPagedAreTold /\ []N!NoStorm /\ (<>[](part = "notifier") => N!Escalates)

\* Liveness: a gateway's status and its offline alarm follow what it does.
StatusFollows ==
  <>[](part = "liveness") => L!SteadyOnline /\ L!SilenceSeen /\ L!SilenceAlarmed /\ L!BackResolves

\* Provisioning: one row per gateway and meter, no removed one lives on in a
\* cache, and messages go on arriving.
Provisioned == []P!ProvisionedOnce /\ (<>[](part = "provision") => P!GhostsEnd /\ P!Arrives)

=============================================================================
