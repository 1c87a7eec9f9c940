------------------------------ MODULE Liveness ------------------------------
(***************************************************************************)
(* Is a gateway online?  Each replica keeps the sightings the shared         *)
(* subscription gave it in memory and flushes them in bulk                   *)
(* (api/mqtt/liveness.ts); each runs the offline sweep of api/mqtt/service.ts *)
(* over the same row, without a lease.  Time is counted in units of          *)
(* COALESCE_MS, against which flush and sweep intervals are short.           *)
(***************************************************************************)
EXTENDS Integers

CONSTANTS
  Replica,
  Threshold,    \* offlineThresholdMs, in units
  MaxFaults     \* bound: failed statements and process ends

LivenessAssumption == Threshold \in Nat \ {0} /\ MaxFaults \in Nat

VARIABLES
  reports,      \* does the gateway publish, and has it in this unit?
  status,       \* gateways.status
  lastSeen,     \* units since gateways.lastSeenAt, capped past the threshold
  seen,         \* per replica: is it in seenGateways?
  flushed,      \* per replica: more than COALESCE_MS since it flushed it?
  flush,        \* per replica: where its flush is
  sweep,        \* per replica: where its sweep is
  swept,        \* replicas that swept in this unit
  offlineAlarm, \* is a gatewayOffline alarm open?
  faults

sweeps == <<sweep, swept>>
vars == <<reports, status, lastSeen, seen, flushed, flush, sweeps, offlineAlarm, faults>>

Late == Threshold + 1

\* The status column of gateways.
GatewayStatus == {"online", "offline"}

TypeOK ==
  /\ reports \in {"silent", "expected", "seen"}
  /\ status \in GatewayStatus /\ lastSeen \in 0..Late
  /\ seen \in [Replica -> BOOLEAN] /\ flushed \in [Replica -> BOOLEAN]
  /\ flush \in [Replica -> {"idle", "update", "clear"}]
  /\ sweep \in [Replica -> {"idle", "offline", "existing", "back", "resolve"}]
  /\ swept \subseteq Replica
  /\ offlineAlarm \in BOOLEAN
  /\ faults \in 0..MaxFaults

---------------------------------------------------------------------------
Init ==
  /\ reports = "silent"
  /\ status = "online" /\ lastSeen = 0
  /\ seen = [r \in Replica |-> FALSE] /\ flushed = [r \in Replica |-> FALSE]
  /\ flush = [r \in Replica |-> "idle"] /\ sweep = [r \in Replica |-> "idle"]
  /\ swept = {}
  /\ offlineAlarm = FALSE
  /\ faults = 0

\* markGatewaySeen: the message reached this replica.
Seen(r) ==
  /\ reports # "silent" /\ reports' = "seen"
  /\ seen' = [seen EXCEPT ![r] = TRUE]
  /\ UNCHANGED <<status, lastSeen, flushed, flush, sweeps, offlineAlarm, faults>>

\* The gateway starts or stops publishing.
Switch ==
  /\ reports' = IF reports = "silent" THEN "expected" ELSE "silent"
  /\ UNCHANGED <<status, lastSeen, seen, flushed, flush, sweeps, offlineAlarm, faults>>

\* Mutant: a mark that comes too soon is waited for no longer.
MayFlushOnce(r) == seen[r] /\ ~flushed[r] /\ lastSeen > Threshold
\* A mark is flushed once per COALESCE_MS, and kept until then.
MayFlush(r) == seen[r] /\ ~flushed[r]

Flush(r) ==
  /\ flush[r] = "idle" /\ MayFlush(r)
  /\ flush' = [flush EXCEPT ![r] = "update"]
  /\ UNCHANGED <<reports, status, lastSeen, seen, flushed, sweeps, offlineAlarm, faults>>

\* The bulk UPDATE.
Update(r) ==
  /\ flush[r] = "update"
  /\ flush' = [flush EXCEPT ![r] = "clear"]
  /\ status' = "online" /\ lastSeen' = 0
  /\ UNCHANGED <<reports, seen, flushed, sweeps, offlineAlarm, faults>>

\* Back from it: the mark is deleted, also one set meanwhile.
Unmark(r) ==
  /\ flush[r] = "clear"
  /\ flush' = [flush EXCEPT ![r] = "idle"]
  /\ seen' = [seen EXCEPT ![r] = FALSE] /\ flushed' = [flushed EXCEPT ![r] = TRUE]
  /\ UNCHANGED <<reports, status, lastSeen, sweeps, offlineAlarm, faults>>

SweepGoes(r, pc) == sweep' = [sweep EXCEPT ![r] = pc]

\* Mutant: the sweep looks for the rows that are offline already.
StaleOffline == status = "offline" /\ lastSeen > Threshold
\* The rows online and not seen for longer than the threshold.
Stale == status = "online" /\ lastSeen > Threshold

\* offlineSweep's select of the stale rows.
Sweep(r) ==
  /\ sweep[r] = "idle" /\ r \notin swept /\ swept' = swept \cup {r}
  /\ SweepGoes(r, IF Stale THEN "offline" ELSE "back")
  /\ UNCHANGED <<reports, status, lastSeen, seen, flushed, flush, offlineAlarm, faults>>

\* Each is set offline, whatever it is by now.
SetOffline(r) ==
  /\ sweep[r] = "offline" /\ status' = "offline"
  /\ SweepGoes(r, "existing")
  /\ UNCHANGED <<swept, reports, lastSeen, seen, flushed, flush, offlineAlarm, faults>>

\* Mutant: a gateway that went offline is not announced.
RaiseOfflineNot(r) ==
  /\ sweep[r] = "existing" /\ SweepGoes(r, "back")
  /\ UNCHANGED <<swept, reports, status, lastSeen, seen, flushed, flush, offlineAlarm, faults>>
\* The alarm is inserted; the unique key keeps it to one.
RaiseOffline(r) ==
  /\ sweep[r] = "existing" /\ offlineAlarm' = TRUE
  /\ SweepGoes(r, "back")
  /\ UNCHANGED <<swept, reports, status, lastSeen, seen, flushed, flush, faults>>

\* Mutant: an alarm is resolved only by the sweep that sees a fresh sighting.
BackNow == offlineAlarm /\ status = "online" /\ lastSeen = 0 /\ reports = "silent"
\* Open alarms whose gateway is online ...
Back == offlineAlarm /\ status = "online"
FindBack(r) ==
  /\ sweep[r] = "back"
  /\ SweepGoes(r, IF Back THEN "resolve" ELSE "idle")
  /\ UNCHANGED <<swept, reports, status, lastSeen, seen, flushed, flush, offlineAlarm, faults>>
\* ... are resolved by id.
ResolveBack(r) ==
  /\ sweep[r] = "resolve" /\ offlineAlarm' = FALSE
  /\ SweepGoes(r, "idle")
  /\ UNCHANGED <<swept, reports, status, lastSeen, seen, flushed, flush, faults>>

\* A statement fails: that flush or sweep is over, its marks are kept.
Fails(r) ==
  /\ faults < MaxFaults /\ faults' = faults + 1
  /\ \/ flush[r] = "update" /\ flush' = [flush EXCEPT ![r] = "idle"] /\ UNCHANGED sweep
     \/ sweep[r] # "idle" /\ SweepGoes(r, "idle") /\ UNCHANGED flush
  /\ UNCHANGED <<swept, reports, status, lastSeen, seen, flushed, offlineAlarm>>

\* The process ends: so do its marks.
Crash(r) ==
  /\ faults < MaxFaults /\ faults' = faults + 1
  /\ seen' = [seen EXCEPT ![r] = FALSE] /\ flushed' = [flushed EXCEPT ![r] = FALSE]
  /\ flush' = [flush EXCEPT ![r] = "idle"] /\ sweep' = [sweep EXCEPT ![r] = "idle"]
  /\ UNCHANGED <<swept, reports, status, lastSeen, offlineAlarm>>

\* A unit passes: what was due in it is done, and a gateway that publishes has.
Tick ==
  /\ reports # "expected"
  /\ \A r \in Replica : flush[r] = "idle" /\ ~MayFlush(r) /\ sweep[r] = "idle"
  /\ lastSeen' = IF lastSeen = Late THEN Late ELSE lastSeen + 1
  /\ flushed' = [r \in Replica |-> FALSE]
  /\ reports' = IF reports = "seen" THEN "expected" ELSE reports
  /\ swept = Replica /\ swept' = {}
  /\ UNCHANGED <<status, seen, flush, sweep, offlineAlarm, faults>>

Sweeping(r) == SetOffline(r) \/ RaiseOffline(r) \/ FindBack(r) \/ ResolveBack(r)

Next ==
  \/ \E r \in Replica :
       Seen(r) \/ Flush(r) \/ Update(r) \/ Unmark(r) \/ Sweep(r) \/ Sweeping(r) \/ Fails(r) \/ Crash(r)
  \/ Switch \/ Tick

Spec == Init /\ [][Next]_vars

\* Timers fire, statements return, a gateway that publishes goes on, time passes.
FairSpec ==
  /\ Spec
  /\ WF_vars(\E r \in Replica : reports = "expected" /\ Seen(r))
  /\ \A r \in Replica :
       /\ WF_vars(Flush(r)) /\ WF_vars(Update(r)) /\ WF_vars(Unmark(r))
       /\ WF_vars(Sweep(r)) /\ WF_vars(Sweeping(r))
  /\ WF_vars(Tick)

---------------------------------------------------------------------------
(***************************************************************************)
(* A gateway that goes on publishing stays online, through whichever         *)
(* replicas its messages come: coalescing never makes it look silent, and no *)
(* sweep that read it before a flush has the last word.                      *)
(***************************************************************************)
SteadyOnline == <>[](reports # "silent") => <>[](status = "online")

(***************************************************************************)
(* A gateway that is silent for good is set offline - whatever fails.  That  *)
(* it is alarmed too needs more: that no statement fails and no process ends *)
(* between the two, and that no two replicas sweep at once.  A sweep that    *)
(* found it back resolves by id the alarm of one that has just set it        *)
(* offline, and nothing looks at an offline row again.                       *)
(***************************************************************************)
Alone == \A r, s \in Replica : r # s => sweep[r] = "idle" \/ sweep[s] = "idle"
SilenceSeen == <>[](reports = "silent") => <>[](status = "offline")
SilenceAlarmed == [](faults = 0 /\ Alone) /\ <>[](reports = "silent") => <>[]offlineAlarm

(***************************************************************************)
(* A gateway that is online for good has no offline alarm left, although     *)
(* another sweep may raise one late.                                         *)
(***************************************************************************)
BackResolves == <>[](reports # "silent") => <>[]~offlineAlarm

=============================================================================
