------------------------------- MODULE Poller -------------------------------
(***************************************************************************)
(* The supervisor of the Modbus TCP poller (api/poller/service.ts):          *)
(* refreshDevices asks for the lease, then queries the devices that have a   *)
(* host, then brings its poll tasks in line with them.  A refresh that does  *)
(* not get the lease stops every task; one whose query fails leaves them.    *)
(* The lease is that of LeaderLease, and a refresh is a tick of it.          *)
(***************************************************************************)
EXTENDS LeaderLease

CONSTANTS
  Device,
  Setup,       \* configurations a device can have
  Absent       \* no such device, or it has no host

VARIABLES
  fleet,       \* the meters rows
  rows,        \* per replica and slot: what the query returned, or NoOne
  tasks,       \* per replica and device: the configuration its task polls with
  until        \* history: time left of the expiry the last reconciling refresh asked for

pollVars == <<fleet, rows, tasks, until>>
pollerVars == <<vars, pollVars>>

Fleet == [Device -> Setup \cup {Absent}]
NoTasks == [d \in Device |-> Absent]

PollerTypeOK ==
  /\ TypeOK
  /\ fleet \in Fleet
  /\ rows \in [Replica -> [Slot -> Fleet \cup {NoOne}]]
  /\ tasks \in [Replica -> Fleet]
  /\ until \in [Replica -> Left]

---------------------------------------------------------------------------
PollerInit ==
  /\ Init
  /\ fleet = NoTasks
  /\ rows = [r \in Replica |-> [k \in Slot |-> NoOne]]
  /\ tasks = [r \in Replica |-> NoTasks]
  /\ until = [r \in Replica |-> -1]

\* Mutant: a replica without the lease goes on with the tasks it has.
StandDownKeeps(r) == UNCHANGED <<tasks, until>>
\* stopAllTasks.
StandDown(r) ==
  /\ tasks' = [tasks EXCEPT ![r] = NoTasks]
  /\ until' = [until EXCEPT ![r] = -1]

\* setInterval fires, or the lease's INSERT returns.
Refresh(r, k) ==
  /\ Start(r, k) \/ Insert(r, k)
  /\ UNCHANGED pollVars

\* hasLease returns: without the lease, or when it threw, everything stops.
HasLease(r, k) ==
  /\ Update(r, k) \/ DbFails(r, k)
  /\ IF tick'[r][k].pc = "idle" THEN StandDown(r) ELSE UNCHANGED <<tasks, until>>
  /\ UNCHANGED <<fleet, rows>>

\* The select of the devices that have a host.
Query(r, k) ==
  /\ Acting(r, k) /\ rows[r][k] = NoOne
  /\ rows' = [rows EXCEPT ![r][k] = fleet]
  /\ UNCHANGED <<vars, fleet, tasks, until>>

\* Mutants: devices that are gone keep their task; a task that runs is left as it is.
ReconciledAdds(old, found) == [d \in Device |-> IF found[d] = Absent THEN old[d] ELSE found[d]]
ReconciledNew(old, found) ==
  [d \in Device |-> IF Absent \in {found[d], old[d]} THEN found[d] ELSE old[d]]
\* New devices get a task, known ones their current settings, the others go.
Reconciled(old, found) == found

Reconcile(r, k) ==
  /\ rows[r][k] # NoOne
  /\ tasks' = [tasks EXCEPT ![r] = Reconciled(@, rows[r][k])]
  /\ until' = [until EXCEPT ![r] = tick[r][k].left]
  /\ rows' = [rows EXCEPT ![r][k] = NoOne]
  /\ Finish(r, k)
  /\ UNCHANGED fleet

\* The query throws: this refresh changes nothing.
QueryFails(r, k) ==
  /\ dbFails < MaxDbFails /\ dbFails' = dbFails + 1
  /\ Acting(r, k) /\ rows[r][k] = NoOne
  /\ SetTick(r, k, Idle)
  /\ UNCHANGED <<up, skew, lease, crashes, pollVars>>

Down(r) ==
  /\ Crash(r)
  /\ StandDown(r)
  /\ rows' = [rows EXCEPT ![r] = [k \in Slot |-> NoOne]]
  /\ UNCHANGED fleet

Up(r) == Restart(r) /\ UNCHANGED pollVars

Tock ==
  /\ Age
  /\ until' = [r \in Replica |-> Older(until[r])]
  /\ UNCHANGED <<fleet, rows, tasks>>

\* An operator adds, changes or removes a device.
Edit ==
  /\ \E d \in Device, s \in Setup \cup {Absent} : fleet' = [fleet EXCEPT ![d] = s]
  /\ UNCHANGED <<vars, rows, tasks, until>>

PollerNext ==
  \/ \E r \in Replica, k \in Slot :
       \/ Refresh(r, k)
       \/ HasLease(r, k)
       \/ Query(r, k)
       \/ Reconcile(r, k)
       \/ QueryFails(r, k)
  \/ \E r \in Replica : Down(r) \/ Up(r)
  \/ Tock
  \/ Edit

PollerSpec == PollerInit /\ [][PollerNext]_pollerVars

---------------------------------------------------------------------------
Polls(r, d) == tasks[r][d] # Absent

(***************************************************************************)
(* "Only one replica may poll" (service.ts:202): of two replicas with a task *)
(* for one device, at least one has outlived the lease it last reconciled    *)
(* under - a refresh that waited for its query while the lease went          *)
(* elsewhere included.  For refreshes that do not overlap with themselves.   *)
(***************************************************************************)
PollsOnce ==
  \A r, s \in Replica : \A d \in Device :
    r # s /\ Polls(r, d) /\ Polls(s, d) => until[r] < 0 \/ until[s] < 0

(***************************************************************************)
(* "another replica holds the poll lease - standing down" (service.ts:209):  *)
(* once the lease stays with one replica, the others end up without a task,  *)
(* also those whose query was still under way when they lost it.             *)
(***************************************************************************)
StandsDown ==
  \A s \in Replica :
    <>[](lease.holder = s) => <>[](\A r \in Replica \ {s} : tasks[r] = NoTasks)

(***************************************************************************)
(* "hands polling over if the holder dies" (service.ts:206): a device that   *)
(* stays is polled again and again, whoever dies and whichever statement     *)
(* fails.                                                                    *)
(***************************************************************************)
HandsPollingOver == \A d \in Device : <>[](fleet[d] # Absent) => []<>(\E r \in Replica : Polls(r, d))

(***************************************************************************)
(* "next poll picks up new config" (service.ts:228): once a device's         *)
(* settings stay, no replica goes on polling it with other ones, and a       *)
(* device that is gone loses its tasks everywhere.                           *)
(***************************************************************************)
SettlesOnSetup ==
  \A d \in Device, s \in Setup \cup {Absent} :
    <>[](fleet[d] = s) => <>[](\A r \in Replica : tasks[r][d] \in {s, Absent})

\* The tasks follow the lease and the fleet: nobody else keeps one, somebody
\* has one, and it is the one the fleet asks for.
PollingFollows == StandsDown /\ HandsPollingOver /\ SettlesOnSetup

=============================================================================
