# VoltTrade Cloud: a verification development in TLA+

VoltTrade Cloud is an IoT energy-gateway platform. Gateways publish meter telemetry
over MQTT, or meters are polled over Modbus TCP; the server (Node, TypeScript, MySQL or
TiDB, optionally TimescaleDB) stores it, evaluates alarms, drives batteries and
inverters from schedules, plans, peak shaving and grid limits, and updates the
gateways' configuration and firmware. Several replicas of the server may run.

This directory holds TLA+ modules that model its core, the TLC configurations that
check them, and TLAPS proofs. `PROJECT.json` maps every definition to the lines it
stands for. Paths below are relative to `src/`.

Contents: 1 inventory, 2 modules, 3 runs and bounds, 4 fairness, 5 proofs,
6 divergences found, 7 what is not modelled, 8 plan.

## 1. Inventory

A replica is one Node process: between two `await`s nothing else of it runs, and at
every `await` anything may. Timers are `setInterval`s without a guard, so a loop body
slower than its interval overlaps itself. State is in MySQL rows, in module-level Maps
(lost at a restart, not shared between replicas), in files (the WAL, the exports), and
in devices.

| Component | Code | State it keeps | Operations | Hard behaviour |
|---|---|---|---|---|
| telemetry writer | `api/telemetry/index.ts` | queue of batches, `pending.jsonl`, WAL segments | push, flush, replay, drain | rows pushed and shifted out while an insert is awaited, backpressure, retries, crash at any point |
| retention | `api/telemetry/rollup.ts`, `api/orgs/retention.ts` | raw and hourly tables, `telemetry_raw_days` | roll up, delete in three passes | every replica ticks without a lease, an override changes between two passes |
| state of health | `api/ems/soh-tracker.ts`, `soh.ts` | `battery_health` with its cursor, the estimates' working | one sweep per interval, page by page | a page ends inside a discharge, a statement fails between the estimate and the cursor |
| leases | `api/lib/leader.ts` | one row of `leader_leases` per loop | `withLease`, `hasLease` | races for an expired row, skewed clocks, a statement that fails after it took effect, a body longer than the lease |
| Modbus poller | `api/poller/` | tasks, shared connections | refresh, poll, back off, drop | a refresh that outlives the lease, a connection dropped under a waiter |
| control chokepoint | `api/control/execute.ts`, `api/routers/control.ts` | `controlLockedAt`, `commands` rows | execute and log, emergency stop, release | a write that passed the lock before the stop; two transports |
| C30 read-back | `api/mqtt/c30-outstanding.ts` | registry in memory | register, match, attach, sweep | answers without an address, late, lost or early |
| EMS controller | `api/ems/controller.ts`, `decide.ts` | peak events and last commands in memory | one tick: grid limits, peak shaving, plans, schedules, watchdog | three writers of one register, failed writes, a replica that takes over without the other's memory |
| grid limits | `api/ems/controller.ts`, `curtail.ts` | `gridLimits.curtailKw` | integrate, allocate, send, persist | a failure between the sends and the update, stale meters |
| EMS watchdog | `api/ems/watchdog.ts`, `controller.ts` | `lastPet` | refresh | the device's own timeout against ticks that are slow, late or fail |
| optimizer | `api/ems/optimizer.ts` | plans | one sweep per day | numeric |
| OTA jobs | `api/ota/manager.ts` | `ota_jobs`, `gateways.configVersion` | create, dispatch, sweep, ack, cancel | every update writes a row read before an `await` |
| rollouts | `api/ota/rollout.ts`, `rollout-driver.ts`, `api/routers/ota.ts` | `ota_rollouts`, `ota_rollout_targets` | create, sync, decide, dispatch a wave, start, pause | a step cut short, sweeps that overlap, an operator's stale read |
| alarms | `api/mqtt/handlers.ts`, `api/alarms/` | `alarm_breach_state`, a cache of it, `alarms`, `alarm_notifications` | evaluate, raise, resolve, notify, escalate | one cache per replica, state and alarm written by separate statements, a message out before its row |
| liveness | `api/mqtt/liveness.ts`, `service.ts` | marks in memory, `lastSeenAt` | mark, flush, offline sweep | marks set again during the flush, sweeps of two replicas |
| provisioning | `api/mqtt/handlers.ts`, `service.ts` | `meterCache`, `gwCache`, their rows | look up, insert, evict | racing inserts, eviction during a look-up |
| webhooks | `api/webhooks/` | `webhook_deliveries` | emit, retry sweep | overlapping sweeps, a process end behind the POST |
| reports | `api/reports/` | `report_schedules.last_run_at` | due, claim, run, run now | the claim against the period, no lease |
| REST API, rate limits | `api/rest/` | token bucket rows | take a token | compare-and-swap with several clocks |
| organisations | `api/orgs/`, `api/routers/orgs.ts` | every table, archives on disk | purge, export, retain, invite | a purge without a transaction, builds that overlap |
| telemetry stores | `api/telemetry/*-store.ts`, `merge.ts` | tables, partitions | insert, query | SQL over time buckets |
| sign-in | `api/auth/`, `api/lib/auth.ts`, `totp.ts` | sessions, flows | sign in, verify | third-party protocol |
| stateless parts | routers, commissioning, profile import, adapters, codecs, contracts, infrastructure, web client | none across calls, or single rows | | |

How they interact: the MQTT handlers and the poller call `push` of the writer and
the alarm evaluation. The EMS controller, the routers and the REST API command
devices through `executeAndLog` only (the watchdog calls `executeControl`). The answers
of a C30 come back through `handleC30Frame` to the registry. The rollout driver creates
jobs with `createOtaJob` and reads their status in the next sweep; `otaSweep` runs both
under one lease, as the EMS tick, the poller, the optimizer, the state of health, the
purge, the export and the webhook sweep run under theirs. Retention, reports, the offline
sweep and the escalations run on every replica without one. A lease is re-entrant for its
holder, so a leased body longer than its interval has the next one of the same replica
beside it.

What makes each correct, in a sentence: the writer loses nothing but what it counts;
no sample goes that no aggregate counted or that its owner keeps; a battery's stretch is
booked once; of two replicas one at most acts within its lease, and polls a device; units
share a socket one at a time; a stop stops, "ok" means it took effect, and what was sent
is settled and logged; one strategy commands a BESS per tick and an event that is over
leaves it idle; a breach of the grid limit is answered and what was held back is given
back; a device with a watchdog is kept awake; a job ends acked or failed and neither lies;
a wave is exposed only when the earlier ones are known to be good; an alarm follows its
condition and the right people hear of it; a gateway's status follows what it does;
removed rows do not live on in caches; a delivery is closed for a reason and once; a
report is mailed at most once per period; no more requests pass than a bucket holds; what
a purge finished is gone and nobody else's account with it; an archive is whole.

## 2. Modules

| Module | Models | State and actions against the code |
|---|---|---|
| `BatchWriter` | the telemetry writer of one process | `pendingRows`, `queue`, `inflight`, `headAttempts`, `backoff` are the fields of the class, `pendingFile` and `segments` the files, `db` the table. `Push` is all of `push` with the append and a flush that fills a batch; `FlushTimer`, `WriteOk`, `WriteFails` are `flush` before and after its one `await`; `ReplayOk`, `ReplayFails` are `replayWal`; `Signal`, `DrainFlush`, `Stop`, `Boot` are shutdown, crash and start. |
| `Retention` | the roll-up and the three deletion passes | `raw` and `hourly` are the tables as sets of samples, `days` the overrides, `job` the ticks under way on all replicas. A tick reads the plan, rolls up the last closed hour, then what is about to go, and deletes pass by pass, a statement a step. |
| `SohTracker` | the health sweep of one battery | `health` is the row of `battery_health`, `estimates` the kept working. A sweep reads the row, a page of closed buckets, and goes sample by sample through cycles, throughput and windows; the silent page is the jump over a hole. |
| `LeaderLease` | one lease row and its replicas | `lease` is the row, `tick` where each tick is in `withLease`. `Insert` and `Update` are the two statements of `acquireLease`, `DbFails` either of them throwing with or without effect, `Crash` ends a process whose random id never comes back. Times are kept as time left; `Age` passes a unit of it. |
| `Poller` | the supervisor, on `LeaderLease` (extended) | `tasks` is the Map, `fleet` the rows with a host, `found` what a refresh selected. A refresh is a lease tick whose body is the query and the reconciliation. |
| `PollBus` | the polls of one replica | `conns` and `link` are the Map and its entries, `poll` where each unit's poll is. `GetConn`, `Connected`, `Refused` are `getConn`; `Take` and `GiveUp` the wait for the slot; `ReadOk`, `DeviceFails`, `TransportFails` the end of `pollDevice` with `runTask`'s catch; `Move` a host edited under a poll. |
| `Control` | one device, on TCP or behind a C30 (`direct`) | `call` is where each `executeAndLog` is: `check` (lock), `write`, `read`/`register` or `verify`, `insert`, `attach`. `downlink` and `uplink` are the broker's queues, `outstanding` the registry. `PressStop`, `Lock`, `Release` are `setLock`. `Handle`, `Expire`, `Sweep`, `SettleFails` settle rows. |
| `EmsController`, `MC_EmsController` | one BESS with a bipolar register | `peak` and `last` are `peakState` and `lastCmd` of each replica, `register` the device. A tick begins, evaluates peak configurations one by one, the plan, the schedule; a command is a step that lands and a step that returns, so that everything can happen between. |
| `Curtail` | the arithmetic of `curtail.ts` | operators: the next total, the greedy split by priority, the percentage of a share. |
| `GridLimit`, `MC_GridLimit` | `evalGridLimits` with a plant that answers | `total` is `curtailKw`, `cmd` the idempotency entries, `limit` the registers, `round` where the tick is: read, send to each asset, store. |
| `Watchdog` | `refreshWatchdogs` for one device | `lastPet` and `silent` are the two timers, ours and the device's; a tick fires, is through with its strategies, writes if due, and notes it. |
| `OtaJob` | one config job on MQTT | `status`, `attempts`, `error`, `overdue` are the row. The creator and the sweeps go `selected`, `published`, idle: row read, frame out, row written. Handlers read an answer, write the row, bump the version. |
| `OtaRollout` | one rollout over jobs that settle somehow | `status`, `planned`, `target` are the rows, `jobs` all jobs made for a gateway. `InsertTargets` is the second insert of `createRollout`, `InsertFails` and `Crash` what leaves it out. A sweep goes `sync`, then `halt`, `done` or `dispatch`/`mark`; `OperatorReads` and `OperatorWrites` are the two halves of `setRolloutStatus`. |
| `Alarms` | one rule on one meter | `breachRow` and `breachState` are the row and each replica's copy, `frame` where its evaluation is between the statements. |
| `Notify` | who hears of one alarm | `job` is where each notifier and escalation sweep is in `dispatchToChannels`: look for the row, send, insert. `Finds` and `Resolves` are the select and the update of whoever sees the alarm over, `Crowd` more due alarms than the 100 a sweep takes. |
| `Liveness` | one gateway's status | `seen`, `flushed`, `flush` are the marks and the bulk flush, `sweep` the offline sweep of each replica. |
| `Provision` | one UID and one device address | `gwCache`, `meterCache` per replica, `message` where a message is between look-up, insert, re-read and cache; `removal` is `gateways.remove`. |
| `Webhooks` | the queue of one subscription | `queue` is the rows, `dispatching` each sweep with its snapshot; `Select`, `CloseDisabled`, `Send`, `Record` its steps. |
| `Outbox` | abstract: what the queue promises | an event is queued once, closed in the end, as delivered only if it was taken, and never queued again. |
| `ReportSchedule` | one schedule | `tick` is what each replica decided and is about to claim or run, `mailed` what was sent per period. |
| `RateLimit` | one bucket row | `call` is each request between its read and its compare-and-swap, each with its own `now`. |
| `OrgPurge` | the deletion of one organisation | `purge` is, per sweep, how far the sequence of statements is and what it planned, `request` an invite sent or accepted, a switch or a removal between its read and its writes; `Ingest` is a message, which may make the device row again. |
| `DataExport` | the exports of one organisation | `export` is the rows, `archive` the files, `builder` each sweep with its list. `Throw` is an error in the try of a build, `SweepEnds` one outside it, either perhaps with a file that could not be removed. |
| `Telemetry`, `MC_Telemetry` | `BatchWriter` (extended), `Retention`, `SohTracker` | composition |
| `Polling`, `MC_Polling` | `Poller` (extended), `PollBus` | composition |
| `Ingestion` | `Alarms`, `Notify`, `Liveness`, `Provision` | composition |
| `Services`, `MC_Services` | `OtaRollout` (extended) and `Webhooks`, `ReportSchedule`, `RateLimit`, `OrgPurge`, `DataExport`, `GridLimit`, `EmsController`, `Watchdog` | composition |
| `Control_proofs`, `EmsController_proofs`, `OtaJob_proofs`, `Webhooks_proofs` | the theorems of the component they are named after | section 5 |
| `Telemetry_proofs`, `Polling_proofs`, `Ingestion_proofs`, `Services_proofs` | the theorems of a composite and of its components: of the one it extends as they stand, of the others through the composite's instances | section 5 |

Two kinds of composition. `Poller` interleaves with `LeaderLease` step by step: a refresh
is a tick of the lease. The four composites put components beside each other that share
no variable the code shares (they meet in a table months apart, or through an event both
modules name). Interleaving those would multiply states and show nothing, so a
behaviour is of one of them: `part`, chosen in the initial state and never changed, names
which, the others rest, and each conjunct of a composite's property is the component's own
formula. A composite extends one component, whose theorems are of its own specification
and carry over because the composite's steps are its steps or stutters
(`TelemetryIsWriter`, `ServicesRollOut`); the theorems of the others are stated of the
composite's, through the very instances TLC evaluates.

What one module takes from another: `OtaRollout` abstracts `OtaJob` to a job that is open
until it is acked or failed, for good, which is `OtaJob!Settles` plus the finality of an
ack. The finality fails in the code (`AckFinal`, section 6), so what is checked of
rollouts is relative to it. `Control` abstracts who calls; `EmsController` and `GridLimit`
abstract a call of `executeAndLog` to a command that lands or not, and returns or fails;
`LeaderLease` says which replica ticks. `OtaJob`, `OtaRollout`, `OrgPurge` and
`DataExport` do not lean on it: any sweep may run beside any other of its kind, within the
slots a run gives them (`services` gives rollouts one). `EmsController` leans on it half-way: ticks of one replica may overlap, the
replicas take turns in any order, and a tick that outlives its lease into another
replica's (what `Exclusive` leaves open) is not in it.

History variables (marked as such in the modules) are only read by properties, among
them `displaced`, `pushed` (BatchWriter), `asked`, `rolled` (Retention), `landed`, `held`,
`contested`, `detached`, `overlapped` (Control), `sent` (EmsController), `published`,
`applied` (OtaJob), `cut`, `early` (OtaRollout), `raisedIn` (Alarms), `told` (Notify), `taken`,
`refused`, `sends` (Webhooks), `mailed`, `late` (ReportSchedule), `admitted`, `regressed`
(RateLimit), `heard`, `touched` (OrgPurge), `crossed`, `left`, `kept` (DataExport), `steady` (Watchdog).

Abstractions worth knowing. A row of telemetry is its arrival number, or its slot in
time. An insert commits or not, whatever it reports. Powers are a few integers around the
band. A frame is who sent it and whether it writes or reads. A timeout is a flag that may
become true at any time, except where two timers race, which then both count. Reads in a
row with no write of the same step between them are one action.

## 3. Runs, bounds and what they show

Seven runs pass; five show a violation (section 6). Each `Max...` constant is a bound of
the model only, counted in the guard of the action it bounds.

| Run | Module | Bounds | Shows |
|---|---|---|---|
| `telemetry` | `MC_Telemetry` | writer: queue 3, batches of 2, 1 retry, 4 rows, 2 process ends, 2 failed inserts, 1 failed file operation; retention: 2 organisations with no, a shorter or a longer override, hours of 2 slots, default of 4, overrides 3 and 6, 2 ticks at once, 1 fault; health: 6 batteries, 8 buckets, pages of 3, gap 2, 1 sweep, 1 fault | `Recoverable`: what is in memory is in the file of its own batch, and only the head's segment repeats rows of the table. `LossCounted`: vanished rows are at most the drop counter. `Settles`: a row reaches the table, or a segment for the next boot, or is excused by a drop or a failing disk. `Retained`: no sample goes unaggregated or earlier than its owner asked, and what nobody keeps goes. `HealthBooked`: the row has booked each pair of neighbours once, estimates are of unbroken discharges and keep their working, nothing stays unread. |
| `poller` | `MC_Polling` | 2 replicas, 1 slot, ttl 1, clocks one unit off (both behind, both ahead, or one each way), 1 crash, 1 failed statement, 1 device with 2 settings, absent in between; bus: 2 units, 2 hosts, 3 faults or edits | `Covered`, `Exclusive`: of two acting replicas one has outlived its expiry. `PollsOnce`: so with two replicas that have tasks of one device. `PollingFollows`: others stand down, a device that stays is polled again and again, with the settings it has by then and no longer with others (`LeaderLease!HandsOver` is in it). `SocketsShared`: one reader on a connection that is busy and none on a free one, no socket leaked, a unit's error closes nothing, polls succeed again after the network behaves. |
| `control` | `Control` | the stop and one writer, 1 register, 2 values, 1 lost frame or failed publish, 1 failed statement or process end | `StopStops`, `OkVerifiedApart`, `AlwaysLogged`, `SentSettles`, on both transports |
| `ota_job` | `OtaJob` | 2 attempts, creator and 2 sweeps, 1 handler, 1 failure, 1 process end | `ReportsHonest`: a time-out had all its attempts, a version and an ack are of a configuration that was applied. `Settles`. |
| `ingestion` | `Ingestion` | 2 replicas, 1 fault; duration 1, 1 operation by hand; one channel per line, 2 resolvers, 2 notifiers or sweeps at once, 1 turn (a suppression or a flood of alarms begins or ends, a send fails, a click on an alarm that is over); offline threshold 2; 1 removal | `Alarming`: one alarm per breach and replica, raised when it lasts, closed when it is over. `Notified`: only the paged hear of the end, a channel of a turn once per notifier at once, escalation. `StatusFollows`: a publishing gateway stays online, a silent one goes offline and is alarmed, one that is back loses its alarm. `Provisioned`: one row per gateway and meter, ghosts end, data goes on arriving. |
| `ems_priority` | `MC_EmsController` | 2 replicas that take turns, 1 configuration, imports 0 and 5 and stale, SoC low or inside, a limited discharging plan, an unlimited charging schedule, 1 failure, 1 process end | `OneOwner`: one strategy commands the BESS per tick, peak shaving before all. `CutsUnsafe`: an empty BESS ends up not discharging. |
| `services` | `MC_Services` | rollouts of 4 gateways (canary, a wave of 2 that tolerates one failure, a wave of 1), 1 sweep, 3 operator changes, 1 fault; 1 delivery, 2 sweeps, 3 attempts; 2 replicas, 5 periods of 2 slots; 2 requests, burst 3, 2 units of time; 2 purges, 1 account, 1 request or message; 2 exports, 2 builders; 2 inverters, one without a register, 4 weathers; imports 0, 1, 3, 5, stale, or without power; watchdog blocks from one to two and a half ticks with timeouts of two to four and a half, 1 failure, 1 process end | `WaveGate`, `CompletedHonest`, `OneJob`, `RolloutEnds`; `ClosedHonest`, `ImplementsOutbox`; `Reported`: no period twice, never two in a row left out; `BucketHonest`; `Purged`; `Exported`; `EmsSettles`: a breach is answered, what was held back is released, a lasting import gets its discharge and one below the band the BESS's rest, no watchdog fires while nothing fails and refreshes come again after what did |

Why the bounds are enough. In the writer every mechanism needs at most a batch in flight,
one behind it and pending rows: that is a queue of 3 with batches of 2, one row over
the limit, and a second process end so that a replay is itself cut short. Retention needs
an override on either side of the default and two ticks that take each other's rows.
A battery's eight buckets hold every kind of page: full, cut by a hole, silent, with a
window that spans two. The lease needs two replicas; a ttl with a skew of as much has an
expiry that is early, exact and late. Two units on two hosts share a socket, and leave it,
and come to it. In `control` the interesting cases are two calls that overlap on one
register; a second register brings in the confusion of answers (section 6). Import levels
lie below, inside and above the band, one beyond what the BESS can deliver. Two attempts
tell the first from the last. Four gateways give every kind of wave. Two replicas suffice
for alarms, escalations and sweeps, which decide per row. Five periods give a report two
chances to miss its neighbour. Two purges let one plan, die or finish behind the other's
back. A rollout is created as draft; operator changes start it before, between and after
its inserts, which is what `start: true` would add (with it `CompletedHonest` holds as
well, by proof). A first inverter that cannot follow is what makes the
split matter. The watchdog's blocks put the interval below, at and above a tick, and a
third of the timeout below and above the floor.

Properties carry their excuses in the formula, each for a reason in the code:
`walFails = 0` (a failed append is swallowed), `~contested` (a write that read the lock
before the stop is not called back), `~overlapped` and `detached` (the registry knows no
address), `cuts > 0` (a statement failed or the process ended), `fails = 0` (a skipped
evaluation claims nothing), `cut` (a step was abandoned half-way), `early` (a sweep looked for a rollout's targets
when they were not there), `crossed` (two sweeps had one export in hand), `left` (a sweep
ended with an export in hand), `kept` (a file could not be removed), `heard` (a message came
behind the beginning of a purge), `crowded` (more alarms are due than a sweep takes), `~regressed` (a request wrote an earlier `now` over a later one),
`touched` (a request changed the account, or sent an invite, behind the plan), `ClosesAnother` (a failing poll
closed a newer connection), `~steady` (a refresh failed or a tick was late),
`days[o] = RawDays` (an override equal to the default). Section 6 says what lies behind
those that a reader of the documentation would not expect.

`Settles` of a job, `RolloutEnds` and their like are `<>[]` formulas: operations by hand
are bounded, so what has settled has settled for good.

Every property of a passing run has a mutant in `PROJECT.json`, some several: a plausible
bug, defined in the module above the definition it replaces and marked "Mutant", under
which TLC finds the property violated with the same configuration.

## 4. Fairness

Only what the code schedules by itself is fair. BatchWriter: the flush timer, the end of
a backoff, the settling of an awaited insert (either way), the supervisor's restart;
nothing makes rows arrive. Retention, SohTracker: the timer, the statements, time.
LeaderLease and Poller: interval timers, statements, the end of a body, the restart, time.
PollBus: a unit is polled again, a connection attempt comes to an end, who waits for a
free slot takes it, a read returns; nothing edits a host. Control: a call that inserted its
row goes on to attach it, deadlines pass, the 30 s sweep runs; the gateway need never
answer. EmsController, GridLimit: some replica's timer begins ticks and a tick that began
goes on; readings, plans, weather and SoC are free. Watchdog: the timer, the tick's steps,
the restart, time. OtaJob: the clock, the sweep, each started dispatch and handler; the
gateway need not answer, so `Settles` holds through the timeout alone. OtaRollout: sweeps,
and that a job settles. Alarms: each replica keeps getting frames (the shared subscription
deals them out). Notify: jobs go on, and a sweep that is not crowded
out takes the alarm. Liveness: flushes and sweeps, and that a gateway which publishes
goes on. Provision: messages keep coming to each replica, entries
reach their TTL. Webhooks: sweeps, and that a backoff runs out. ReportSchedule: ticks, and
that a run goes on. OrgPurge, DataExport: the sweep and its statements.

In a composite the fairness of a component is stated over that component's variables and
only while `part` names it. Weak fairness is enough everywhere, because a timer that has
fired stays enabled until it is taken. Failures are bounded, so they cannot happen for
ever.

CHECK_DEADLOCK is FALSE where the system may rest: a settled job, a finished rollout, a
device nobody commands, the end of the reports' clock.

## 5. Proofs

All are safety, from the constants' named assumptions and the hypotheses named here only,
for any number of replicas, gateways, rows, requests, sweeps, crashes and faults. TLC
checked the invariants first, but for the walk in `HealthInv`, which quantifies over all
functions.

| Module | Theorem | Invariant it needs, and why |
|---|---|---|
| `Polling_proofs` | `LeaseTypeCorrect`; `LeaseCovers`, `LeaseExclusive` with one tick slot per replica (`OneSlot`) | `Exclusive` says nothing of a second replica that is about to take the row. `Covered` does: a tick that acts within its expiry is named by the row, for at least as long; a take-over needs the row expired, so the earlier tick has outlived its own expiry. The renewal writes an expiry computed at the tick's start, which is where one slot is needed: with two, an older tick may move `expires_at` back, and both formulas fail. Clock skew does not matter, because a tick is measured by the expiry it wrote itself. |
| | `PollerPollsOnce`, `PollingOnLease`, with `OneSlot` | `PollInv`: what `Covered` says of a tick, said of the expiry a replica last reconciled under, which outlives the tick; and that a tick under way asked for no less. |
| | `PollingSocketsShared`, `PollingErrorsApart`: the safety half of `SocketsShared` | `BusInv`: a slot that is taken has exactly one reader and a free one none (`SlotSound`), and who is about to connect awaits a host with nothing open (`PollSound`). A reader is known by where its poll is, not by the map, from which its entry may be gone. |
| | `PollingTypeCorrect` | `NameLeft`: a new connection takes a name that no host and no poll has, so there must be one: there are as many names as hosts and units, and the unit that asks has none. Finiteness of `Unit` and `Host` is assumed for this alone. |
| `Telemetry_proofs` | `WriterTypeCorrect`, `WriterRecoverable` | `WriterInv`: between callbacks the writer is `Shaped` (an insert under way has a head, a replay writes no queued segment), and while the disk works each row is `Filed` with its batch, files hold rows `Apart`, and only the head is `Ahead` of its segment. `Apart` is what keeps an insert of the head from putting another segment's row into the table. |
| | `WriterLossCounted` | `LossInv`: counting the rows that are gone is not inductive. A displaced row is counted when it is displaced and goes when its segment is unlinked; and the head is cut by the length of an older slice, so a displaced row of the insert under way saves itself and takes along one that nobody counted. So the count is of the `Doomed`: all rows that no batch, file or table will keep, and the rows of the insert under way that the head no longer has. A cut then swaps one for another. `TelemetryLosesNothing` has it and `Recoverable` of the composite. |
| | `TelemetryRetained`: the safety half of `Retained` | `RetentionInv`: the plan a tick works by keeps everybody's samples at least as long as the shortest retention its owner has asked for (`PlanSound`), and all that lies below the point its roll-up has reached is counted, whoever counted it and whoever deleted since (`RolledUpTo`). An hour is rolled up only when it is over, which is where retentions that do not reach into the last closed hour are needed. |
| | `TelemetryHealthBooked`: the safety half of `HealthBooked`, for sweeps that do not overlap (`OneWorker`) | `HealthInv`: the sums of a row, stored or in a loop, are those of all samples up to its cursor and its window is an unbroken discharge up to it (`BookedRow`), so that a step adds one pair of neighbours. A loop cut short leaves estimates ahead of the stored cursor, and the next page may be cut elsewhere; that they are made again and not twice is because from one row there is one walk over the samples: `Trail` has it as far as any loop came, each loop is on it, and each estimate ahead is one it makes. Two sweeps that overlap write an older row over a newer one, and a stretch is booked twice (section 6). That the sums are numbers, and grow by one pair, is by least counterexample over the finite set summed. |
| | `TelemetryTypeCorrect` | the three parts' invariants together with the bounds on faults and crashes they share. |
| `Control_proofs` | `ControlStopStops` | `ControlInv`: while nothing was lost or let past, nobody else is at its write (`LastWord`), and from its write on the stop's 0 is the last word - in the register with no foreign write on the way, or as the last write on the way. It follows the word through the broker's queue, frame by frame. |
| | `ControlOkVerified` | `VerifiedInv`: a call leaves a trace wherever it is - its own steps, its frames, answers and registry entries - and on a device commanded by one call after the other only one call has any (`Apart`). So an answer that carries a value is of the call whose entry it settles, and was read from a register that held it. |
| | `ControlAlwaysLogged` | `LoggedInv`: a call gets behind its insert with a row only, and a row is never taken back. |
| | `ControlTypeCorrect`, `ControlAliveIsLive` | the second is about the model: entries of a register expire in the order they came in, so cutting the bucket at its first live entry is the `filter` of `sweepExpired`. It is why `Control` needs no `SelectSeq`, of which nothing can be proved here. |
| `EmsController_proofs` | `EmsTypeCorrect`, `EmsOneStrategy` | `OrderInv`: a tick has sent for one strategy at most, and says at its stage which it can have been. |
| | `EmsOneOwner`, with `OneSlot` and `NoMetric \notin Reading` | `OwnerInv`: of a configuration a tick has evaluated, the event is not active unless the tick is taken (`Claimed`). With two slots another tick of the replica starts an event behind it; a source row without `activePowerKw` leaves an event active and the tick free (section 6), which is why the theorem asks for rows that carry the power. |
| `OtaJob_proofs` | `OtaTypeCorrect`, `OtaReportsHonest`, for finitely many handlers at once | `JobInv`: every copy of the row a worker goes on with counts no attempt that was not published (`AttemptsMade`); versions, handlers holding an ack and acks on their way are together at most what was applied (`Backed`). The count is needed: two handlers that read the row before either wrote it both bump the version. |
| `Ingestion_proofs` | `IngestionTypeCorrect` | `IngestionInv`, the four components' invariants together; `HeldInv` of them says that no message is past its look-up without what it looked up. They share the count of faults, so for each there is a lemma that it bears a growing count. |
| | `IngestionRaisesOnce` | `AlarmsInv`: a frame on its way to the insert carries a record that says raised (`FiresKnown`), and a replica that has raised caches one that says so and has no frame on its way to another insert (`RaisedOnce`), until a frame without a breach starts the count over. |
| | `IngestionTellsThePaged` | `NotifyInv`: while a channel has no row, the messages it got of a turn are at most the notifiers of that turn that stand between send and insert plus the faults, and messages and notifiers about to send are together at most the notifiers of the turn there are (`Teller`) plus the faults (`Quiet`). Rows alone bound nothing: a job that ends before its insert leaves a message and no row. `JobSound` has what a job does justified by what was told. |
| | `IngestionProvisionsOnce` | `RowsInv`: a gateway without a row, or about to lose it, is accounted for by a removal; without a removal no device row is gone. |
| `Webhooks_proofs` | `WebhookClosedHonest` | `QueueInv`: neither a row nor a sweep's snapshot counts an attempt that was not made, and an answer about to be recorded was given. Overlapping sweeps write counts back, so the row alone does not carry it. |
| | `WebhooksImplementOutbox`: the safety half of the refinement | every step of the queue is one of `Outbox` or a stutter; `RowSound` is what shows that a closed row is never queued again. |
| `Services_proofs` | `RolloutTypeCorrect` | a target that is sent, and a sweep about to say so, name an existing job (parts of `TypeOK`). |
| | `RolloutWaveGate`, any number of overlapping sweeps | `WaveInv`: a row or a sweep's finding says acked only of a gateway that acked, and the wave being dispatched may be exposed. Acks are for ever, so a decision on stale rows stays justified (`AckedGrows`, `MayExposeStays`); a wave `nextAction` walks past is healthy by the rows (`HealthyByRows`), hence in fact. |
| | `RolloutCompletedHonest` | `CompletedInv` adds that a sweep about to complete has seen every wave healthy, or no targets. A rollout that is planned while a sweep has already seen it empty is why `early` is a history of sweeps and not the state of the rows. |
| | `RolloutOneJob`, for sweeps that do not overlap (`OneSweep`) | `JobInv`: until a step is cut short a pending target has no job but the one its sweep is about to name, and the targets a sweep still has to do are pending. `ServicesWaveGate` and `ServicesRolloutSound` have these of the composite. |
| | `ServicesClosedHonest`, `ServicesImplementOutbox` | those of `Webhooks_proofs`, for the queue among the other services: the safety half of `ImplementsOutbox`. |
| | `ServicesBucketHonest` | `LimitInv`: charged and left are together no more than the capacity and the time the row was refilled for - the row's `updatedAt`, not the clock; and a request that goes on to write found a token in the row it read. |
| | `ServicesMailOnce`: the safety half of `Reported` | `ReportInv`: a tick under way is of this slot or the one before (`TickRecent`; that a tick lasts into the next slot at most is the model's), only one runs (`RunsAlone`), and the period after one that was mailed had begun, but for that slot, by `lastRunAt` (`MailedOnce`). So the claim won last lies no more than a period behind the run it is for. |
| | `ServicesKeptAlive`: the watchdog's part of `EmsSettles` | `WatchdogInv`: the device's timer runs at most a tick ahead of ours (`Pace`), and ours at most an interval and the phases of two ticks. Four and a half ticks is what the sum comes to. |
| | `ServicesExportsWhole`: the safety half of `Exported` | `ExportInv`: of an export never in two hands, the file, the row and the one builder that has it are in step (`InStep`), and without one they rest (`Rests`): only a ready row, one left running and one whose file could not be removed have a file, and never a ready one half of it. |
| | `ServicesPurged`: the safety half of `Purged`, for any number of purges side by side | `PurgeInv`, of each sweep: what each statement it is `Past` deleted stays deleted through the requests, messages and other purges behind it (`Deleted`), and what it planned for the account holds unless a request `touched` it (`PlannedFor`). Plans made side by side may differ, one moving the account and the next keeping it, but not in whether another organisation has it, and the purge that removes it empties the others' plans. |
| | `ServicesTypeCorrect` | `ServicesInv`: the invariants above, the peak shaving's (`EmsController_proofs`, through an instance) and the grid's, which is new: `TypeOK` says nothing of the shares a tick has yet to send, and a share's asset and amount are what puts the next percentage into a register. So `GridTyped` has each share of a site's asset and within its rating (`AllocateIs`). The plant's supply, and what is left to hold back, are computed step by step along the assets; that there is such a function and only one is shown by least counterexample (`StepsExist`, `StepsSame`), and that the assets have an order is because their ranks are distinct. |

Out of the prover's reach and checked by TLC only: everything with fairness (`Settles`,
`SentSettles`, `CutsUnsafe`, `RolloutEnds`, `PollingFollows`, `StatusFollows`, and the
liveness parts of `Alarming`, `Notified`, `Provisioned`, `Reported`, `Purged`, `Exported`,
`Retained`, `HealthBooked`, `EmsSettles`, `SocketsShared`, `ImplementsOutbox`) and anything
with ENABLED. The induction theorems of the library cannot be applied (they take an operator),
and of `SelectSeq` and `SortSeq` nothing is known to the provers: where a theorem depends
on a sum or on a function of steps, the models are written with sets and functions, and
the induction is an argument about a least counterexample. Every invariant of a passing
run is stated by a theorem; what the violated runs state is false.

## 6. Divergences found

Each of these has a run that TLC violates, and quotes the line it disagrees with:
- `wal_unlink` (`DeletedOnlyAfterInsert`): `flush` cuts the head batch by the length of a
  slice taken before the insert, though `push` has shifted rows off meanwhile; a row is
  lost with its segment.
- `retention_lossy` (`HistorySurvives`): the cutoffs are moments, not hour boundaries. A
  tick deletes the first part of an hour, and the next rolls that hour up again from the
  rest alone, over the whole row.
- `ems_lost_stop` (`Stops`): a stop whose write fails is not sent again.
- `reports_skipped` (`EveryPeriod`): the claim compares `last_run_at` with the start of
  the wrong period; a daily report goes out every other day.
- `grid_dark` (`HeldWhenDark`): the total is held while the coupling meter is dark, but an
  inverter that is dark as well takes no share and is released to 100 %.

Properties that are stated in the modules and do not hold, without a run of their own
(the passing runs check what is left of them):
- `Control!OkVerified`: an answer settles the oldest outstanding read of its byte count
  (`api/mqtt/c30-outstanding.ts:79`); with two commands of one C30 device the wrong one is
  reported ok. `OkVerifiedApart` is what holds.
- `OtaJob!AckFinal`: a late update turns an acked job back to sent
  (`api/ota/manager.ts:96`).
- `OtaRollout!Finishes`: a wave that is partly out is waited for and never completed
  (`api/ota/rollout.ts:96`), so a step cut short leaves the rollout running.
- `Alarms!OneAlarm`: a replica that loaded the breach before another marked it raised adds
  an alarm of its own once the first is resolved, by hand or because a frame in between
  was clear (`api/mqtt/handlers.ts:213`).
- `Notify!EscalatedOnce`: two replicas look for the row before either has sent
  (`api/alarms/notify.ts:305`).
- `Provision!NotResurrected`: a look-up under way puts an evicted entry back
  (`api/mqtt/handlers.ts:72`); `GhostsEnd` shows that it expires.
- `OrgPurge!NothingOrphaned`: a message that arrives while the purge runs leaves telemetry
  of an organisation that is gone (`api/orgs/purge.ts:16`), under the id of a row that is
  gone or of one that `ensureMeter` makes again (`api/mqtt/handlers.ts:122`).
- `Watchdog!KeepsUp`: a device stays awake while nothing but the length of ticks is in the
  way. With an interval of 9 and ticks of 7 (`tickTooSlow`, `api/ems/watchdog.ts:100`, looks
  at the interval only) a steady device reverts after 27; `KeptAlive` is what holds, for
  timeouts of more than four and a half ticks.
- `GridLimit!BreachEnds`: an asset is not asked for less than half of what it is rated for
  two ticks running, so a breach that needs more than that from the followers stays;
  `Answered` is what holds.

Seen while modelling, visible in the models as an excuse or a missing case:
- Writer: with an empty head batch backpressure drops nothing and the queue exceeds its
  limit. A segment given up on is read at the next boot only.
- Control: a read whose publish fails behind the write's frame leaves an executed command
  without a row (`api/control/execute.ts:284` says "ALWAYS log"). An answer faster than the
  insert, or one that goes to another replica, leaves its row sent until a sweep. A write
  under way when the lock is set still lands.
- Leases: overlapping ticks of one replica write their expiries in either order. A tick may
  outlive its lease.
- Poller: a poll that failed on an older connection, or whose unit's host was edited
  meanwhile, closes the fresh and working connection of its key
  (`api/poller/service.ts:175`), although "must not disconnect the other units" (:172).
  `Reconnects` excuses it; nothing but the length of the backoffs ends a ping-pong.
- Watchdog: "two consecutive refreshes can be lost" (`api/ems/watchdog.ts:43`) does not
  hold when a tick is as long as the interval, since `lastPet` is set behind the write
  (`api/ems/controller.ts:702`) and the next tick comes too early. "Configuration cannot
  make the watchdog useless" (:86) does not hold for a timeout below three times
  `MIN_INTERVAL_MS`. "Every device under EMS management" (`controller.ts:649`) leaves out
  devices with only a plan or a grid limit (`managedMeters`). A strategy that throws takes
  the refresh along.
- EMS: a peak event of a replica that handed over stays in that replica's memory. A fresh
  source row without `activePowerKw` is passed over before the BESS is claimed, so plans
  and schedules command it.
- Rollouts: `createRollout` inserts the rollout and its targets in two statements
  (`api/routers/ota.ts:172`, `:192`) without a transaction. A process end or a failing second
  insert leaves a rollout without targets, which `setRolloutStatus` starts without a look;
  with `start: true` a sweep may also come between the two. `nextAction` calls nothing to do
  done (`api/ota/rollout.ts:83`), and the driver marks the rollout completed
  (`api/ota/rollout-driver.ts:84`). Two overlapping sweeps can give one gateway two jobs.
- Alarms: everybody who finds an alarm over resolves it and has the channels told
  (`api/mqtt/service.ts:344`, `api/mqtt/handlers.ts:498`); two that do so at once both pass
  the look for the row, and the end is told twice with nothing failing. `NoStorm` bounds it.
  `escalationSweep` takes 100 alarms in no order (`api/alarms/notify.ts:463`), and an alarm
  stays due once it has been escalated, so those past the limit may never be looked at;
  `Escalates` is for when there are no more.
- Purge: a device that publishes behind the delete of its row makes it again with the
  organisation of the gateway in a cache, also when the organisation is gone; an invite is
  sent without a look at the organisation and may be inserted behind the delete of the
  invites. No later statement deletes either. The lease does not keep a purge that is longer
  than the interval from having the next one beside it.
- Liveness: a sweep that found a gateway back resolves by id the alarm of one that has just
  set it offline; nothing looks at an offline row again (`SilenceAlarmed` excuses it).
- Retention: an organisation whose override equals the default is in neither the default
  pass nor its own when another keeps longer (`api/orgs/retention.ts:53`). Every replica
  runs the loop.
- State of health: two sweeps at once can book a stretch twice; readings later than the
  grace are skipped; cycles are counted across short holes but not across a silence of a
  page or more; a crash may leave an estimate's working twice.
- Exports: two sweeps that build one row truncate each other's archive, and one's failure
  removes the other's. A row left running - by a process end, an error in front of the `try`
  of the build (`api/orgs/export.ts:77`, `:82`), or a failing update to failed (`:193`) - is
  built by nothing again, and every later request of the organisation is refused. A file
  whose removal fails (`:191`, `:225`) stays on disk behind a row that says failed or expired,
  and nothing tries again.

## 7. Not modelled, and why

Within the modelled parts: the whitelist, verification, range and function-code gates of
`executeControl`, which refuse before anything is touched; dry runs; `readNow`;
`releaseLease` (called nowhere) and the switch `LEADER_LEASES=off`; firmware jobs (the
same machine on another column) and the TCP branch of the OTA dispatch; disabling or
deleting a peak-shaving configuration during its event; time zones of schedules and a
change to summer time; the limit of 20 rollouts per sweep; the stuck operator's window and
edits of an alarm rule; the rota and the scopes of a suppression; the tenant a registration
gives its rows; signing, rotating and removing a webhook subscription; download tokens;
rows of telemetry that arrive late; blocks, decoding and backoff lengths of a poll, and a
stopped task whose poll is still out while a new task of its device begins; a watchdog tick
beside one still under way; more than one device at a time, which share nothing but the
connection of a host and the timing of a tick. `PROJECT.json` says so per component.

Whole components: see `PROJECT.json`, "components" with status `not_modelled`, each with
its reason. They are the optimizer and the tariffs (a numeric optimisation over floating
point), the telemetry stores and the merge (SQL over time buckets), the register codec
(bytes), sign-in (a third party's protocol and cryptography), routers, commissioning and
profile import (single statements, parsing, no state between calls), the database schema
and seed (declarations), infrastructure, scripts and the web client (no protocol state of
the server). These are most of the repository's lines: the server's state machines are a
small part of it, which is why the map covers a small share.

## 8. Plan

Done: everything in section 2. What would come next, in order of worth: the safety half of
`HealthBooked` for sweeps that overlap, once the row is written conditionally; `Alarms`
beyond one alarm per breach - that an alarm open while nothing fails has its breach row;
`OtaRollout` over `OtaJob` itself instead of a job that settles for good; a run of
`OkVerified` for devices with two registers; peak-shaving configurations that are disabled
during their event; the pure operators (`decodeRegisters`, the merge of raw and rolled-up
series, the tariff windows) against reference definitions on bounded inputs.
