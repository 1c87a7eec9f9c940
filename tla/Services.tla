------------------------------ MODULE Services ------------------------------
(***************************************************************************)
(* The components beside the ingestion path, one at a time: each owns its    *)
(* tables and timers and shares nothing with the others, so their behaviours *)
(* are looked at side by side, not interleaved.  `part` says which of them   *)
(* a behaviour is of; the others rest in an initial state.  The rollouts'    *)
(* module is extended: its theorems are about the definitions checked here.  *)
(***************************************************************************)
EXTENDS OtaRollout

CONSTANTS
  None, MaxCrashes, MaxFails,
  Delivery, Dispatch, WebhookAttempts, MaxToggles,            \* Webhooks
  Server, PeriodLen, DueSlot, LastSlot, MaxAdhoc,             \* ReportSchedule
  Request, Burst, MAX_CAS_ATTEMPTS, LastTime,                 \* RateLimit
  Purger, Doomed, Other, MaxRequests,                         \* OrgPurge
  Last, Builder,                                              \* DataExport
  AssetCount, Followers, Rated, Limits, Weather, MaxTotal,             \* GridLimit
  Power, ShavingThreshold, Hysteresis, MaxDischarge,          \* EmsController
  RegisterMax, MinMove, Reading, Stale, NoMetric, Window,
  TickLen, MinInterval, Setting

VARIABLES
  part, crashes, fails,
  wanted, queue, failing, dispatching, taken, refused, sends, toggles,
  slot, lastRunAt, tick, ticked, mailed, late, adhoc,
  time, bucket, call, admitted, regressed,
  org, telemetry, meter, invite, user, member, request, purge, heard, touched, requests,
  export, asking, aged, archive, builder, crossed, left, kept,
  weather, limit, total, cmd, round,
  reading, soc, plan, due, register, peak, last, emsTick,
  cfg, up, phase, refresh, lastPet, silent, steady

W == INSTANCE Webhooks WITH MAX_ATTEMPTS <- WebhookAttempts, sweep <- dispatching
R == INSTANCE ReportSchedule
L == INSTANCE RateLimit WITH NoRow <- None, MaxErrors <- MaxFails, errors <- fails
P == INSTANCE OrgPurge WITH Sweep <- Purger
E == INSTANCE DataExport
G == INSTANCE GridLimit WITH N <- AssetCount
\* Peak shaving alone, on one replica whose ticks do not overlap and whose writes
\* succeed: what the strategies do to one another is the run of MC_EmsController.
S == INSTANCE EmsController WITH
       Replica <- {None}, Slot <- {None}, Config <- {None}, Threshold <- ShavingThreshold,
       Soc <- {"inside"}, Plan <- {None}, Schedule <- {None}, NoPlan <- None,
       MaxFails <- 0, MaxCrashes <- 0, tick <- emsTick
D == INSTANCE Watchdog

ASSUME ServicesAssumption ==
  /\ W!WebhookAssumption /\ R!ReportAssumption /\ L!RateAssumption
  /\ None \notin L!Bucket
  /\ P!PurgeAssumption /\ E!ExportAssumption /\ G!GridAssumption /\ D!WatchdogAssumption
  /\ S!EmsAssumption /\ S!NoneAssumption

webhooks == <<wanted, queue, failing, dispatching, taken, refused, sends, toggles>>
reports  == <<slot, lastRunAt, tick, ticked, mailed, late, adhoc>>
limiter  == <<time, bucket, call, admitted, regressed>>
orgs     == <<org, telemetry, meter, invite, user, member, request, purge, heard, touched, requests>>
exports  == <<export, asking, aged, archive, builder, crossed, left, kept>>
grid     == <<weather, limit, total, cmd, round>>
shaving  == <<reading, soc, plan, due, register, peak, last, emsTick>>
watchdog == <<cfg, up, phase, refresh, lastPet, silent, steady>>
rollouts == vars
servicesVars ==
  <<part, crashes, fails, webhooks, reports, limiter, orgs, exports, grid, shaving, watchdog, rollouts>>

Part == {"webhooks", "reports", "limiter", "orgs", "exports", "grid", "shaving", "watchdog", "rollouts"}

ServicesTypeOK ==
  /\ part \in Part
  /\ part = "rollouts" => TypeOK
  /\ W!TypeOK /\ R!TypeOK /\ L!TypeOK /\ P!TypeOK /\ E!TypeOK /\ G!TypeOK /\ D!TypeOK
  /\ part = "shaving" => S!TypeOK

ServicesInit ==
  /\ part \in Part /\ Init
  /\ W!Init /\ R!Init /\ L!Init /\ P!Init /\ E!Init /\ G!Init /\ S!Init /\ D!Init
  \* At rest an organisation, the weather, a meter and a rollout are one and the same.
  /\ part # "orgs" =>
       user.orgId = Doomed /\ user.super /\ member = {}
  /\ part # "grid" => weather = CHOOSE w \in Weather : TRUE
  /\ part # "shaving" => reading = [c \in {None} |-> Stale]
  /\ part # "watchdog" => cfg = CHOOSE c \in Setting : D!Valid(c)
  /\ part # "rollouts" => status = CHOOSE s \in InitialStatus : TRUE

ServicesNext ==
  \/ part = "webhooks" /\ W!Next /\ UNCHANGED <<part, fails, reports, limiter, orgs, exports, grid, shaving, watchdog, rollouts>>
  \/ part = "reports" /\ R!Next /\ UNCHANGED <<part, fails, webhooks, limiter, orgs, exports, grid, shaving, watchdog, rollouts>>
  \/ part = "limiter" /\ L!Next /\ UNCHANGED <<part, crashes, webhooks, reports, orgs, exports, grid, shaving, watchdog, rollouts>>
  \/ part = "orgs" /\ P!Next /\ UNCHANGED <<part, fails, webhooks, reports, limiter, exports, grid, shaving, watchdog, rollouts>>
  \/ part = "exports" /\ E!Next /\ UNCHANGED <<part, crashes, webhooks, reports, limiter, orgs, grid, shaving, watchdog, rollouts>>
  \/ part = "grid" /\ G!Next /\ UNCHANGED <<part, webhooks, reports, limiter, orgs, exports, shaving, watchdog, rollouts>>
  \/ part = "shaving" /\ S!Next /\ UNCHANGED <<part, webhooks, reports, limiter, orgs, exports, grid, watchdog, rollouts>>
  \/ part = "watchdog" /\ D!Next /\ UNCHANGED <<part, webhooks, reports, limiter, orgs, exports, grid, shaving, rollouts>>
  \/ part = "rollouts" /\ Next
     /\ UNCHANGED <<part, crashes, fails, webhooks, reports, limiter, orgs, exports, grid, shaving, watchdog>>

ServicesSpec == ServicesInit /\ [][ServicesNext]_servicesVars

wVars == W!vars
rVars == R!vars
pVars == P!vars
eVars == E!vars
gVars == G!vars
sVars == S!vars
dVars == D!vars

\* The fairness of each component, while it is the one that moves.
ServicesFairness ==
  /\ WF_wVars(part = "webhooks" /\ \E s \in Dispatch : W!Select(s))
  /\ \A s \in Dispatch : WF_wVars(part = "webhooks" /\ W!Work(s) /\ W!Awake(s))
  /\ \A d \in Delivery : WF_wVars(part = "webhooks" /\ W!Due(d))
  /\ WF_rVars(part = "reports" /\ R!Pass)
  /\ \A r \in Server :
       /\ WF_rVars(part = "reports" /\ R!Tick(r))
       /\ WF_rVars(part = "reports" /\ (R!Claim(r) \/ R!Run(r)))
  /\ WF_pVars(part = "orgs" /\ \E p \in Purger : P!DeletionSweep(p))
  /\ \A p \in Purger : WF_pVars(part = "orgs" /\ P!Purging(p))
  /\ WF_pVars(part = "orgs" /\ P!Requesting)
  /\ WF_eVars(part = "exports" /\ \E b \in Builder : E!ExportSweep(b))
  /\ \A b \in Builder : WF_eVars(part = "exports" /\ E!Work(b))
  /\ WF_gVars(part = "grid" /\ G!Step)
  /\ \A a \in G!Asset : WF_gVars(part = "grid" /\ G!Expire(a))
  /\ WF_sVars(part = "shaving" /\ S!Begin(None, None))
  /\ WF_sVars(part = "shaving" /\ S!TickStep(None, None))
  /\ WF_dVars(part = "watchdog" /\ D!Fire)
  /\ WF_dVars(part = "watchdog" /\ D!Step)
  /\ WF_dVars(part = "watchdog" /\ D!Restart)
  /\ WF_dVars(part = "watchdog" /\ D!Pass)
  /\ \A w \in Sweep : WF_rollouts(part = "rollouts" /\ SweepStep(w))
  /\ \A g \in Gateway : WF_rollouts(part = "rollouts" /\ Settle(g))

ServicesFairSpec == ServicesSpec /\ ServicesFairness

---------------------------------------------------------------------------
\* The properties of the components, in the words of their modules; the rollouts'
\* are OtaRollout's own.  `part` is rigid; <>[] keeps TLC's tableaux small.

\* Rollouts: one that no step of is cut short ends, halts or is paused.
RolloutEnds == <>[](part = "rollouts") => FinishesUncut

\* Webhooks: a row is closed for a reason its receiver or its owner gave.
ClosedHonest == W!ClosedHonest

\* Webhooks: the queue implements Outbox.
ImplementsOutbox == W!ImplementsOutbox

\* Reports: no period twice, and not two in a row left out.
Reported == []R!AtMostOnce /\ (<>[](part = "reports") => R!NeverTwoMissed)

\* The rate limit: no more than the bucket holds and regains, and no token lost.
BucketHonest == L!BucketHonest

\* The deletion of an organisation: nothing of it stays, no account of another
\* goes with it, and it comes to an end.
Purged == []P!NothingLeft /\ P!KeepsOthers /\ (<>[](part = "orgs") => P!Finishes)

\* Exports: archives are handed out whole, go when they expire, and get built.
Exported == []E!HandedOutWhole /\ []E!NothingLingers /\ (<>[](part = "exports") => E!Built)

\* The EMS: a breach is answered and what was held back is released; a lasting
\* import gets its discharge, and one below the band the BESS's rest; a device
\* with a watchdog is kept awake, also again after a failure.
EmsSettles ==
  /\ <>[](part = "grid") => G!Released /\ G!Answered
  /\ <>[](part = "shaving") => S!Stops /\ S!Shaves
  /\ [](part = "watchdog" => D!KeptAlive)
  /\ <>[](part = "watchdog") => D!ComesBack

=============================================================================
