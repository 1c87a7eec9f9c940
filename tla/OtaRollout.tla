----------------------------- MODULE OtaRollout -----------------------------
(***************************************************************************)
(* A staged firmware rollout (api/ota/rollout.ts, rollout-driver.ts, and the *)
(* mutations of api/routers/ota.ts): canaries first, then fixed waves, each  *)
(* judged before the next one is exposed.                                    *)
(*                                                                           *)
(* The delivery of one job is OtaJob's business; here a job is open until it *)
(* settles.  Sweeps overlap when one takes longer than the interval, the     *)
(* operator starts and pauses from a row it read before, and a process end   *)
(* or a failing statement leaves a step half done.  Reads in a row, with no  *)
(* write of the same step between them, are one action.                      *)
(***************************************************************************)
EXTENDS Integers, FiniteSets, Sequences

CONSTANTS
  N,                     \* gateways of the rollout
  CanaryCount, BatchSize, FailureThresholdPct,
  Sweep,                 \* sweeps that can be under way at once
  InitialStatus,         \* what createRollout may insert: "draft", "running"
  MaxOps,                \* bound: changes by the operator
  MaxFaults              \* bound: failing statements and process ends

ASSUME OtaRolloutAssumption ==
  /\ N \in Nat \ {0} /\ CanaryCount \in Nat \ {0} /\ BatchSize \in Nat \ {0}
  /\ FailureThresholdPct \in 0..100
  /\ InitialStatus \subseteq {"draft", "running"}
  /\ MaxOps \in Nat /\ MaxFaults \in Nat

VARIABLES
  status,        \* of the rollout's row
  planned,       \* the target rows: "no", not yet; "yes"; "never", createRollout ended
  target,        \* the target rows, by gateway
  jobs,          \* the jobs created for each gateway
  released,      \* the firmware release exists
  sweep,         \* what each sweep is doing
  operator,      \* the operator has read a status that may be changed
  early,         \* history: a sweep looked for the targets when they were not there
  cut,           \* history: a step was abandoned half-way
  ops, faults

bounds == <<early, cut, ops, faults>>
vars == <<status, planned, target, jobs, released, sweep, operator, bounds>>

Gateway == 1..N
Outcome == {"ack", "failed"}
JobStatus == {"open"} \cup Outcome
RolloutStatus == {"draft", "running", "paused", "halted", "completed"}

Canary == IF CanaryCount < N THEN CanaryCount ELSE N

\* planBatches: batch 0, then waves of BatchSize.
BatchIndex == [i \in Gateway |-> IF i <= Canary THEN 0 ELSE 1 + (i - Canary - 1) \div BatchSize]
Batches == {BatchIndex[i] : i \in Gateway}
Members == [b \in Batches |-> {i \in Gateway : BatchIndex[i] = b}]

Idle == [pc |-> "idle", todo |-> {}, found |-> {}, gateway |-> 0, job |-> 0]

Target == [status : {"pending", "sent"} \cup Outcome, job : Nat]
SweepState ==
  [pc : {"idle", "sync", "halt", "done", "dispatch", "mark"},
   todo : SUBSET Gateway, found : SUBSET (Gateway \X Outcome),
   gateway : 0..N, job : Nat]

\* A target that is sent, and a sweep about to say so, name a job of the gateway.
TargetsNameJobs ==
  \A g \in Gateway :
    /\ target[g].job <= Len(jobs[g])
    /\ target[g].status = "sent" => target[g].job > 0
SweepsNameJobs ==
  \A w \in Sweep : sweep[w].pc = "mark" =>
    /\ sweep[w].gateway \in Gateway
    /\ sweep[w].job \in 1..Len(jobs[sweep[w].gateway])

TypeOK ==
  /\ status \in RolloutStatus /\ planned \in {"no", "yes", "never"} /\ released \in BOOLEAN
  /\ target \in [Gateway -> Target]
  /\ jobs \in [Gateway -> Seq(JobStatus)]
  /\ sweep \in [Sweep -> SweepState]
  /\ TargetsNameJobs
  /\ SweepsNameJobs
  /\ operator \in BOOLEAN
  /\ early \in BOOLEAN /\ cut \in BOOLEAN /\ ops \in 0..MaxOps /\ faults \in 0..MaxFaults

---------------------------------------------------------------------------
\* createRollout has inserted the rollout's row, not yet its targets.
Init ==
  /\ status \in InitialStatus /\ planned = "no"
  /\ target = [g \in Gateway |-> [status |-> "pending", job |-> 0]]
  /\ jobs = [g \in Gateway |-> <<>>]
  /\ released = TRUE
  /\ sweep = [w \in Sweep |-> Idle]
  /\ operator = FALSE
  /\ early = FALSE /\ cut = FALSE /\ ops = 0 /\ faults = 0

InsertTargets ==
  /\ planned = "no"
  /\ planned' = "yes"
  /\ UNCHANGED <<status, target, jobs, released, sweep, operator, bounds>>

\* The second insert throws: the two are not a transaction, and nothing makes up for it.
InsertFails ==
  /\ planned = "no"
  /\ faults < MaxFaults /\ faults' = faults + 1
  /\ planned' = "never"
  /\ UNCHANGED <<status, target, jobs, released, sweep, operator, early, cut, ops>>

\* countBatch
Count(b, s) == Cardinality({g \in Members[b] : target[g].status = s})
Total(b) == Cardinality(Members[b])
Unsettled(b) == Count(b, "pending") + Count(b, "sent") > 0

\* Mutant: only the canary is judged.
BadCanaryOnly(b) == b = 0 /\ Count(b, "failed") > 0
\* nextAction: a settled batch that stops the rollout.
Bad(b) ==
  \/ b = 0 /\ Count(b, "failed") > 0
  \/ Count(b, "failed") * 100 > FailureThresholdPct * Total(b)

\* Mutant: a wave with everything out counts as settled.
HoldsUpPending(b) == Count(b, "pending") > 0 \/ Bad(b)
HoldsUp(b) == Unsettled(b) \/ Bad(b)

\* nextAction: the first batch that is not settled and healthy decides.
FirstStop ==
  {b \in Batches : HoldsUp(b) /\ \A c \in Batches : c < b => ~HoldsUp(c)}

---------------------------------------------------------------------------
Becomes(w, state) == sweep' = [sweep EXCEPT ![w] = state]

\* rolloutSweep, stepRollout: the row, and syncTargetStatuses' selects.
Begin(w) ==
  /\ sweep[w].pc = "idle"
  /\ status = "running"
  /\ Becomes(w, [Idle EXCEPT !.pc = "sync",
       !.found = {x \in Gateway \X Outcome :
                    /\ target[x[1]].status = "sent"
                    /\ jobs[x[1]][target[x[1]].job] = x[2]}])
  /\ UNCHANGED <<status, planned, target, jobs, released, operator, bounds>>

Sync(w) ==
  /\ sweep[w].pc = "sync"
  /\ \E x \in sweep[w].found :
       /\ target' = [target EXCEPT ![x[1]].status = x[2]]
       /\ Becomes(w, [sweep[w] EXCEPT !.found = @ \ {x}])
  /\ UNCHANGED <<status, planned, jobs, released, operator, bounds>>

\* loadTargets, nextAction - which calls a rollout without targets done - and the
\* select of the release.
Decide(w) ==
  /\ sweep[w].pc = "sync" /\ sweep[w].found = {}
  /\ early' = (early \/ planned # "yes")
  /\ \/ /\ planned # "yes" \/ \A b \in Batches : ~HoldsUp(b)
        /\ Becomes(w, [Idle EXCEPT !.pc = "done"])
     \/ /\ planned = "yes"
        /\ \E b \in FirstStop :
             \/ /\ ~Unsettled(b)
                /\ Becomes(w, [Idle EXCEPT !.pc = "halt"])
             \/ /\ Unsettled(b) /\ Count(b, "pending") < Total(b)
                /\ Becomes(w, Idle)
             \/ /\ Count(b, "pending") = Total(b)
                /\ Becomes(w, IF released
                              THEN [Idle EXCEPT !.pc = "dispatch", !.todo = Members[b]]
                              ELSE [Idle EXCEPT !.pc = "halt"])
  /\ UNCHANGED <<status, planned, target, jobs, released, operator, cut, ops, faults>>

\* The unconditional updates of the row.
Conclude(w) ==
  /\ \/ sweep[w].pc = "halt" /\ status' = "halted"
     \/ sweep[w].pc = "done" /\ status' = "completed"
  /\ Becomes(w, Idle)
  /\ UNCHANGED <<planned, target, jobs, released, operator, bounds>>

\* The gateways of the wave are served in the order of their rows.
NextOf(w) == {g \in sweep[w].todo : \A h \in sweep[w].todo : g <= h}

\* createOtaJob
Create(w) ==
  /\ sweep[w].pc = "dispatch"
  /\ \E g \in NextOf(w) :
       /\ jobs' = [jobs EXCEPT ![g] = Append(@, "open")]
       /\ Becomes(w, [sweep[w] EXCEPT !.pc = "mark", !.todo = @ \ {g},
                                      !.gateway = g, !.job = Len(jobs[g]) + 1])
  /\ UNCHANGED <<status, planned, target, released, operator, bounds>>

\* Mutant: the target does not remember its job.
MarkedNoJob(w) == [status |-> "sent", job |-> 0]
Marked(w) == [status |-> "sent", job |-> sweep[w].job]

Mark(w) ==
  /\ sweep[w].pc = "mark"
  /\ target' = [target EXCEPT ![sweep[w].gateway] = Marked(w)]
  /\ Becomes(w, [sweep[w] EXCEPT !.pc = "dispatch", !.gateway = 0, !.job = 0])
  /\ UNCHANGED <<status, planned, jobs, released, operator, bounds>>

\* Mutant: a gateway that could not be given a job is passed over.
FailedToCreateSkipped(g) == target' = target
FailedToCreate(g) == target' = [target EXCEPT ![g].status = "failed"]

\* createOtaJob throws, or the update behind it: the target is failed.
CreateFails(w) ==
  /\ faults < MaxFaults
  /\ faults' = faults + 1
  /\ \/ /\ sweep[w].pc = "dispatch"
        /\ \E g \in NextOf(w) :
             FailedToCreate(g) /\ Becomes(w, [sweep[w] EXCEPT !.todo = @ \ {g}])
     \/ /\ sweep[w].pc = "mark"
        /\ FailedToCreate(sweep[w].gateway)
        /\ Becomes(w, [sweep[w] EXCEPT !.pc = "dispatch", !.gateway = 0, !.job = 0])
  /\ UNCHANGED <<status, planned, jobs, released, operator, early, cut, ops>>

EndWave(w) ==
  /\ sweep[w].pc = "dispatch" /\ sweep[w].todo = {}
  /\ Becomes(w, Idle)
  /\ UNCHANGED <<status, planned, target, jobs, released, operator, bounds>>

\* A statement throws outside the loop's try, or in its catch: the step ends there.
Abandon(w) ==
  /\ faults < MaxFaults
  /\ faults' = faults + 1 /\ cut' = TRUE
  /\ sweep[w].pc # "idle"
  /\ Becomes(w, Idle)
  /\ UNCHANGED <<status, planned, target, jobs, released, operator, early, ops>>

\* A request that is cut short is not taken up again.
PlannedCut == IF planned = "no" THEN "never" ELSE planned

\* The process ends with all its sweeps and requests, createRollout among them.
Crash ==
  /\ faults < MaxFaults
  /\ faults' = faults + 1 /\ cut' = TRUE
  /\ planned' = PlannedCut
  /\ sweep' = [w \in Sweep |-> Idle]
  /\ operator' = FALSE
  /\ UNCHANGED <<status, target, jobs, released, early, ops>>

---------------------------------------------------------------------------
\* The manager acks a job or gives it up.
Settle(g) ==
  /\ \E j \in DOMAIN jobs[g] :
       /\ jobs[g][j] = "open"
       /\ \E o \in Outcome : jobs' = [jobs EXCEPT ![g][j] = o]
  /\ UNCHANGED <<status, planned, target, released, sweep, operator, bounds>>

\* setRolloutStatus reads the row and refuses a halted or completed rollout ...
OperatorReads ==
  /\ ~operator
  /\ ops < MaxOps
  /\ status \notin {"halted", "completed"}
  /\ operator' = TRUE /\ ops' = ops + 1
  /\ UNCHANGED <<status, planned, target, jobs, released, sweep, early, cut, faults>>

\* ... and writes it.
OperatorWrites ==
  /\ operator
  /\ status' \in {"running", "paused"}
  /\ operator' = FALSE
  /\ UNCHANGED <<planned, target, jobs, released, sweep, bounds>>

DeleteRelease ==
  /\ released
  /\ ops < MaxOps
  /\ released' = FALSE /\ ops' = ops + 1
  /\ UNCHANGED <<status, planned, target, jobs, sweep, operator, early, cut, faults>>

SweepStep(w) ==
  \/ Begin(w)
  \/ Sync(w)
  \/ Decide(w)
  \/ Conclude(w)
  \/ Create(w)
  \/ Mark(w)
  \/ EndWave(w)

Next ==
  \/ InsertTargets \/ InsertFails
  \/ \E w \in Sweep :
       \/ SweepStep(w)
       \/ CreateFails(w)
       \/ Abandon(w)
  \/ Crash
  \/ \E g \in Gateway : Settle(g)
  \/ OperatorReads
  \/ OperatorWrites
  \/ DeleteRelease

Spec == Init /\ [][Next]_vars

\* Sweeps run and come back, and jobs settle (OtaJob's Settles).
FairSpec ==
  /\ Spec
  /\ \A w \in Sweep : WF_vars(SweepStep(w))
  /\ \A g \in Gateway : WF_vars(Settle(g))

---------------------------------------------------------------------------
\* By what the gateways did, whatever the rows say.
Acked == {g \in Gateway : \E j \in DOMAIN jobs[g] : jobs[g][j] = "ack"}
Healthy(b) ==
  /\ b = 0 => Members[b] \subseteq Acked
  /\ Cardinality(Members[b] \ Acked) * 100 <= FailureThresholdPct * Total(b)

AllHealthy == \A b \in Batches : Healthy(b)
MayExpose(g) == \A b \in Batches : b < BatchIndex[g] => Healthy(b)

(***************************************************************************)
(* "The whole point is that each wave's result is known before the next one  *)
(* is exposed" (rollout.ts:73-75): a gateway is given the image only when    *)
(* every canary, and all but the tolerated share of every earlier wave, has  *)
(* acknowledged it.                                                          *)
(***************************************************************************)
WaveGate == \A g \in Gateway : jobs[g] # <<>> => MayExpose(g)

(***************************************************************************)
(* "so a rollout whose LAST batch failed does not report itself complete"    *)
(* (rollout.ts:107-108): completed means every wave came out healthy - also  *)
(* for a rollout that was cut short, paused, or started by a request that    *)
(* read it before.  Not for one a sweep came to before its targets: nothing  *)
(* to do is done (rollout.ts:83), and createRollout may leave it like that.  *)
(***************************************************************************)
CompletedHonest == status = "completed" => early \/ AllHealthy

(***************************************************************************)
(* "Two replicas would otherwise publish the same job twice"                 *)
(* (manager.ts:33-34): without overlapping sweeps and steps cut short, a     *)
(* gateway is sent the image by one job only, however the operator starts,   *)
(* pauses and restarts the rollout.                                          *)
(***************************************************************************)
OneJob == cut \/ \A g \in Gateway : Len(jobs[g]) <= 1

(***************************************************************************)
(* Rule 4 (rollout.ts:80): a running rollout goes on to the next batch until *)
(* it is done, halts or is paused; it does not stay running for ever.        *)
(***************************************************************************)
Finishes == status = "running" ~> status # "running"

(***************************************************************************)
(* Why WaveGate holds: what the rows and a sweep's findings call acked was   *)
(* acked, and the wave a sweep is dispatching may be exposed - also when the *)
(* rows have moved on since the sweep read them, because acks are for ever.  *)
(***************************************************************************)
RowsAcked == \A g \in Gateway : target[g].status = "ack" => g \in Acked
FindingsAcked ==
  \A w \in Sweep : sweep[w].pc = "sync" =>
    \A x \in sweep[w].found : x[2] = "ack" => x[1] \in Acked
DispatchMayExpose ==
  \A w \in Sweep : sweep[w].pc \in {"dispatch", "mark"} =>
    \A g \in sweep[w].todo : MayExpose(g)
WaveInv == TypeOK /\ RowsAcked /\ FindingsAcked /\ DispatchMayExpose /\ WaveGate

(***************************************************************************)
(* Why CompletedHonest holds: a sweep that will complete the rollout has     *)
(* seen every wave settled and healthy, or no targets.                       *)
(***************************************************************************)
DoneHealthy == \A w \in Sweep : sweep[w].pc = "done" => early \/ AllHealthy
CompletedInv == WaveInv /\ DoneHealthy /\ CompletedHonest

\* Finishes, as long as no step is cut short; the operator's changes are bounded,
\* so one that ends has ended for good.
FinishesUncut == <>[](status # "running" \/ cut)

=============================================================================
