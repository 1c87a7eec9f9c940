------------------------- MODULE Services_proofs -------------------------
(***************************************************************************)
(* Theorems about the services.  First the rollouts, whose module Services   *)
(* extends, for every fleet, canary, batch size and threshold, any number of *)
(* overlapping sweeps, operator changes, failed statements and process ends; *)
(* then the components that are instanced; last the types of all of them.    *)
(***************************************************************************)
EXTENDS Services, FiniteSetTheorems, SequenceTheorems, WellFoundedInduction, TLAPS

---------------------------------------------------------------------------
\* A sweep that becomes another state leaves the others alone.
LEMMA BecomesType ==
  ASSUME TypeOK, NEW w \in Sweep, NEW state \in SweepState, Becomes(w, state)
  PROVE  /\ sweep' \in [Sweep -> SweepState]
         /\ sweep'[w] = state
         /\ \A v \in Sweep : v # w => sweep'[v] = sweep[v]
BY DEF TypeOK, Becomes

\* The states a sweep moves to are states.
LEMMA StateType ==
  ASSUME TypeOK, NEW w \in Sweep
  PROVE  /\ Idle \in SweepState
         /\ sweep[w] \in SweepState
BY OtaRolloutAssumption DEF TypeOK, Idle, SweepState

\* The gateway and job of a state are any, or none.
LEMMA StateFieldsType ==
  /\ 0 \in 0..N /\ 0 \in Nat
  /\ \A g \in Gateway : g \in 0..N
BY OtaRolloutAssumption DEF Gateway

\* A new job is one more, and open.
LEMMA CreateType ==
  ASSUME TypeOK, NEW g \in Gateway, jobs' = [jobs EXCEPT ![g] = Append(@, "open")]
  PROVE  /\ jobs' \in [Gateway -> Seq(JobStatus)]
         /\ Len(jobs'[g]) = Len(jobs[g]) + 1
         /\ \A h \in Gateway : h # g => jobs'[h] = jobs[h]
         /\ \A h \in Gateway : Len(jobs'[h]) >= Len(jobs[h])
         /\ \A h \in Gateway : \A j \in 1..Len(jobs[h]) : jobs'[h][j] = jobs[h][j]
<1>1. jobs \in [Gateway -> Seq(JobStatus)] /\ jobs[g] \in Seq(JobStatus)
  BY DEF TypeOK, JobStatus
<1>2. jobs'[g] = Append(jobs[g], "open") /\ \A h \in Gateway : h # g => jobs'[h] = jobs[h]
  BY <1>1
<1>3. /\ Append(jobs[g], "open") \in Seq(JobStatus)
      /\ Len(Append(jobs[g], "open")) = Len(jobs[g]) + 1
      /\ \A j \in 1..Len(jobs[g]) : Append(jobs[g], "open")[j] = jobs[g][j]
  BY <1>1, AppendProperties DEF JobStatus
<1>4. \A h \in Gateway : Len(jobs[h]) \in Nat
  BY <1>1, LenProperties
<1>5. QED
  BY <1>1, <1>2, <1>3, <1>4

\* A job that settles keeps its place.
LEMMA SettleType ==
  ASSUME TypeOK, NEW g \in Gateway, NEW j \in DOMAIN jobs[g], NEW o \in Outcome,
         jobs' = [jobs EXCEPT ![g][j] = o]
  PROVE  /\ jobs' \in [Gateway -> Seq(JobStatus)]
         /\ \A h \in Gateway : Len(jobs'[h]) = Len(jobs[h])
         /\ \A h \in Gateway : \A k \in 1..Len(jobs[h]) :
              jobs'[h][k] = jobs[h][k] \/ (h = g /\ k = j)
<1>1. jobs \in [Gateway -> Seq(JobStatus)] /\ jobs[g] \in Seq(JobStatus)
  BY DEF TypeOK, JobStatus
<1>2. jobs'[g] = [jobs[g] EXCEPT ![j] = o] /\ \A h \in Gateway : h # g => jobs'[h] = jobs[h]
  BY <1>1
<1>3. DOMAIN jobs[g] = 1..Len(jobs[g])
  BY <1>1, LenProperties
<1>4. /\ [jobs[g] EXCEPT ![j] = o] \in Seq(JobStatus)
      /\ Len([jobs[g] EXCEPT ![j] = o]) = Len(jobs[g])
  BY <1>1, <1>3, ExceptSeq DEF JobStatus
<1>5. \A k \in 1..Len(jobs[g]) : [jobs[g] EXCEPT ![j] = o][k] = jobs[g][k] \/ k = j
  BY <1>3
<1>6. QED
  BY <1>1, <1>2, <1>4, <1>5

\* The lengths of the lists of jobs are numbers.
LEMMA LenType ==
  ASSUME TypeOK
  PROVE  \A g \in Gateway : Len(jobs[g]) \in Nat
BY LenProperties DEF TypeOK

(***************************************************************************)
(* Targets and sweeps keep naming jobs while lists of jobs only grow: what   *)
(* is left to show of a step is that the rows and the states it writes do.   *)
(***************************************************************************)
LEMMA NamesKept ==
  ASSUME TypeOK,
         \A g \in Gateway : Len(jobs'[g]) \in Nat /\ Len(jobs'[g]) >= Len(jobs[g]),
         \A g \in Gateway :
           \/ target'[g] = target[g]
           \/ /\ target'[g].job \in Nat /\ target'[g].job <= Len(jobs'[g])
              /\ target'[g].status = "sent" => target'[g].job > 0,
         \A w \in Sweep :
           \/ sweep'[w] = sweep[w]
           \/ sweep'[w].pc # "mark"
           \/ /\ sweep'[w].gateway \in Gateway
              /\ sweep'[w].job \in 1..Len(jobs'[sweep'[w].gateway])
  PROVE  TargetsNameJobs' /\ SweepsNameJobs'
<1>1. TargetsNameJobs'
  <2> SUFFICES ASSUME NEW g \in Gateway
               PROVE  /\ target'[g].job <= Len(jobs'[g])
                      /\ target'[g].status = "sent" => target'[g].job > 0
    BY DEF TargetsNameJobs
  <2>1. CASE target'[g] = target[g]
    <3>1. target[g].job \in Nat
      BY DEF TypeOK, Target
    <3>2. target[g].job <= Len(jobs[g]) /\ (target[g].status = "sent" => target[g].job > 0)
      BY DEF TypeOK, TargetsNameJobs
    <3>3. QED
      BY <2>1, <3>1, <3>2, LenType
  <2>2. QED
    BY <2>1
<1>2. SweepsNameJobs'
  <2> SUFFICES ASSUME NEW w \in Sweep, sweep'[w].pc = "mark"
               PROVE  /\ sweep'[w].gateway \in Gateway
                      /\ sweep'[w].job \in 1..Len(jobs'[sweep'[w].gateway])
    BY DEF SweepsNameJobs
  <2>1. CASE sweep'[w] = sweep[w]
    <3>1. sweep[w].gateway \in Gateway /\ sweep[w].job \in 1..Len(jobs[sweep[w].gateway])
      BY <2>1 DEF TypeOK, SweepsNameJobs
    <3>2. QED
      BY <2>1, <3>1, LenType
  <2>2. QED
    BY <2>1
<1>3. QED
  BY <1>1, <1>2

\* A step that leaves the jobs alone: its targets and its sweep's new state count.
LEMMA QuietType ==
  ASSUME TypeOK, UNCHANGED jobs,
         target' \in [Gateway -> Target],
         \A g \in Gateway : target'[g] # target[g] =>
            /\ target'[g].job <= Len(jobs[g])
            /\ target'[g].status = "sent" => target'[g].job > 0,
         NEW w \in Sweep, NEW state \in SweepState, Becomes(w, state),
         state.pc # "mark"
  PROVE  sweep' \in [Sweep -> SweepState] /\ TargetsNameJobs' /\ SweepsNameJobs'
<1>1. sweep' \in [Sweep -> SweepState] /\ sweep'[w] = state
      /\ \A v \in Sweep : v # w => sweep'[v] = sweep[v]
  BY BecomesType
<1>2. \A g \in Gateway : Len(jobs'[g]) \in Nat /\ Len(jobs'[g]) >= Len(jobs[g])
  BY LenType
<1>3. \A g \in Gateway : target'[g].job \in Nat
  BY DEF Target
<1>4. TargetsNameJobs' /\ SweepsNameJobs'
  <2>1. \A g \in Gateway :
           \/ target'[g] = target[g]
           \/ /\ target'[g].job \in Nat /\ target'[g].job <= Len(jobs'[g])
              /\ target'[g].status = "sent" => target'[g].job > 0
    BY <1>3
  <2>2. \A v \in Sweep : sweep'[v] = sweep[v] \/ sweep'[v].pc # "mark"
    BY <1>1
  <2>3. QED
    BY <1>2, <2>1, <2>2, NamesKept
<1>5. QED
  BY <1>1, <1>4

\* Overwriting a target's status by an outcome.
LEMMA OutcomeType ==
  ASSUME TypeOK, NEW g \in Gateway, NEW o \in Outcome,
         target' = [target EXCEPT ![g].status = o]
  PROVE  /\ target' \in [Gateway -> Target]
         /\ target'[g].status = o
         /\ \A h \in Gateway : target'[h].job = target[h].job
         /\ \A h \in Gateway : h # g => target'[h] = target[h]
         /\ \A h \in Gateway : target'[h] # target[h] =>
               /\ target'[h].job <= Len(jobs[h])
               /\ target'[h].status = "sent" => target'[h].job > 0
<1>1. target \in [Gateway -> Target] /\ target[g] \in Target
  BY DEF TypeOK
<1>2. target'[g] = [target[g] EXCEPT !.status = o] /\ \A h \in Gateway : h # g => target'[h] = target[h]
  BY <1>1
<1>3. [target[g] EXCEPT !.status = o] \in Target /\ [target[g] EXCEPT !.status = o].job = target[g].job
      /\ [target[g] EXCEPT !.status = o].status = o
  BY <1>1 DEF Target
<1>4. target' \in [Gateway -> Target]
  BY <1>1, <1>3
<1>5. o # "sent"
  BY DEF Outcome
<1>6. target[g].job <= Len(jobs[g])
  BY DEF TypeOK, TargetsNameJobs
<1>7. QED
  BY <1>2, <1>3, <1>4, <1>5, <1>6

---------------------------------------------------------------------------
\* The initial rows and sweeps are well typed.
LEMMA TypeInit == Init => TypeOK
<1> SUFFICES ASSUME Init PROVE TypeOK
  OBVIOUS
<1>1. jobs \in [Gateway -> Seq(JobStatus)] /\ \A g \in Gateway : Len(jobs[g]) = 0
  BY EmptySeq DEF Init
<1>2. sweep \in [Sweep -> SweepState] /\ \A w \in Sweep : sweep[w].pc = "idle"
  BY OtaRolloutAssumption DEF Init, Idle, SweepState
<1>3. target \in [Gateway -> Target]
      /\ \A g \in Gateway : target[g].job = 0 /\ target[g].status = "pending"
  BY DEF Init, Target
<1>4. status \in RolloutStatus
  BY OtaRolloutAssumption DEF Init, RolloutStatus
<1>5. TargetsNameJobs /\ SweepsNameJobs
  BY <1>1, <1>2, <1>3 DEF TargetsNameJobs, SweepsNameJobs
<1>6. ops \in 0..MaxOps /\ faults \in 0..MaxFaults
  BY OtaRolloutAssumption DEF Init
<1>7. /\ planned \in {"no", "yes", "never"} /\ released \in BOOLEAN /\ operator \in BOOLEAN
      /\ early \in BOOLEAN /\ cut \in BOOLEAN
  BY Zenon DEF Init
<1>8. QED
  BY <1>1, <1>2, <1>3, <1>4, <1>5, <1>6, <1>7 DEF TypeOK

\* Every step leaves them well typed.
LEMMA TypeStep == TypeOK /\ [Next]_vars => TypeOK'
<1> SUFFICES ASSUME TypeOK, [Next]_vars PROVE TypeOK'
  OBVIOUS
<1> USE DEF bounds
\* Steps that change neither targets, jobs nor sweeps.
<1>0. ASSUME UNCHANGED <<target, jobs, sweep>> PROVE TargetsNameJobs' /\ SweepsNameJobs'
  BY <1>0 DEF TypeOK, TargetsNameJobs, SweepsNameJobs
<1>1. CASE InsertTargets \/ InsertFails
  <2>1. CASE InsertTargets
    BY <1>0, <2>1 DEF InsertTargets, TypeOK
  <2>2. CASE InsertFails
    <3>1. faults' \in 0..MaxFaults
      BY <2>2, OtaRolloutAssumption DEF InsertFails, TypeOK
    <3>2. QED
      BY <1>0, <2>2, <3>1 DEF InsertFails, TypeOK
  <2>3. QED
    BY <1>1, <2>1, <2>2
<1>2. ASSUME NEW w \in Sweep, Begin(w) PROVE TypeOK'
  <2> DEFINE found == {x \in Gateway \X Outcome :
                         /\ target[x[1]].status = "sent"
                         /\ jobs[x[1]][target[x[1]].job] = x[2]}
             state == [Idle EXCEPT !.pc = "sync", !.found = found]
  <2>1. state \in SweepState /\ state.pc # "mark"
    BY StateType DEF SweepState, Idle
  <2>2. Becomes(w, state) /\ UNCHANGED <<status, planned, target, jobs, released, operator, bounds>>
    BY <1>2 DEF Begin
  <2> HIDE DEF state
  <2>3. QED
    BY <2>1, <2>2, QuietType DEF TypeOK
<1>3. ASSUME NEW w \in Sweep, Sync(w) PROVE TypeOK'
  <2>1. PICK x \in sweep[w].found :
          /\ target' = [target EXCEPT ![x[1]].status = x[2]]
          /\ Becomes(w, [sweep[w] EXCEPT !.found = @ \ {x}])
    BY <1>3 DEF Sync
  <2>2. x[1] \in Gateway /\ x[2] \in Outcome
    BY StateType DEF SweepState
  <2> DEFINE state == [sweep[w] EXCEPT !.found = @ \ {x}]
  <2>3. state \in SweepState /\ state.pc # "mark"
    BY <1>3, StateType DEF SweepState, Sync
  <2>4. Becomes(w, state)
    BY <2>1
  <2> HIDE DEF state
  <2>5. QED
    BY <1>3, <2>1, <2>2, <2>3, <2>4, OutcomeType, QuietType DEF Sync, TypeOK
<1>4. ASSUME NEW w \in Sweep, Decide(w) PROVE TypeOK'
  <2>0. early' \in BOOLEAN
    BY <1>4, Zenon DEF Decide
  <2>1. ASSUME NEW state \in SweepState, Becomes(w, state), state.pc # "mark" PROVE TypeOK'
    BY <1>4, <2>0, <2>1, QuietType DEF Decide, TypeOK
  <2>2. /\ [Idle EXCEPT !.pc = "done"] \in SweepState
        /\ [Idle EXCEPT !.pc = "halt"] \in SweepState
        /\ \A b \in Batches : [Idle EXCEPT !.pc = "dispatch", !.todo = Members[b]] \in SweepState
    BY StateType DEF SweepState, Idle, Members
  <2>3. /\ Idle.pc # "mark"
        /\ [Idle EXCEPT !.pc = "done"].pc # "mark"
        /\ [Idle EXCEPT !.pc = "halt"].pc # "mark"
        /\ \A b \in Batches : [Idle EXCEPT !.pc = "dispatch", !.todo = Members[b]].pc # "mark"
    BY DEF Idle
  <2>4. \E state \in SweepState : Becomes(w, state) /\ state.pc # "mark"
    <3>1. CASE Becomes(w, [Idle EXCEPT !.pc = "done"])
      BY <2>2, <2>3, <3>1
    <3>2. CASE Becomes(w, [Idle EXCEPT !.pc = "halt"])
      BY <2>2, <2>3, <3>2
    <3>3. CASE Becomes(w, Idle)
      BY <2>3, <3>3, StateType
    <3>4. CASE \E b \in Batches :
                 Becomes(w, [Idle EXCEPT !.pc = "dispatch", !.todo = Members[b]])
      BY <2>2, <2>3, <3>4
    <3>5. QED
      BY <1>4, <3>1, <3>2, <3>3, <3>4, Zenon DEF Decide, FirstStop
  <2>5. QED
    BY <2>1, <2>4
<1>5. ASSUME NEW w \in Sweep, Conclude(w) PROVE TypeOK'
  <2>1. Idle.pc # "mark" /\ status' \in RolloutStatus
    BY <1>5 DEF Idle, Conclude, RolloutStatus
  <2>2. QED
    BY <1>5, <2>1, StateType, QuietType DEF Conclude, TypeOK
<1>6. ASSUME NEW w \in Sweep, Create(w) PROVE TypeOK'
  <2> DEFINE state(g) == [sweep[w] EXCEPT !.pc = "mark", !.todo = @ \ {g},
                                          !.gateway = g, !.job = Len(jobs[g]) + 1]
  <2>1. PICK g \in NextOf(w) :
          jobs' = [jobs EXCEPT ![g] = Append(@, "open")] /\ Becomes(w, state(g))
    BY <1>6 DEF Create
  <2>2. g \in Gateway /\ Len(jobs[g]) \in Nat
    BY StateType, LenType DEF NextOf, SweepState
  <2>3. /\ state(g) \in SweepState
        /\ state(g).gateway = g /\ state(g).job = Len(jobs[g]) + 1
    <3>1. g \in 0..N /\ Len(jobs[g]) + 1 \in Nat
      BY <2>2, StateFieldsType
    <3>2. sweep[w] \in SweepState
      BY StateType
    <3>3. QED
      BY <3>1, <3>2 DEF SweepState
  <2> HIDE DEF state
  <2>4. /\ sweep' \in [Sweep -> SweepState] /\ sweep'[w] = state(g)
        /\ \A v \in Sweep : v # w => sweep'[v] = sweep[v]
    BY <2>1, <2>3, BecomesType
  <2>5. /\ jobs' \in [Gateway -> Seq(JobStatus)]
        /\ Len(jobs'[g]) = Len(jobs[g]) + 1
        /\ \A h \in Gateway : Len(jobs'[h]) >= Len(jobs[h])
    BY <2>1, <2>2, CreateType
  <2>6. \A h \in Gateway : Len(jobs'[h]) \in Nat
    BY <2>5, LenProperties
  <2>7. sweep'[w].gateway \in Gateway /\ sweep'[w].job \in 1..Len(jobs'[sweep'[w].gateway])
    BY <2>2, <2>3, <2>4, <2>5
  <2>8. UNCHANGED target
    BY <1>6 DEF Create
  <2>9. TargetsNameJobs' /\ SweepsNameJobs'
    BY <2>4, <2>5, <2>6, <2>7, <2>8, NamesKept
  <2>10. QED
    BY <1>6, <2>4, <2>5, <2>9 DEF Create, TypeOK
<1>7. ASSUME NEW w \in Sweep, Mark(w) PROVE TypeOK'
  <2> DEFINE g == sweep[w].gateway
             state == [sweep[w] EXCEPT !.pc = "dispatch", !.gateway = 0, !.job = 0]
  <2>1. state \in SweepState /\ state.pc # "mark"
    BY StateType, StateFieldsType DEF SweepState
  <2>2. g \in Gateway /\ sweep[w].job \in 1..Len(jobs[g])
    BY <1>7 DEF Mark, TypeOK, SweepsNameJobs
  <2>3. Marked(w) \in Target /\ Marked(w).job = sweep[w].job
    BY <2>2, LenType DEF Target, Marked
  <2>4. /\ target' \in [Gateway -> Target] /\ target'[g] = Marked(w)
        /\ \A h \in Gateway : h # g => target'[h] = target[h]
    BY <1>7, <2>2, <2>3 DEF Mark, TypeOK
  <2>5. \A h \in Gateway : target'[h] # target[h] =>
          /\ target'[h].job <= Len(jobs[h])
          /\ target'[h].status = "sent" => target'[h].job > 0
    BY <2>2, <2>3, <2>4, LenType
  <2>6. Becomes(w, state) /\ UNCHANGED <<status, planned, jobs, released, operator, bounds>>
    BY <1>7 DEF Mark
  <2> HIDE DEF state, g
  <2>7. QED
    BY <2>1, <2>4, <2>5, <2>6, QuietType DEF TypeOK
<1>8. ASSUME NEW w \in Sweep, CreateFails(w) PROVE TypeOK'
  <2>1. faults' \in 0..MaxFaults
    BY <1>8, OtaRolloutAssumption DEF CreateFails, TypeOK
  <2>2. ASSUME NEW g \in Gateway, FailedToCreate(g), NEW state \in SweepState,
               Becomes(w, state), state.pc = "dispatch"
        PROVE  TypeOK'
    <3>1. target' = [target EXCEPT ![g].status = "failed"] /\ "failed" \in Outcome
      BY <2>2 DEF FailedToCreate, Outcome
    <3>2. state.pc # "mark"
      BY <2>2
    <3>3. QED
      BY <1>8, <2>1, <2>2, <3>1, <3>2, OutcomeType, QuietType DEF CreateFails, TypeOK
  <2>3. CASE sweep[w].pc = "dispatch"
    <3>1. PICK g \in NextOf(w) :
            FailedToCreate(g) /\ Becomes(w, [sweep[w] EXCEPT !.todo = @ \ {g}])
      BY <1>8, <2>3 DEF CreateFails
    <3>2. g \in Gateway
      BY StateType DEF NextOf, SweepState
    <3>3. /\ [sweep[w] EXCEPT !.todo = @ \ {g}] \in SweepState
          /\ [sweep[w] EXCEPT !.todo = @ \ {g}].pc = "dispatch"
      BY <2>3, StateType DEF SweepState
    <3>4. QED
      BY <2>2, <3>1, <3>2, <3>3
  <2>4. CASE sweep[w].pc = "mark"
    <3>1. /\ [sweep[w] EXCEPT !.pc = "dispatch", !.gateway = 0, !.job = 0] \in SweepState
          /\ [sweep[w] EXCEPT !.pc = "dispatch", !.gateway = 0, !.job = 0].pc = "dispatch"
      BY StateType, StateFieldsType DEF SweepState
    <3>2. sweep[w].gateway \in Gateway
      BY <2>4 DEF TypeOK, SweepsNameJobs
    <3>3. QED
      BY <1>8, <2>2, <2>4, <3>1, <3>2 DEF CreateFails
  <2>5. QED
    BY <1>8, <2>3, <2>4 DEF CreateFails
<1>9. ASSUME NEW w \in Sweep, EndWave(w) PROVE TypeOK'
  <2>1. Idle.pc # "mark"
    BY DEF Idle
  <2>2. QED
    BY <1>9, <2>1, StateType, QuietType DEF EndWave, TypeOK
<1>10. ASSUME NEW w \in Sweep, Abandon(w) PROVE TypeOK'
  <2>1. faults' \in 0..MaxFaults /\ Idle.pc # "mark"
    BY <1>10, OtaRolloutAssumption DEF Abandon, TypeOK, Idle
  <2>2. QED
    BY <1>10, <2>1, StateType, QuietType DEF Abandon, TypeOK
<1>11. CASE Crash
  <2>1. faults' \in 0..MaxFaults
    BY <1>11, OtaRolloutAssumption DEF Crash, TypeOK
  <2>2. sweep' \in [Sweep -> SweepState] /\ \A w \in Sweep : sweep'[w].pc = "idle"
    BY <1>11, StateType, OtaRolloutAssumption DEF Crash, Idle, SweepState
  <2>3. SweepsNameJobs'
    BY <2>2 DEF SweepsNameJobs
  <2>4. TargetsNameJobs' /\ planned' \in {"no", "yes", "never"}
    BY <1>11 DEF Crash, TypeOK, TargetsNameJobs, PlannedCut
  <2>5. QED
    BY <1>11, <2>1, <2>2, <2>3, <2>4 DEF Crash, TypeOK
<1>12. ASSUME NEW g \in Gateway, Settle(g) PROVE TypeOK'
  <2>1. PICK j \in DOMAIN jobs[g] : \E o \in Outcome : jobs' = [jobs EXCEPT ![g][j] = o]
    BY <1>12 DEF Settle
  <2>2. /\ jobs' \in [Gateway -> Seq(JobStatus)]
        /\ \A h \in Gateway : Len(jobs'[h]) = Len(jobs[h])
    BY <2>1, SettleType
  <2>3. TargetsNameJobs' /\ SweepsNameJobs'
    BY <1>12, <2>2 DEF Settle, TypeOK, TargetsNameJobs, SweepsNameJobs
  <2>4. QED
    BY <1>12, <2>2, <2>3 DEF Settle, TypeOK
<1>13. CASE OperatorReads
  <2>1. ops' \in 0..MaxOps
    BY <1>13, OtaRolloutAssumption DEF OperatorReads, TypeOK
  <2>2. QED
    BY <1>0, <1>13, <2>1 DEF OperatorReads, TypeOK
<1>14. CASE OperatorWrites
  BY <1>0, <1>14 DEF OperatorWrites, TypeOK, RolloutStatus
<1>15. CASE DeleteRelease
  <2>1. ops' \in 0..MaxOps
    BY <1>15, OtaRolloutAssumption DEF DeleteRelease, TypeOK
  <2>2. QED
    BY <1>0, <1>15, <2>1 DEF DeleteRelease, TypeOK
<1>16. CASE UNCHANGED vars
  BY <1>0, <1>16 DEF vars, TypeOK
<1>17. QED
  BY <1>1, <1>2, <1>3, <1>4, <1>5, <1>6, <1>7, <1>8, <1>9, <1>10, <1>11, <1>12,
     <1>13, <1>14, <1>15, <1>16 DEF Next, SweepStep

(***************************************************************************)
(* The rows, the jobs and the sweeps stay within their types; in particular  *)
(* a target that is sent names a job of its gateway.                         *)
(***************************************************************************)
THEOREM RolloutTypeCorrect == Spec => []TypeOK
BY TypeInit, TypeStep, PTL DEF Spec

---------------------------------------------------------------------------
\* The batches are finite sets.
LEMMA BatchFinite ==
  ASSUME NEW b \in Batches, NEW Those \in SUBSET Members[b]
  PROVE  /\ IsFiniteSet(Members[b]) /\ Total(b) \in Nat
         /\ IsFiniteSet(Those) /\ Cardinality(Those) \in Nat
<1>1. IsFiniteSet(Gateway)
  BY FS_Interval, OtaRolloutAssumption DEF Gateway
<1>2. Members[b] \in SUBSET Gateway
  BY DEF Members
<1>3. IsFiniteSet(Members[b])
  BY <1>1, <1>2, FS_Subset
<1>4. IsFiniteSet(Those)
  BY <1>3, FS_Subset
<1>5. QED
  BY <1>3, <1>4, FS_CardinalityType DEF Total

LEMMA TotalType ==
  ASSUME NEW b \in Batches
  PROVE  Total(b) \in Nat /\ FailureThresholdPct * Total(b) \in Int
<1>1. {} \in SUBSET Members[b]
  OBVIOUS
<1>2. Total(b) \in Nat
  BY <1>1, BatchFinite
<1>3. QED
  BY <1>2, OtaRolloutAssumption

(***************************************************************************)
(* Acks are for ever, so a batch that is healthy stays healthy.              *)
(***************************************************************************)
LEMMA HealthyStays ==
  ASSUME Acked \subseteq Acked', NEW b \in Batches, Healthy(b)
  PROVE  Healthy(b)'
<1> DEFINE Those == Members[b] \ Acked
           T == Members[b] \ Acked'
<1>1. IsFiniteSet(Those) /\ Cardinality(Those) \in Nat /\ Cardinality(T) \in Nat /\ Total(b) \in Nat
  BY BatchFinite
<1>2. T \in SUBSET Those
  OBVIOUS
<1>3. Cardinality(T) <= Cardinality(Those)
  BY <1>1, <1>2, FS_Subset
<1>4. Cardinality(Those) * 100 <= FailureThresholdPct * Total(b)
  BY DEF Healthy
<1>5. Cardinality(T) * 100 <= FailureThresholdPct * Total(b)
  <2>1. \A m, n \in Nat : \A p \in Int : m <= n /\ n * 100 <= p => m * 100 <= p
    OBVIOUS
  <2>2. FailureThresholdPct * Total(b) \in Int
    BY <1>1, OtaRolloutAssumption
  <2> HIDE DEF Those, T
  <2>3. QED
    BY <1>1, <1>3, <1>4, <2>1, <2>2
<1>6. (b = 0 => Members[b] \subseteq Acked')
  BY DEF Healthy
<1>7. Total(b)' = Total(b)
  BY DEF Total, Members, Batches, BatchIndex, Canary, Gateway
<1>8. QED
  BY <1>5, <1>6, <1>7 DEF Healthy

(***************************************************************************)
(* nextAction's verdict on a batch, read off the target rows, is borne out   *)
(* by what its gateways did.                                                 *)
(***************************************************************************)
LEMMA HealthyByRows ==
  ASSUME TypeOK, RowsAcked, NEW b \in Batches, ~HoldsUp(b)
  PROVE  Healthy(b)
<1> DEFINE With(s) == {g \in Members[b] : target[g].status = s}
<1>1. \A s : With(s) \in SUBSET Members[b] /\ Count(b, s) = Cardinality(With(s))
  BY DEF Count
<1>2. \A s : IsFiniteSet(With(s)) /\ Count(b, s) \in Nat
  BY <1>1, BatchFinite
<1> HIDE DEF With
<1>3. ~Unsettled(b) /\ ~Bad(b)
  BY DEF HoldsUp
<1>4. Count(b, "pending") = 0 /\ Count(b, "sent") = 0
  BY <1>2, <1>3 DEF Unsettled
<1>5. With("pending") = {} /\ With("sent") = {}
  BY <1>1, <1>2, <1>4, FS_EmptySet
<1>6. \A g \in Members[b] : target[g].status = "failed" \/ g \in Acked
  <2> SUFFICES ASSUME NEW g \in Members[b] PROVE target[g].status = "failed" \/ g \in Acked
    OBVIOUS
  <2>1. g \in Gateway
    BY DEF Members
  <2>2. target[g].status \in {"pending", "sent", "ack", "failed"}
    BY <2>1 DEF TypeOK, Target, Outcome
  <2>3. target[g].status # "pending" /\ target[g].status # "sent"
    BY <1>5 DEF With
  <2>4. QED
    BY <2>1, <2>2, <2>3 DEF RowsAcked
<1>7. Members[b] \ Acked \in SUBSET With("failed")
  BY <1>6 DEF With
<1>8. Cardinality(Members[b] \ Acked) <= Count(b, "failed")
  BY <1>1, <1>2, <1>7, FS_Subset
<1>9. b = 0 => Members[b] \subseteq Acked
  <2> SUFFICES ASSUME b = 0 PROVE Members[b] \subseteq Acked
    OBVIOUS
  <2>1. Count(b, "failed") = 0
    BY <1>2, <1>3 DEF Bad
  <2>2. With("failed") = {}
    BY <1>1, <1>2, <2>1, FS_EmptySet
  <2>3. QED
    BY <1>7, <2>2
<1>10. Count(b, "failed") * 100 <= FailureThresholdPct * Total(b)
  <2>1. Total(b) \in Nat /\ FailureThresholdPct * Total(b) \in Int
    BY TotalType
  <2>2. ~(Count(b, "failed") * 100 > FailureThresholdPct * Total(b))
    BY <1>3 DEF Bad
  <2>3. \A m \in Nat : \A p \in Int : ~(m * 100 > p) => m * 100 <= p
    OBVIOUS
  <2>4. QED
    BY <1>2, <2>1, <2>2, <2>3
<1>11. Cardinality(Members[b] \ Acked) * 100 <= FailureThresholdPct * Total(b)
  <2>1. \A m, n \in Nat : \A p \in Int : m <= n /\ n * 100 <= p => m * 100 <= p
    OBVIOUS
  <2>2. FailureThresholdPct * Total(b) \in Int
    BY TotalType
  <2>3. Cardinality(Members[b] \ Acked) \in Nat
    BY BatchFinite
  <2>4. QED
    BY <1>2, <1>8, <1>10, <2>1, <2>2, <2>3
<1>12. QED
  BY <1>9, <1>11 DEF Healthy

\* The gateways of a batch may be exposed once no earlier batch holds up.
LEMMA FirstStopMayExpose ==
  ASSUME TypeOK, RowsAcked, NEW b \in FirstStop, NEW g \in Members[b]
  PROVE  g \in Gateway /\ MayExpose(g)
<1>1. g \in Gateway /\ BatchIndex[g] = b
  BY DEF FirstStop, Members
<1>2. \A c \in Batches : c < b => Healthy(c)
  BY HealthyByRows DEF FirstStop
<1>3. QED
  BY <1>1, <1>2 DEF MayExpose

\* While acks only grow, so does what may be exposed.
LEMMA MayExposeStays ==
  ASSUME Acked \subseteq Acked'
  PROVE  /\ \A g \in Gateway : MayExpose(g) => MayExpose(g)'
         /\ AllHealthy => AllHealthy'
<1>1. \A b \in Batches : Healthy(b) => Healthy(b)'
  BY HealthyStays
<1>2. QED
  BY <1>1 DEF MayExpose, AllHealthy, Batches, BatchIndex, Canary, Gateway

---------------------------------------------------------------------------
\* Acked only grows: jobs are appended and settle once.
LEMMA AckedGrows ==
  ASSUME TypeOK, [Next]_vars
  PROVE  Acked \subseteq Acked'
<1>1. CASE UNCHANGED jobs
  BY <1>1 DEF Acked
<1>2. ASSUME \A g \in Gateway : /\ Len(jobs'[g]) >= Len(jobs[g])
                                /\ \A j \in 1..Len(jobs[g]) :
                                     jobs[g][j] = "ack" => jobs'[g][j] = "ack",
             jobs' \in [Gateway -> Seq(JobStatus)]
      PROVE  Acked \subseteq Acked'
  <2> SUFFICES ASSUME NEW g \in Acked PROVE g \in Acked'
    OBVIOUS
  <2>1. PICK j \in DOMAIN jobs[g] : jobs[g][j] = "ack"
    BY DEF Acked
  <2>2. g \in Gateway
    BY DEF Acked
  <2>3. /\ DOMAIN jobs[g] = 1..Len(jobs[g]) /\ Len(jobs[g]) \in Nat
        /\ DOMAIN jobs'[g] = 1..Len(jobs'[g]) /\ Len(jobs'[g]) \in Nat
    BY <1>2, <2>2, LenProperties DEF TypeOK
  <2>4. j \in DOMAIN jobs'[g] /\ jobs'[g][j] = "ack"
    BY <1>2, <2>1, <2>2, <2>3
  <2>5. QED
    BY <2>2, <2>4 DEF Acked
<1>3. ASSUME NEW w \in Sweep, Create(w) PROVE Acked \subseteq Acked'
  <2>1. PICK g \in NextOf(w) : jobs' = [jobs EXCEPT ![g] = Append(@, "open")]
    BY <1>3 DEF Create
  <2>2. g \in Gateway
    BY StateType DEF NextOf, SweepState
  <2>3. QED
    BY <1>2, <2>1, <2>2, CreateType
<1>4. ASSUME NEW g \in Gateway, Settle(g) PROVE Acked \subseteq Acked'
  <2>1. PICK j \in DOMAIN jobs[g] : /\ jobs[g][j] = "open"
                                    /\ \E o \in Outcome : jobs' = [jobs EXCEPT ![g][j] = o]
    BY <1>4 DEF Settle
  <2>2. PICK o \in Outcome : jobs' = [jobs EXCEPT ![g][j] = o]
    BY <2>1
  <2>3. \A h \in Gateway : \A k \in 1..Len(jobs[h]) :
          jobs[h][k] = "ack" => jobs'[h][k] = "ack"
    BY <2>1, <2>2, SettleType
  <2>4. \A h \in Gateway : Len(jobs'[h]) >= Len(jobs[h])
    BY <2>2, SettleType, LenType
  <2>5. jobs' \in [Gateway -> Seq(JobStatus)]
    BY <2>2, SettleType
  <2>6. QED
    BY <1>2, <2>3, <2>4, <2>5
<1>5. QED
  BY <1>1, <1>3, <1>4
     DEF Next, vars, SweepStep, InsertTargets, InsertFails, Begin, Sync, Decide, Conclude, Mark,
         CreateFails, EndWave, Abandon, Crash, OperatorReads, OperatorWrites, DeleteRelease

\* A sweep moves on: its new findings and its new wave count.
LEMMA SweepKeeps ==
  ASSUME TypeOK, FindingsAcked, DispatchMayExpose, Acked \subseteq Acked',
         NEW w \in Sweep, NEW state, Becomes(w, state),
         state.pc = "sync" => \A x \in state.found : x[2] = "ack" => x[1] \in Acked,
         state.pc \in {"dispatch", "mark"} => \A g \in state.todo : g \in Gateway /\ MayExpose(g)
  PROVE  FindingsAcked' /\ DispatchMayExpose'
<1>1. sweep'[w] = state /\ \A v \in Sweep : v # w => sweep'[v] = sweep[v]
  BY DEF TypeOK, Becomes
<1>2. FindingsAcked'
  <2> SUFFICES ASSUME NEW v \in Sweep, sweep'[v].pc = "sync",
                      NEW x \in sweep'[v].found, x[2] = "ack"
               PROVE  x[1] \in Acked'
    BY DEF FindingsAcked
  <2>1. x[1] \in Acked
    BY <1>1 DEF FindingsAcked
  <2>2. QED
    BY <2>1
<1>3. DispatchMayExpose'
  <2> SUFFICES ASSUME NEW v \in Sweep, sweep'[v].pc \in {"dispatch", "mark"},
                      NEW g \in sweep'[v].todo
               PROVE  MayExpose(g)'
    BY DEF DispatchMayExpose
  <2>1. \A u \in Sweep : sweep[u].todo \subseteq Gateway
    BY DEF TypeOK, SweepState
  <2>2. g \in Gateway /\ MayExpose(g)
    BY <1>1, <2>1 DEF DispatchMayExpose
  <2>3. QED
    BY <2>2, MayExposeStays
<1>4. QED
  BY <1>2, <1>3

\* Steps that leave the sweeps alone.
LEMMA SweepsRest ==
  ASSUME TypeOK, FindingsAcked, DispatchMayExpose, Acked \subseteq Acked', UNCHANGED sweep
  PROVE  FindingsAcked' /\ DispatchMayExpose'
<1>1. \A u \in Sweep : sweep[u].todo \subseteq Gateway
  BY DEF TypeOK, SweepState
<1>2. QED
  BY <1>1, MayExposeStays DEF FindingsAcked, DispatchMayExpose

\* A gateway that gets its first job may be exposed.
LEMMA JobsKeepGate ==
  ASSUME WaveGate, Acked \subseteq Acked',
         \A g \in Gateway : jobs'[g] # <<>> => jobs[g] # <<>> \/ MayExpose(g)
  PROVE  WaveGate'
<1>1. \A g \in Gateway : jobs'[g] # <<>> => MayExpose(g)
  BY DEF WaveGate
<1>2. \A g \in Gateway : jobs'[g] # <<>> => MayExpose(g)'
  BY <1>1, MayExposeStays
<1>3. QED
  BY <1>2 DEF WaveGate, Gateway

---------------------------------------------------------------------------
\* Every step keeps the reasons for WaveGate, and WaveGate.
LEMMA WaveStep == WaveInv /\ [Next]_vars => WaveInv'
<1> SUFFICES ASSUME WaveInv, [Next]_vars PROVE WaveInv'
  OBVIOUS
<1> DEFINE Rest == RowsAcked' /\ FindingsAcked' /\ DispatchMayExpose' /\ WaveGate'
<1>a. TypeOK /\ RowsAcked /\ FindingsAcked /\ DispatchMayExpose /\ WaveGate
  BY DEF WaveInv
<1>b. TypeOK' /\ Acked \subseteq Acked'
  BY <1>a, TypeStep, AckedGrows
\* What the parts need of a step.
<1>c. ASSUME UNCHANGED target PROVE RowsAcked'
  BY <1>a, <1>b, <1>c DEF RowsAcked
<1>d. ASSUME UNCHANGED jobs PROVE WaveGate'
  BY <1>a, <1>b, <1>d, JobsKeepGate
<1>e. ASSUME UNCHANGED sweep PROVE FindingsAcked' /\ DispatchMayExpose'
  BY <1>a, <1>b, <1>e, SweepsRest
<1>f. ASSUME NEW w \in Sweep, Becomes(w, Idle) PROVE FindingsAcked' /\ DispatchMayExpose'
  <2>1. Idle.pc = "idle"
    BY DEF Idle
  <2>2. QED
    BY <1>a, <1>b, <1>f, <2>1, SweepKeeps
<1>g. \A w \in Sweep : sweep[w].todo \subseteq Gateway /\ sweep[w] \in SweepState
  BY <1>a, StateType DEF SweepState
<1>1. CASE InsertTargets \/ InsertFails
  BY <1>1, <1>b, <1>c, <1>d, <1>e DEF InsertTargets, InsertFails, WaveInv
<1>2. ASSUME NEW w \in Sweep, Begin(w) PROVE Rest
  <2> DEFINE found == {x \in Gateway \X Outcome :
                         /\ target[x[1]].status = "sent"
                         /\ jobs[x[1]][target[x[1]].job] = x[2]}
             state == [Idle EXCEPT !.pc = "sync", !.found = found]
  <2>1. \A x \in found : x[2] = "ack" => x[1] \in Acked
    <3> SUFFICES ASSUME NEW x \in found, x[2] = "ack" PROVE x[1] \in Acked
      OBVIOUS
    <3>1. x[1] \in Gateway /\ target[x[1]].status = "sent"
          /\ jobs[x[1]][target[x[1]].job] = "ack"
      OBVIOUS
    <3>2. target[x[1]].job \in 1..Len(jobs[x[1]])
      BY <1>a, <3>1, LenType DEF TypeOK, TargetsNameJobs, Target
    <3>3. DOMAIN jobs[x[1]] = 1..Len(jobs[x[1]])
      BY <1>a, <3>1, LenProperties DEF TypeOK
    <3>4. QED
      BY <3>1, <3>2, <3>3 DEF Acked
  <2>2. state.pc = "sync" /\ state.found = found
    BY DEF Idle
  <2>3. Becomes(w, state)
    BY <1>2 DEF Begin
  <2> HIDE DEF state, found
  <2>4. FindingsAcked' /\ DispatchMayExpose'
    BY <1>a, <1>b, <2>1, <2>2, <2>3, SweepKeeps
  <2>5. QED
    BY <1>2, <1>c, <1>d, <2>4 DEF Begin
<1>3. ASSUME NEW w \in Sweep, Sync(w) PROVE Rest
  <2>1. PICK x \in sweep[w].found :
          /\ target' = [target EXCEPT ![x[1]].status = x[2]]
          /\ Becomes(w, [sweep[w] EXCEPT !.found = @ \ {x}])
    BY <1>3 DEF Sync
  <2>2. x[1] \in Gateway /\ x[2] \in Outcome
    BY <1>g DEF SweepState
  <2>3. x[2] = "ack" => x[1] \in Acked
    BY <1>3, <1>a DEF FindingsAcked, Sync
  <2>4. RowsAcked'
    BY <1>a, <1>b, <2>1, <2>2, <2>3, OutcomeType DEF RowsAcked
  <2> DEFINE state == [sweep[w] EXCEPT !.found = @ \ {x}]
  <2>5. state.pc = "sync" /\ state.found \subseteq sweep[w].found
    BY <1>3, <1>g DEF Sync, SweepState
  <2>6. Becomes(w, state)
    BY <2>1
  <2>7. \A y \in sweep[w].found : y[2] = "ack" => y[1] \in Acked
    BY <1>3, <1>a DEF FindingsAcked, Sync
  <2> HIDE DEF state
  <2>8. FindingsAcked' /\ DispatchMayExpose'
    BY <1>a, <1>b, <2>5, <2>6, <2>7, SweepKeeps
  <2>9. QED
    BY <1>3, <1>d, <2>4, <2>8 DEF Sync
<1>4. ASSUME NEW w \in Sweep, Decide(w) PROVE Rest
  <2>1. \/ Becomes(w, [Idle EXCEPT !.pc = "done"])
        \/ Becomes(w, [Idle EXCEPT !.pc = "halt"])
        \/ Becomes(w, Idle)
        \/ \E b \in FirstStop :
             Becomes(w, [Idle EXCEPT !.pc = "dispatch", !.todo = Members[b]])
    BY <1>4, Zenon DEF Decide
  <2>2. ASSUME NEW b \in FirstStop,
               Becomes(w, [Idle EXCEPT !.pc = "dispatch", !.todo = Members[b]])
        PROVE  FindingsAcked' /\ DispatchMayExpose'
    <3> DEFINE state == [Idle EXCEPT !.pc = "dispatch", !.todo = Members[b]]
    <3>1. state.pc = "dispatch" /\ state.todo = Members[b]
      BY DEF Idle
    <3>2. Becomes(w, state)
      BY <2>2
    <3> HIDE DEF state
    <3>3. \A g \in Members[b] : g \in Gateway /\ MayExpose(g)
      BY <1>a, FirstStopMayExpose
    <3>4. QED
      BY <1>a, <1>b, <3>1, <3>2, <3>3, SweepKeeps
  <2>3. ASSUME NEW state, Becomes(w, state), state.pc \in {"done", "halt"}
        PROVE  FindingsAcked' /\ DispatchMayExpose'
    BY <1>a, <1>b, <2>3, SweepKeeps
  <2>4. [Idle EXCEPT !.pc = "done"].pc = "done" /\ [Idle EXCEPT !.pc = "halt"].pc = "halt"
    BY DEF Idle
  <2>5. FindingsAcked' /\ DispatchMayExpose'
    BY <1>f, <2>1, <2>2, <2>3, <2>4
  <2>6. QED
    BY <1>4, <1>c, <1>d, <2>5 DEF Decide
<1>5. ASSUME NEW w \in Sweep, Conclude(w) PROVE Rest
  BY <1>5, <1>c, <1>d, <1>f DEF Conclude
<1>6. ASSUME NEW w \in Sweep, Create(w) PROVE Rest
  <2> DEFINE state(g) == [sweep[w] EXCEPT !.pc = "mark", !.todo = @ \ {g},
                                          !.gateway = g, !.job = Len(jobs[g]) + 1]
  <2>1. PICK g \in NextOf(w) :
          jobs' = [jobs EXCEPT ![g] = Append(@, "open")] /\ Becomes(w, state(g))
    BY <1>6 DEF Create
  <2>2. g \in sweep[w].todo /\ sweep[w].pc = "dispatch"
    BY <1>6 DEF Create, NextOf
  <2>3. \A h \in sweep[w].todo : h \in Gateway /\ MayExpose(h)
    BY <1>a, <1>g, <2>2 DEF DispatchMayExpose
  <2>4. state(g).pc = "mark" /\ state(g).todo \subseteq sweep[w].todo
    BY <1>g DEF SweepState
  <2> HIDE DEF state
  <2>5. FindingsAcked' /\ DispatchMayExpose'
    BY <1>a, <1>b, <2>1, <2>3, <2>4, SweepKeeps
  <2>6. \A h \in Gateway : h # g => jobs'[h] = jobs[h]
    BY <1>a, <2>1 DEF TypeOK
  <2>7. WaveGate'
    BY <1>a, <1>b, <2>2, <2>3, <2>6, JobsKeepGate
  <2>8. QED
    BY <1>6, <1>c, <2>5, <2>7 DEF Create
<1>7. ASSUME NEW w \in Sweep, Mark(w) PROVE Rest
  <2> DEFINE g == sweep[w].gateway
             state == [sweep[w] EXCEPT !.pc = "dispatch", !.gateway = 0, !.job = 0]
  <2>1. state.pc = "dispatch" /\ state.todo = sweep[w].todo /\ Becomes(w, state)
    BY <1>7, <1>g DEF SweepState, Mark
  <2>2. \A h \in sweep[w].todo : h \in Gateway /\ MayExpose(h)
    BY <1>7, <1>a, <1>g DEF DispatchMayExpose, Mark
  <2>3. \A h \in Gateway : target'[h].status = "ack" => target'[h] = target[h]
    BY <1>7, <1>a DEF TypeOK, Mark, Marked
  <2>4. RowsAcked'
    BY <1>a, <1>b, <2>3 DEF RowsAcked
  <2> HIDE DEF state, g
  <2>5. FindingsAcked' /\ DispatchMayExpose'
    BY <1>a, <1>b, <2>1, <2>2, SweepKeeps
  <2>6. QED
    BY <1>7, <1>d, <2>4, <2>5 DEF Mark
<1>8. ASSUME NEW w \in Sweep, CreateFails(w) PROVE Rest
  <2>1. ASSUME NEW g, FailedToCreate(g) PROVE RowsAcked'
    <3>1. \A h \in Gateway : target'[h].status = "ack" => target'[h] = target[h]
      BY <1>a, <2>1 DEF TypeOK, FailedToCreate, Target
    <3>2. QED
      BY <1>a, <1>b, <3>1 DEF RowsAcked
  <2>2. \A h \in sweep[w].todo : h \in Gateway /\ MayExpose(h)
    BY <1>8, <1>a, <1>g DEF DispatchMayExpose, CreateFails
  <2>3. ASSUME NEW state, Becomes(w, state), state.pc = "dispatch",
               state.todo \subseteq sweep[w].todo
        PROVE  FindingsAcked' /\ DispatchMayExpose'
    BY <1>a, <1>b, <2>2, <2>3, SweepKeeps
  <2>4. CASE sweep[w].pc = "dispatch"
    <3>1. PICK g \in NextOf(w) :
            FailedToCreate(g) /\ Becomes(w, [sweep[w] EXCEPT !.todo = @ \ {g}])
      BY <1>8, <2>4 DEF CreateFails
    <3>2. /\ [sweep[w] EXCEPT !.todo = @ \ {g}].pc = "dispatch"
          /\ [sweep[w] EXCEPT !.todo = @ \ {g}].todo \subseteq sweep[w].todo
      BY <2>4, <1>g DEF SweepState
    <3>3. QED
      BY <1>8, <1>d, <2>1, <2>3, <3>1, <3>2 DEF CreateFails
  <2>5. CASE sweep[w].pc = "mark"
    <3>1. /\ [sweep[w] EXCEPT !.pc = "dispatch", !.gateway = 0, !.job = 0].pc = "dispatch"
          /\ [sweep[w] EXCEPT !.pc = "dispatch", !.gateway = 0, !.job = 0].todo = sweep[w].todo
      BY <1>g DEF SweepState
    <3>2. QED
      BY <1>8, <1>d, <2>1, <2>3, <2>5, <3>1 DEF CreateFails
  <2>6. QED
    BY <1>8, <2>4, <2>5 DEF CreateFails
<1>9. ASSUME NEW w \in Sweep, EndWave(w) PROVE Rest
  BY <1>9, <1>c, <1>d, <1>f DEF EndWave
<1>10. ASSUME NEW w \in Sweep, Abandon(w) PROVE Rest
  BY <1>10, <1>c, <1>d, <1>f DEF Abandon
<1>11. CASE Crash
  <2>1. \A w \in Sweep : sweep'[w].pc = "idle"
    BY <1>11 DEF Crash, Idle
  <2>2. FindingsAcked' /\ DispatchMayExpose'
    BY <2>1 DEF FindingsAcked, DispatchMayExpose
  <2>3. QED
    BY <1>11, <1>b, <1>c, <1>d, <2>2 DEF Crash, WaveInv
<1>12. ASSUME NEW g \in Gateway, Settle(g) PROVE Rest
  <2>1. PICK j \in DOMAIN jobs[g] : \E o \in Outcome : jobs' = [jobs EXCEPT ![g][j] = o]
    BY <1>12 DEF Settle
  <2>2. \A h \in Gateway : Len(jobs'[h]) = Len(jobs[h])
    BY <1>a, <2>1, SettleType
  <2>3. \A h \in Gateway : jobs'[h] # <<>> => jobs[h] # <<>>
    <3>1. TypeOK'
      BY <1>b
    <3>2. \A h \in Gateway : jobs[h] \in Seq(JobStatus) /\ jobs'[h] \in Seq(JobStatus)
      BY <1>a, <3>1 DEF TypeOK
    <3>3. QED
      BY <2>2, <3>2, EmptySeq
  <2>4. WaveGate'
    BY <1>a, <1>b, <2>3, JobsKeepGate
  <2>5. QED
    BY <1>12, <1>c, <1>e, <2>4 DEF Settle
<1>13. CASE OperatorReads
  BY <1>13, <1>b, <1>c, <1>d, <1>e DEF OperatorReads, WaveInv
<1>14. CASE OperatorWrites
  BY <1>14, <1>b, <1>c, <1>d, <1>e DEF OperatorWrites, WaveInv
<1>15. CASE DeleteRelease
  BY <1>15, <1>b, <1>c, <1>d, <1>e DEF DeleteRelease, WaveInv
<1>16. CASE UNCHANGED vars
  BY <1>16, <1>b, <1>c, <1>d, <1>e DEF vars, WaveInv
<1>17. Rest
  BY <1>1, <1>2, <1>3, <1>4, <1>5, <1>6, <1>7, <1>8, <1>9, <1>10, <1>11, <1>12,
     <1>13, <1>14, <1>15, <1>16 DEF Next, SweepStep, WaveInv
<1>18. QED
  BY <1>b, <1>17 DEF WaveInv

\* Nothing has been sent yet.
LEMMA WaveInit == Init => WaveInv
<1> SUFFICES ASSUME Init PROVE WaveInv
  OBVIOUS
<1>1. TypeOK
  BY TypeInit
<1>2. RowsAcked /\ WaveGate
  BY DEF Init, RowsAcked, WaveGate
<1>3. FindingsAcked /\ DispatchMayExpose
  BY DEF Init, FindingsAcked, DispatchMayExpose, Idle
<1>4. QED
  BY <1>1, <1>2, <1>3 DEF WaveInv

(***************************************************************************)
(* No gateway is given the image before every canary, and all but the        *)
(* tolerated share of every earlier wave, has acknowledged it - whatever the *)
(* sweeps that overlap, the operator, failures and process ends do.          *)
(***************************************************************************)
THEOREM RolloutWaveGate == Spec => []WaveGate
<1>1. WaveInv => WaveGate
  BY DEF WaveInv
<1>2. QED
  BY <1>1, WaveInit, WaveStep, PTL DEF Spec

---------------------------------------------------------------------------
\* Only a verdict makes a sweep about to complete the rollout.
LEMMA BecomesDone ==
  ASSUME TypeOK, [Next]_vars, NEW w \in Sweep, sweep'[w].pc = "done"
  PROVE  \/ sweep[w].pc = "done"
         \/ sweep[w].pc = "sync" /\ (early' \/ \A b \in Batches : ~HoldsUp(b))
<1>1. ASSUME NEW v \in Sweep, NEW state, Becomes(v, state), state.pc # "done"
      PROVE  sweep[w].pc = "done"
  <2>1. sweep'[v] = state /\ (w # v => sweep'[w] = sweep[w])
    BY <1>1 DEF Becomes, TypeOK
  <2>2. QED
    BY <1>1, <2>1
<1>2. CASE UNCHANGED sweep
  BY <1>2
<1>3. ASSUME NEW v \in Sweep PROVE sweep[v] \in SweepState
  BY StateType
<1>4. Idle.pc = "idle"
  BY DEF Idle
<1>5. ASSUME NEW v \in Sweep, Begin(v) PROVE sweep[w].pc = "done"
  <2> DEFINE state == [Idle EXCEPT !.pc = "sync",
       !.found = {x \in Gateway \X Outcome :
                    /\ target[x[1]].status = "sent"
                    /\ jobs[x[1]][target[x[1]].job] = x[2]}]
  <2>1. Becomes(v, state)
    BY <1>5 DEF Begin
  <2>2. state.pc = "sync"
    BY DEF Idle
  <2> HIDE DEF state
  <2>3. QED
    BY <1>1, <2>1, <2>2
<1>6. ASSUME NEW v \in Sweep, Sync(v) PROVE sweep[w].pc = "done"
  <2>1. PICK x \in sweep[v].found : Becomes(v, [sweep[v] EXCEPT !.found = @ \ {x}])
    BY <1>6 DEF Sync
  <2>2. [sweep[v] EXCEPT !.found = @ \ {x}].pc = "sync"
    BY <1>3, <1>6 DEF Sync, SweepState
  <2>3. QED
    BY <1>1, <2>1, <2>2
<1>7. ASSUME NEW v \in Sweep, Decide(v)
      PROVE  \/ sweep[w].pc = "done"
             \/ sweep[w].pc = "sync" /\ (early' \/ \A b \in Batches : ~HoldsUp(b))
  <2>1. CASE planned # "yes" \/ \A b \in Batches : ~HoldsUp(b)
    <3>1. CASE w = v
      BY <1>7, <2>1, <3>1 DEF Decide
    <3>2. CASE w # v
      BY <1>7, <3>2 DEF Decide, Becomes, TypeOK
    <3>3. QED
      BY <3>1, <3>2
  <2>2. CASE ~(planned # "yes" \/ \A b \in Batches : ~HoldsUp(b))
    <3>1. PICK b \in FirstStop :
             \/ Becomes(v, [Idle EXCEPT !.pc = "halt"])
             \/ Becomes(v, Idle)
             \/ Becomes(v, [Idle EXCEPT !.pc = "dispatch", !.todo = Members[b]])
      BY <1>7, <2>2 DEF Decide
    <3>2. /\ [Idle EXCEPT !.pc = "halt"].pc = "halt"
          /\ [Idle EXCEPT !.pc = "dispatch", !.todo = Members[b]].pc = "dispatch"
      BY DEF Idle
    <3>3. QED
      BY <1>1, <1>4, <3>1, <3>2
  <2>3. QED
    BY <2>1, <2>2
<1>8. ASSUME NEW v \in Sweep, Conclude(v) \/ EndWave(v) \/ Abandon(v) PROVE sweep[w].pc = "done"
  BY <1>1, <1>4, <1>8 DEF Conclude, EndWave, Abandon
<1>9. ASSUME NEW v \in Sweep, Create(v) PROVE sweep[w].pc = "done"
  <2>1. PICK g \in NextOf(v) :
          Becomes(v, [sweep[v] EXCEPT !.pc = "mark", !.todo = @ \ {g},
                                      !.gateway = g, !.job = Len(jobs[g]) + 1])
    BY <1>9 DEF Create
  <2>2. [sweep[v] EXCEPT !.pc = "mark", !.todo = @ \ {g},
                         !.gateway = g, !.job = Len(jobs[g]) + 1].pc = "mark"
    BY <1>3 DEF SweepState
  <2>3. QED
    BY <1>1, <2>1, <2>2
<1>10. ASSUME NEW v \in Sweep PROVE
         /\ [sweep[v] EXCEPT !.pc = "dispatch", !.gateway = 0, !.job = 0].pc = "dispatch"
         /\ \A g : [sweep[v] EXCEPT !.todo = @ \ {g}].pc = sweep[v].pc
  BY <1>3 DEF SweepState
<1>11. ASSUME NEW v \in Sweep, Mark(v) PROVE sweep[w].pc = "done"
  BY <1>1, <1>10, <1>11 DEF Mark
<1>12. ASSUME NEW v \in Sweep, CreateFails(v) PROVE sweep[w].pc = "done"
  <2>1. \/ /\ sweep[v].pc = "dispatch"
           /\ \E g \in NextOf(v) : Becomes(v, [sweep[v] EXCEPT !.todo = @ \ {g}])
        \/ Becomes(v, [sweep[v] EXCEPT !.pc = "dispatch", !.gateway = 0, !.job = 0])
    BY <1>12 DEF CreateFails
  <2>2. QED
    BY <1>1, <1>10, <2>1
<1>13. CASE Crash
  BY <1>4, <1>13 DEF Crash
<1>14. QED
  BY <1>2, <1>5, <1>6, <1>7, <1>8, <1>9, <1>11, <1>12, <1>13
     DEF Next, vars, SweepStep, InsertTargets, InsertFails, Settle, OperatorReads, OperatorWrites,
         DeleteRelease

\* Every step keeps the reasons for CompletedHonest, and CompletedHonest.
LEMMA CompletedStep == CompletedInv /\ [Next]_vars => CompletedInv'
<1> SUFFICES ASSUME CompletedInv, [Next]_vars PROVE CompletedInv'
  OBVIOUS
<1>1. /\ WaveInv /\ TypeOK /\ RowsAcked /\ DoneHealthy /\ CompletedHonest
  BY DEF CompletedInv, WaveInv
<1>2. WaveInv'
  BY <1>1, WaveStep
<1>3. (AllHealthy => AllHealthy') /\ (early => early')
  <2>1. AllHealthy => AllHealthy'
    BY <1>1, AckedGrows, MayExposeStays
  <2>2. early => early'
    BY Zenon
    DEF Next, vars, bounds, SweepStep, InsertTargets, InsertFails, Begin, Sync, Decide, Conclude, Create,
        Mark, CreateFails, EndWave, Abandon, Crash, Settle, OperatorReads,
        OperatorWrites, DeleteRelease
  <2> QED
    BY <2>1, <2>2
<1>4. DoneHealthy'
  <2> SUFFICES ASSUME NEW w \in Sweep, sweep'[w].pc = "done" PROVE early' \/ AllHealthy'
    BY DEF DoneHealthy
  <2>1. CASE sweep[w].pc = "done"
    BY <1>1, <1>3, <2>1 DEF DoneHealthy
  <2>2. CASE sweep[w].pc = "sync" /\ (early' \/ \A b \in Batches : ~HoldsUp(b))
    <3>1. early' \/ AllHealthy
      BY <1>1, <2>2, HealthyByRows DEF AllHealthy
    <3>2. QED
      BY <1>3, <3>1
  <2>3. QED
    BY <1>1, <2>1, <2>2, BecomesDone
<1>5. CompletedHonest'
  <2> SUFFICES ASSUME status' = "completed" PROVE early' \/ AllHealthy'
    BY DEF CompletedHonest
  <2>1. status = "completed" \/ \E w \in Sweep : sweep[w].pc = "done"
    BY DEF Next, vars, SweepStep, InsertTargets, InsertFails, Begin, Sync, Decide, Conclude, Create,
           Mark, CreateFails, EndWave, Abandon, Crash, Settle, OperatorReads,
           OperatorWrites, DeleteRelease
  <2>2. early \/ AllHealthy
    BY <1>1, <2>1 DEF CompletedHonest, DoneHealthy
  <2>3. QED
    BY <1>3, <2>2
<1>6. QED
  BY <1>2, <1>4, <1>5 DEF CompletedInv

(***************************************************************************)
(* A rollout reports itself completed only when every wave came out healthy, *)
(* whatever overlaps, fails or ends, and however it is started - or when a   *)
(* sweep came to it and found none of its targets, of which nextAction says  *)
(* that they are done (rollout.ts:83): the second insert of createRollout    *)
(* may still be to come, or have failed.                                     *)
(***************************************************************************)
THEOREM RolloutCompletedHonest == Spec => []CompletedHonest
<1>1. Init => CompletedInv
  <2> SUFFICES ASSUME Init PROVE CompletedInv
    OBVIOUS
  <2>1. WaveInv
    BY WaveInit
  <2>2. status # "completed" /\ \A w \in Sweep : sweep[w].pc = "idle"
    BY OtaRolloutAssumption DEF Init, Idle
  <2>3. QED
    BY <2>1, <2>2 DEF CompletedInv, DoneHealthy, CompletedHonest
<1>2. CompletedInv => CompletedHonest
  BY DEF CompletedInv
<1>3. QED
  BY <1>1, <1>2, CompletedStep, PTL DEF Spec


---------------------------------------------------------------------------
\* Sweeps that do not overlap.
OneSweep == \A v, w \in Sweep : v = w

(***************************************************************************)
(* Why a gateway gets one job only while no step is cut short: a target that *)
(* is pending has none, but for the one a sweep is about to name, and the    *)
(* sweep that dispatches a wave has pending targets still to do.             *)
(***************************************************************************)
Fresh(g) == Len(jobs[g]) = 0
WaveFresh(w) ==
  /\ sweep[w].pc \in {"dispatch", "mark"} =>
       \A g \in sweep[w].todo : target[g].status = "pending" /\ Fresh(g)
  /\ sweep[w].pc = "mark" => sweep[w].gateway \notin sweep[w].todo
PendingFresh(g) ==
  target[g].status = "pending" =>
    Fresh(g) \/ \E w \in Sweep : sweep[w].pc = "mark" /\ sweep[w].gateway = g
JobInv ==
  cut \/ /\ \A w \in Sweep : WaveFresh(w)
         /\ \A g \in Gateway : PendingFresh(g) /\ Len(jobs[g]) <= 1

\* A step that leaves the jobs alone, and pending targets but one that it settles.
LEMMA QuietKeeps ==
  ASSUME OneSweep, TypeOK, ~cut, JobInv, UNCHANGED jobs,
         NEW w \in Sweep, NEW state \in SweepState, Becomes(w, state),
         \A g \in Gateway : target'[g].status = "pending" => target[g].status = "pending",
         state.pc \in {"dispatch", "mark"} =>
           \A g \in state.todo : target'[g].status = "pending" /\ Fresh(g),
         state.pc # "mark",
         sweep[w].pc = "mark" => target'[sweep[w].gateway].status # "pending"
  PROVE  JobInv'
<1>1. sweep'[w] = state /\ \A v \in Sweep : v = w
  BY BecomesType DEF OneSweep
<1>2. \A v \in Sweep : WaveFresh(v)'
  BY <1>1 DEF WaveFresh, Fresh
<1>3. ASSUME NEW g \in Gateway PROVE PendingFresh(g)'
  <2> SUFFICES ASSUME target'[g].status = "pending" PROVE Fresh(g)
    BY DEF PendingFresh, Fresh
  <2>1. target[g].status = "pending"
    OBVIOUS
  <2> QED
    BY <1>1, <2>1 DEF JobInv, PendingFresh
<1>4. \A g \in Gateway : Len(jobs'[g]) <= 1
  BY DEF JobInv
<1> QED
  BY <1>2, <1>3, <1>4 DEF JobInv

\* A wave that is all pending is fresh, unless a sweep is in the middle of a gateway.
LEMMA AllPending ==
  ASSUME TypeOK, JobInv, ~cut, \A v \in Sweep : sweep[v].pc # "mark",
         NEW b \in Batches, Count(b, "pending") = Total(b)
  PROVE  \A g \in Members[b] : g \in Gateway /\ target[g].status = "pending" /\ Fresh(g)
<1> DEFINE Those == {g \in Members[b] : target[g].status = "pending"}
<1>1. Those \in SUBSET Members[b] /\ IsFiniteSet(Members[b])
  BY BatchFinite
<1>2. Cardinality(Those) = Cardinality(Members[b])
  BY DEF Count, Total
<1>3. Those = Members[b]
  BY <1>1, <1>2, FS_Subset
<1>4. Members[b] \subseteq Gateway
  BY DEF Members
<1> QED
  BY <1>3, <1>4 DEF JobInv, PendingFresh

LEMMA JobStep == ASSUME OneSweep, TypeOK, JobInv, [Next]_vars PROVE JobInv'
<1> USE DEF bounds
<1>0. CASE cut'
  BY <1>0 DEF JobInv
<1> SUFFICES ASSUME ~cut' PROVE JobInv'
  BY <1>0
<1>a. ASSUME UNCHANGED <<target, jobs, sweep, cut>> PROVE JobInv'
  BY <1>a DEF JobInv, WaveFresh, PendingFresh, Fresh
<1>b. \A w \in Sweep : /\ sweep[w] \in SweepState /\ sweep[w].todo \subseteq Gateway
                       /\ sweep[w].pc = "mark" => sweep[w].gateway \in Gateway
  BY DEF TypeOK, SweepState, SweepsNameJobs
<1>c. Idle \in SweepState /\ Idle.pc = "idle"
  BY OtaRolloutAssumption DEF Idle, SweepState
<1>1. ASSUME NEW w \in Sweep, Begin(w) PROVE JobInv'
  <2> DEFINE found == {x \in Gateway \X Outcome :
                         /\ target[x[1]].status = "sent"
                         /\ jobs[x[1]][target[x[1]].job] = x[2]}
             state == [Idle EXCEPT !.pc = "sync", !.found = found]
  <2>1. state \in SweepState /\ state.pc = "sync"
    BY StateType DEF SweepState, Idle
  <2>2. Becomes(w, state) /\ UNCHANGED <<target, jobs, cut>> /\ sweep[w].pc = "idle"
    BY <1>1 DEF Begin
  <2> HIDE DEF state
  <2> QED
    BY <2>1, <2>2, QuietKeeps
<1>2. ASSUME NEW w \in Sweep, Sync(w) PROVE JobInv'
  <2>1. PICK x \in sweep[w].found :
          /\ target' = [target EXCEPT ![x[1]].status = x[2]]
          /\ Becomes(w, [sweep[w] EXCEPT !.found = @ \ {x}])
    BY <1>2 DEF Sync
  <2> DEFINE state == [sweep[w] EXCEPT !.found = @ \ {x}]
  <2>2. /\ x[1] \in Gateway /\ x[2] \in Outcome /\ state \in SweepState /\ state.pc = "sync"
        /\ sweep[w].pc = "sync" /\ UNCHANGED <<jobs, cut>>
    BY <1>2, <1>b DEF Sync, SweepState
  <2>3. \A g \in Gateway : target'[g].status = "pending" => target[g].status = "pending"
    BY <2>1, <2>2, OutcomeType DEF Outcome
  <2>4. Becomes(w, state)
    BY <2>1
  <2> HIDE DEF state
  <2> QED
    BY <2>2, <2>3, <2>4, QuietKeeps
<1>3. ASSUME NEW w \in Sweep, Decide(w) PROVE JobInv'
  <2>1. sweep[w].pc = "sync" /\ UNCHANGED <<target, jobs, cut>> /\ \A v \in Sweep : sweep[v].pc # "mark"
    BY <1>3 DEF Decide, OneSweep
  <2>2. ASSUME NEW pc \in {"idle", "halt", "done"}, NEW state, state = [Idle EXCEPT !.pc = pc], Becomes(w, state)
        PROVE  JobInv'
    <3>1. state \in SweepState /\ state.pc \notin {"dispatch", "mark"}
      BY <1>c, <2>2 DEF SweepState, Idle
    <3> QED
      BY <2>1, <2>2, <3>1, QuietKeeps
  <2>3. ASSUME NEW b \in Batches, Count(b, "pending") = Total(b),
               NEW state, state = [Idle EXCEPT !.pc = "dispatch", !.todo = Members[b]], Becomes(w, state)
        PROVE  JobInv'
    <3>1. state \in SweepState /\ state.pc = "dispatch" /\ state.todo = Members[b]
      BY <1>c, <2>3 DEF SweepState, Idle, Members
    <3>2. \A g \in Members[b] : g \in Gateway /\ target[g].status = "pending" /\ Fresh(g)
      BY <2>1, <2>3, AllPending
    <3> QED
      BY <2>1, <2>3, <3>1, <3>2, QuietKeeps
  <2>4. [Idle EXCEPT !.pc = "idle"] = Idle
    BY DEF Idle
  <2>5. \/ Becomes(w, [Idle EXCEPT !.pc = "done"]) \/ Becomes(w, [Idle EXCEPT !.pc = "halt"])
        \/ Becomes(w, Idle)
        \/ \E b \in Batches : /\ Count(b, "pending") = Total(b)
                              /\ Becomes(w, [Idle EXCEPT !.pc = "dispatch", !.todo = Members[b]])
    BY <1>3, Zenon DEF Decide, FirstStop
  <2> QED
    BY <2>2, <2>3, <2>4, <2>5
<1>4. ASSUME NEW w \in Sweep, Conclude(w) \/ EndWave(w) PROVE JobInv'
  <2>1. sweep[w].pc # "mark" /\ Becomes(w, Idle) /\ UNCHANGED <<target, jobs, cut>>
    BY <1>4 DEF Conclude, EndWave
  <2> QED
    BY <1>c, <2>1, QuietKeeps
<1>5. ASSUME NEW w \in Sweep, Create(w) PROVE JobInv'
  <2>1. PICK g \in NextOf(w) :
          /\ jobs' = [jobs EXCEPT ![g] = Append(@, "open")]
          /\ Becomes(w, [sweep[w] EXCEPT !.pc = "mark", !.todo = @ \ {g},
                                         !.gateway = g, !.job = Len(jobs[g]) + 1])
    BY <1>5 DEF Create
  <2>2. g \in Gateway /\ g \in sweep[w].todo /\ sweep[w].pc = "dispatch" /\ UNCHANGED <<target, cut>>
    BY <1>5, <1>b DEF NextOf, Create
  <2>3. /\ sweep'[w].pc = "mark" /\ sweep'[w].todo = sweep[w].todo \ {g} /\ sweep'[w].gateway = g
        /\ \A v \in Sweep : v = w
    BY <2>1, <1>b DEF Becomes, TypeOK, SweepState, OneSweep
  <2>4. /\ Len(jobs'[g]) = Len(jobs[g]) + 1
        /\ \A h \in Gateway : h # g => jobs'[h] = jobs[h]
    BY <2>1, <2>2, CreateType
  <2>5. Len(jobs[g]) = 0 /\ \A h \in sweep[w].todo : target[h].status = "pending" /\ Fresh(h)
    BY <2>2 DEF JobInv, WaveFresh, Fresh
  <2>6. ASSUME NEW v \in Sweep PROVE WaveFresh(v)'
    BY <1>b, <2>2, <2>3, <2>4, <2>5 DEF WaveFresh, Fresh
  <2>7. ASSUME NEW h \in Gateway PROVE PendingFresh(h)' /\ Len(jobs'[h]) <= 1
    <3>1. CASE h = g
      <4>1. Len(jobs'[h]) <= 1
        <5>1. Len(jobs[g]) = 0 /\ Len(jobs'[g]) = Len(jobs[g]) + 1
          BY <2>4, <2>5
        <5>2. Len(jobs'[g]) = 1
          BY <5>1
        <5> QED
          BY <3>1, <5>2
      <4>2. \E v \in Sweep : sweep'[v].pc = "mark" /\ sweep'[v].gateway = h
        BY <2>3, <3>1
      <4> QED
        BY <4>1, <4>2 DEF PendingFresh
    <3>2. CASE h # g
      <4>1. jobs'[h] = jobs[h] /\ target'[h] = target[h]
        BY <2>2, <2>4, <3>2
      <4>2. \A v \in Sweep : sweep[v].pc # "mark"
        BY <2>2, <2>3
      <4>3. PendingFresh(h) /\ Len(jobs[h]) <= 1
        BY <2>2 DEF JobInv
      <4> QED
        BY <4>1, <4>2, <4>3 DEF PendingFresh, Fresh
    <3> QED
      BY <3>1, <3>2
  <2> QED
    BY <2>6, <2>7 DEF JobInv
<1>6. ASSUME NEW w \in Sweep, NEW g \in Gateway, sweep[w].pc \in {"dispatch", "mark"},
             sweep[w].pc = "mark" => g = sweep[w].gateway,
             sweep[w].pc = "dispatch" => g \in sweep[w].todo,
             target'[g].status # "pending",
             \A h \in Gateway : h # g => target'[h] = target[h], UNCHANGED <<jobs, cut>>,
             NEW state \in SweepState, state.pc = "dispatch", state.todo = sweep[w].todo \ {g},
             Becomes(w, state)
      PROVE  JobInv'
  <2>1. \A h \in Gateway : target'[h].status = "pending" => target[h].status = "pending"
    BY <1>6
  <2>2. \A h \in state.todo : h \in Gateway /\ target'[h].status = "pending" /\ Fresh(h)
    BY <1>b, <1>6 DEF JobInv, WaveFresh
  <2> QED
    BY <1>6, <2>1, <2>2, QuietKeeps
<1>7. ASSUME NEW w \in Sweep, Mark(w) PROVE JobInv'
  <2> DEFINE g == sweep[w].gateway
             state == [sweep[w] EXCEPT !.pc = "dispatch", !.gateway = 0, !.job = 0]
  <2>1. /\ sweep[w].pc = "mark" /\ g \in Gateway /\ Becomes(w, state) /\ UNCHANGED <<jobs, cut>>
        /\ target' = [target EXCEPT ![g] = Marked(w)]
    BY <1>7, <1>b DEF Mark
  <2>2. state \in SweepState /\ state.pc = "dispatch" /\ state.todo = sweep[w].todo
    BY <1>b, StateFieldsType DEF SweepState
  <2>3. g \notin sweep[w].todo
    BY <1>7, <2>1 DEF JobInv, WaveFresh
  <2>4. target'[g].status # "pending" /\ \A h \in Gateway : h # g => target'[h] = target[h]
    BY <2>1 DEF TypeOK, Marked
  <2> HIDE DEF state, g
  <2>5. state.todo = sweep[w].todo \ {g}
    BY <2>2, <2>3
  <2> QED
    BY <1>6, <2>1, <2>2, <2>4, <2>5 DEF g
<1>8. ASSUME NEW w \in Sweep, CreateFails(w) PROVE JobInv'
  <2>0. UNCHANGED <<jobs, cut>>
    BY <1>8 DEF CreateFails
  <2>1. ASSUME NEW g \in Gateway, FailedToCreate(g)
        PROVE  target'[g].status # "pending" /\ \A h \in Gateway : h # g => target'[h] = target[h]
    BY <2>1, OutcomeType DEF FailedToCreate, Outcome
  <2>2. CASE sweep[w].pc = "dispatch"
    <3>1. PICK g \in NextOf(w) :
            FailedToCreate(g) /\ Becomes(w, [sweep[w] EXCEPT !.todo = @ \ {g}])
      BY <1>8, <2>2 DEF CreateFails
    <3> DEFINE state == [sweep[w] EXCEPT !.todo = @ \ {g}]
    <3>2. /\ g \in Gateway /\ g \in sweep[w].todo /\ state \in SweepState /\ state.pc = "dispatch"
          /\ state.todo = sweep[w].todo \ {g} /\ Becomes(w, state)
      BY <1>b, <2>2, <3>1 DEF NextOf, SweepState
    <3> HIDE DEF state
    <3> QED
      BY <1>6, <2>0, <2>1, <2>2, <3>1, <3>2
  <2>3. CASE sweep[w].pc = "mark"
    <3> DEFINE g == sweep[w].gateway
               state == [sweep[w] EXCEPT !.pc = "dispatch", !.gateway = 0, !.job = 0]
    <3>1. g \in Gateway /\ FailedToCreate(g) /\ Becomes(w, state)
      BY <1>8, <1>b, <2>3 DEF CreateFails
    <3>2. state \in SweepState /\ state.pc = "dispatch" /\ state.todo = sweep[w].todo
      BY <1>b, StateFieldsType DEF SweepState
    <3>3. g \notin sweep[w].todo
      BY <2>0, <2>3 DEF JobInv, WaveFresh
    <3> HIDE DEF state, g
    <3>4. state.todo = sweep[w].todo \ {g}
      BY <3>2, <3>3
    <3> QED
      BY <1>6, <2>0, <2>1, <2>3, <3>1, <3>2, <3>4 DEF g
  <2> QED
    BY <1>8, <2>2, <2>3 DEF CreateFails
<1>9. ASSUME NEW g \in Gateway, Settle(g) PROVE JobInv'
  <2>1. PICK j \in DOMAIN jobs[g] : \E o \in Outcome : jobs' = [jobs EXCEPT ![g][j] = o]
    BY <1>9 DEF Settle
  <2>2. \A h \in Gateway : Len(jobs'[h]) = Len(jobs[h])
    BY <2>1, SettleType
  <2>3. UNCHANGED <<target, sweep, cut>>
    BY <1>9 DEF Settle
  <2> QED
    BY <1>b, <2>2, <2>3 DEF JobInv, WaveFresh, PendingFresh, Fresh
<1>10. CASE InsertTargets \/ InsertFails \/ OperatorReads \/ OperatorWrites \/ DeleteRelease \/ UNCHANGED vars
  BY <1>a, <1>10 DEF InsertTargets, InsertFails, OperatorReads, OperatorWrites, DeleteRelease, vars
<1>11. ASSUME (\E w \in Sweep : Abandon(w)) \/ Crash PROVE FALSE
  BY <1>11 DEF Abandon, Crash
<1> QED
  BY <1>1, <1>2, <1>3, <1>4, <1>5, <1>7, <1>8, <1>9, <1>10, <1>11 DEF Next, SweepStep

(***************************************************************************)
(* "Two replicas would otherwise publish the same job twice"                 *)
(* (manager.ts:33-34): with sweeps that do not overlap, and until a step is  *)
(* cut short, a gateway is sent the image by one job only, for any fleet and *)
(* waves and however the operator starts, pauses and restarts the rollout.   *)
(***************************************************************************)
THEOREM RolloutOneJob == ASSUME OneSweep PROVE Spec => []OneJob
<1>1. Init => JobInv
  <2> SUFFICES ASSUME Init PROVE JobInv
    OBVIOUS
  <2>1. \A g \in Gateway : Len(jobs[g]) = 0
    BY EmptySeq DEF Init
  <2>2. \A w \in Sweep : sweep[w].pc = "idle"
    BY DEF Init, Idle
  <2> QED
    BY <2>1, <2>2 DEF JobInv, WaveFresh, PendingFresh, Fresh
<1>2. TypeOK /\ JobInv /\ [Next]_vars => JobInv'
  BY JobStep
<1>3. JobInv => OneJob
  BY DEF JobInv, OneJob
<1> QED
  BY <1>1, <1>2, <1>3, RolloutTypeCorrect, PTL DEF Spec


\* A rollout among the services is a rollout: its steps are its own or none.
LEMMA ServicesRollOut == ServicesSpec => Spec
<1>1. ServicesInit => Init
  BY DEF ServicesInit
<1>2. [ServicesNext]_servicesVars => [Next]_vars
  BY DEF ServicesNext, servicesVars, rollouts
<1> QED
  BY <1>1, <1>2, PTL DEF ServicesSpec, Spec

(***************************************************************************)
(* The wave gate as the run checks it, among the other services: no gateway  *)
(* is given the image before all but the tolerated share of every earlier    *)
(* wave has acknowledged it (nextAction, rollout.ts).                        *)
(***************************************************************************)
THEOREM ServicesWaveGate == ServicesSpec => []WaveGate
BY ServicesRollOut, RolloutWaveGate, PTL

(***************************************************************************)
(* With sweeps that do not overlap, one job per gateway until a step is cut  *)
(* short, and no completion but a healthy one or of a rollout that a sweep   *)
(* came to before its targets, among the other services.                     *)
(***************************************************************************)
THEOREM ServicesRolloutSound ==
  ASSUME OneSweep
  PROVE  ServicesSpec => [](OneJob /\ CompletedHonest)
BY ServicesRollOut, RolloutOneJob, RolloutCompletedHonest, PTL

---------------------------------------------------------------------------
\* What Webhooks_proofs shows, of the instance of Services: the definitions are the
\* same on both ways there.
WP == INSTANCE Webhooks_proofs WITH MAX_ATTEMPTS <- WebhookAttempts, sweep <- dispatching

LEMMA SameWebhooks ==
  /\ W!Init <=> WP!Init
  /\ W!Next <=> WP!Next
  /\ W!vars = WP!vars
  /\ W!ClosedHonest <=> WP!ClosedHonest
  /\ W!WebhookAssumption <=> WP!WebhookAssumption
<1>1. W!Asleep = WP!Asleep /\ W!history = WP!history /\ W!vars = WP!vars
  BY DEF W!Asleep, WP!Asleep, W!history, WP!history, W!vars, WP!vars
<1>2. W!Init <=> WP!Init
  BY <1>1 DEF W!Init, WP!Init
<1>3. W!ClosedHonest <=> WP!ClosedHonest
  BY DEF W!ClosedHonest, WP!ClosedHonest
<1>4. W!WebhookAssumption <=> WP!WebhookAssumption
  BY DEF W!WebhookAssumption, WP!WebhookAssumption
<1>5. \A d \in Delivery : (W!Emit(d) <=> WP!Emit(d)) /\ (W!Due(d) <=> WP!Due(d))
  BY DEF W!Emit, WP!Emit, W!Due, WP!Due, W!history, WP!history
<1>6. \A s \in Dispatch : W!Work(s) <=> WP!Work(s)
  <2> SUFFICES ASSUME NEW s \in Dispatch PROVE W!Work(s) <=> WP!Work(s)
    OBVIOUS
  <2>1. W!Select(s) <=> WP!Select(s)
    BY DEF W!Select, WP!Select, W!Awake, WP!Awake, W!DueRows, WP!DueRows, W!Asleep, WP!Asleep, W!history, WP!history
  <2>2. W!CloseDisabled(s) <=> WP!CloseDisabled(s)
    BY DEF W!CloseDisabled, WP!CloseDisabled, W!Awake, WP!Awake, W!Asleep, WP!Asleep, W!history, WP!history
  <2>3. \A d \in Delivery : W!Send(s, d) <=> WP!Send(s, d)
    BY DEF W!Send, WP!Send, W!Capped, WP!Capped
  <2>4. W!Record(s) <=> WP!Record(s)
    BY DEF W!Record, WP!Record, W!Recorded, WP!Recorded, W!Classify, WP!Classify, W!Asleep, WP!Asleep, W!history, WP!history
  <2> QED
    BY <2>1, <2>2, <2>3, <2>4 DEF W!Work, WP!Work
<1>7. (W!Toggle <=> WP!Toggle) /\ (W!Crash <=> WP!Crash)
  BY DEF W!Toggle, WP!Toggle, W!Crash, WP!Crash, W!Asleep, WP!Asleep, W!history, WP!history
<1>8. W!Next <=> WP!Next
  BY <1>5, <1>6, <1>7 DEF W!Next, WP!Next
<1> QED
  BY <1>1, <1>2, <1>3, <1>4, <1>8

\* The queue is the webhooks' own: the other services leave it be.
LEMMA QueueStands ==
  ASSUME WP!QueueInv, [ServicesNext]_servicesVars
  PROVE  WP!QueueInv'
<1>0. WP!WebhookAssumption
  BY ServicesAssumption, SameWebhooks
<1>1. CASE W!Next
  BY <1>0, <1>1, SameWebhooks, WP!QueueNext
<1>2. CASE UNCHANGED <<wanted, queue, dispatching, taken, refused, sends, toggles>>
  BY <1>2, WP!QueueRests DEF WP!history
<1>3. W!Next \/ UNCHANGED webhooks
  BY DEF ServicesNext, servicesVars
<1> QED
  BY <1>1, <1>2, <1>3 DEF webhooks

(***************************************************************************)
(* "Delivered", "refused" and "dead" are what the receiver or the owner said *)
(* (webhookSweep, attempt), also while the other services share the process  *)
(* and the bounds on its ends.                                               *)
(***************************************************************************)
THEOREM ServicesClosedHonest == ServicesSpec => []ClosedHonest
<1>0. WP!WebhookAssumption
  BY ServicesAssumption, SameWebhooks
<1>1. ServicesInit => WP!QueueInv
  BY <1>0, SameWebhooks, WP!QueueInit DEF ServicesInit
<1>2. WP!QueueInv /\ [ServicesNext]_servicesVars => WP!QueueInv'
  BY QueueStands
<1>3. WP!QueueInv => ClosedHonest
  BY SameWebhooks DEF ClosedHonest, WP!QueueInv
<1> QED
  BY <1>1, <1>2, <1>3, PTL DEF ServicesSpec

\* Nor does it matter through which of the two Outbox is seen.
LEMMA SameOutbox ==
  /\ W!Promise!Next <=> WP!Promise!Next
  /\ W!Promise!outbox = WP!Promise!outbox
<1>1. W!OutboxState = WP!OutboxState /\ W!OutboxState' = WP!OutboxState'
  BY DEF W!OutboxState, WP!OutboxState
<1>2. \A d \in Delivery : (W!Promise!Put(d) <=> WP!Promise!Put(d))
                         /\ (W!Promise!Receive(d) <=> WP!Promise!Receive(d))
  BY <1>1 DEF W!Promise!Put, WP!Promise!Put, W!Promise!Receive, WP!Promise!Receive
<1>3. \A ds \in SUBSET Delivery, how \in W!Promise!Closed : W!Promise!Close(ds, how) <=> WP!Promise!Close(ds, how)
  BY <1>1 DEF W!Promise!Close, WP!Promise!Close
<1>4. W!Promise!Closed = WP!Promise!Closed
  BY DEF W!Promise!Closed, WP!Promise!Closed
<1>5. W!Promise!outbox = WP!Promise!outbox
  BY <1>1 DEF W!Promise!outbox, WP!Promise!outbox
<1>6. W!Promise!Next <=> WP!Promise!Next
  BY <1>2, <1>3, <1>4 DEF W!Promise!Next, WP!Promise!Next
<1> QED
  BY <1>5, <1>6

(***************************************************************************)
(* The queue as the services run it implements Outbox, but for its liveness: *)
(* an event is queued once, is delivered only if the receiver took it, and   *)
(* once closed is never queued again, whichever of the overlapping sweeps    *)
(* (webhookSweep, attempt) records its result last.                          *)
(***************************************************************************)
THEOREM ServicesImplementOutbox == ServicesSpec => W!Promise!Spec
<1>0. WP!WebhookAssumption
  BY ServicesAssumption, SameWebhooks
<1>1. ServicesInit => WP!QueueInv /\ W!Promise!Init
  <2> SUFFICES ASSUME ServicesInit PROVE WP!QueueInv /\ W!Promise!Init
    OBVIOUS
  <2>1. W!Init
    BY DEF ServicesInit
  <2>2. WP!QueueInv
    BY <1>0, <2>1, SameWebhooks, WP!QueueInit
  <2>3. W!Promise!Init
    BY <2>1 DEF W!Init, W!Promise!Init, W!OutboxState
  <2> QED
    BY <2>2, <2>3
<1>2. WP!QueueInv /\ [ServicesNext]_servicesVars => WP!QueueInv'
  BY QueueStands
<1>3. WP!QueueInv /\ [ServicesNext]_servicesVars => [W!Promise!Next]_(W!Promise!outbox)
  <2> SUFFICES ASSUME WP!QueueInv, [ServicesNext]_servicesVars PROVE [W!Promise!Next]_(W!Promise!outbox)
    OBVIOUS
  <2>1. CASE W!Next
    <3>1. [WP!Promise!Next]_(WP!Promise!outbox)
      BY <1>0, <2>1, SameWebhooks, WP!OutboxNext
    <3>2. WP!Promise!outbox' = WP!Promise!outbox <=> W!Promise!outbox' = W!Promise!outbox
      <4>1. W!OutboxState = WP!OutboxState /\ W!OutboxState' = WP!OutboxState'
        BY DEF W!OutboxState, WP!OutboxState
      <4> QED
        BY <4>1 DEF W!Promise!outbox, WP!Promise!outbox
    <3> QED
      BY <3>1, <3>2, SameOutbox
  <2>2. CASE UNCHANGED <<queue, taken>>
    BY <2>2 DEF W!Promise!outbox, W!OutboxState
  <2>3. W!Next \/ UNCHANGED webhooks
    BY DEF ServicesNext, servicesVars
  <2> QED
    BY <2>1, <2>2, <2>3 DEF webhooks
<1> QED
  BY <1>1, <1>2, <1>3, PTL DEF ServicesSpec, W!Promise!Spec

---------------------------------------------------------------------------
\* None is no row.
LimitAssumption == L!RateAssumption /\ None \notin L!Bucket

CallState == [pc : {"idle", "read", "write"}, now : 0..LastTime, seen : L!Bucket \cup {None},
         left : Int]

LimitTyped ==
  /\ time \in 0..LastTime
  /\ bucket \in L!Bucket \cup {None}
  /\ call \in [Request -> CallState]
  /\ admitted \in Nat
  /\ regressed \in BOOLEAN

\* A request that goes on to write found a token in the row it read.
CallSound(r) ==
  /\ call[r].now <= time
  /\ call[r].pc = "write" => L!Refilled(call[r].seen, call[r].now) >= 1

(***************************************************************************)
(* What makes WithinQuota inductive: what was charged and what is left are   *)
(* together no more than the bucket's capacity and the time it was refilled  *)
(* for - the row's, not the clock's.                                         *)
(***************************************************************************)
LimitCharged ==
  /\ bucket = None => admitted = 0
  /\ bucket # None => bucket.updatedAt <= time
  /\ bucket # None /\ ~regressed => admitted + bucket.tokens <= Burst + bucket.updatedAt

LimitInv ==
  /\ LimitTyped
  /\ \A r \in Request : CallSound(r)
  /\ LimitCharged
  /\ L!NeverDrained

---------------------------------------------------------------------------
\* A refill ends within the bucket, and takes nothing from it.
LEMMA RefillBounds ==
  ASSUME L!RateAssumption, NEW row \in L!Bucket \cup {None}, NEW now \in 0..LastTime
  PROVE  /\ L!Refilled(row, now) \in 0..Burst
         /\ row = None => L!Refilled(row, now) = Burst
         /\ row # None => L!Refilled(row, now) >= row.tokens
         /\ row # None /\ now >= row.updatedAt =>
              L!Refilled(row, now) <= row.tokens + now - row.updatedAt
<1>1. Burst \in Nat \ {0} /\ LastTime \in Nat
  BY DEF L!RateAssumption
<1>2. CASE row = None
  BY <1>1, <1>2 DEF L!Refilled
<1>3. CASE row # None
  <2>1. row.tokens \in 0..Burst /\ row.updatedAt \in 0..LastTime
    BY <1>3 DEF L!Bucket
  <2> QED
    BY <1>1, <1>3, <2>1 DEF L!Refilled
<1> QED
  BY <1>2, <1>3

LEMMA LimitInit ==
  ASSUME LimitAssumption, L!Init
  PROVE  LimitInv
<1>1. L!NoCall \in CallState
  BY DEF L!NoCall, CallState, LimitAssumption, L!RateAssumption
<1>2. 0 \in 0..LastTime
  BY DEF LimitAssumption, L!RateAssumption
<1>3. LimitTyped /\ LimitCharged /\ L!NeverDrained
  BY <1>1, <1>2 DEF L!Init, LimitTyped, LimitCharged, L!NeverDrained
<1>4. ASSUME NEW r \in Request PROVE CallSound(r)
  <2>1. call[r].now = 0 /\ call[r].pc = "idle" /\ time = 0
    BY DEF L!Init, L!NoCall
  <2> QED
    BY <2>1 DEF CallSound
<1> QED
  BY <1>3, <1>4 DEF LimitInv

\* A charge keeps the account, for the request that decided on the row as it is.
LEMMA ChargeSound ==
  ASSUME LimitAssumption, LimitTyped, LimitCharged, L!NeverDrained, NEW r \in Request, CallSound(r),
         call[r].pc = "write", L!Untouched(r), L!Charge(r), time' = time
  PROVE  /\ bucket' \in L!Bucket /\ admitted' \in Nat /\ regressed' \in BOOLEAN
         /\ LimitCharged' /\ L!NeverDrained'
<1> DEFINE now == call[r].now
           tokens == L!Refilled(bucket, now)
<1>1. /\ Burst \in Nat \ {0} /\ LastTime \in Nat /\ time \in 0..LastTime
      /\ now \in 0..LastTime /\ now <= time
  BY DEF LimitAssumption, L!RateAssumption, LimitTyped, CallState, CallSound
<1>2. /\ tokens \in 1..Burst
      /\ bucket' = [tokens |-> tokens - 1, updatedAt |-> now,
                    version |-> IF bucket = None THEN 1 ELSE bucket.version + 1]
  BY <1>1, RefillBounds DEF L!Charge, L!Untouched, CallSound, LimitTyped, LimitAssumption
<1>3. bucket' \in L!Bucket /\ bucket'.tokens = tokens - 1 /\ bucket'.updatedAt = now
  BY <1>1, <1>2 DEF L!Bucket, LimitTyped
<1>4. /\ admitted' \in Nat /\ admitted' <= admitted + 1
      /\ admitted' = admitted + 1 \/ admitted' > Burst + LastTime
      /\ regressed' = (regressed \/ (bucket # None /\ now < bucket.updatedAt))
  BY <1>1 DEF L!Charge, LimitTyped
<1>5. CASE bucket = None
  <2>1. admitted = 0 /\ tokens = Burst
    BY <1>1, <1>5, RefillBounds DEF LimitCharged, LimitTyped, LimitAssumption
  <2>2. admitted' = 1
    BY <1>1, <1>4, <2>1
  <2> QED
    BY <1>1, <1>3, <1>4, <1>5, <2>1, <2>2 DEF LimitCharged, L!NeverDrained, LimitAssumption
<1>6. CASE bucket # None
  <2>1. bucket.tokens \in 0..Burst /\ bucket.updatedAt \in 0..LastTime /\ admitted \in Nat
    BY <1>6 DEF LimitTyped, L!Bucket
  <2>2. /\ tokens >= bucket.tokens
        /\ now >= bucket.updatedAt => tokens <= bucket.tokens + now - bucket.updatedAt
    BY <1>1, <1>6, RefillBounds DEF LimitTyped, LimitAssumption
  <2>3. bucket.tokens >= Burst - admitted
    BY <1>6 DEF L!NeverDrained
  <2>4. L!NeverDrained'
    BY <1>1, <1>2, <1>3, <1>4, <2>1, <2>2, <2>3 DEF L!NeverDrained
  <2>5. ASSUME ~regressed' PROVE admitted' + bucket'.tokens <= Burst + bucket'.updatedAt
    <3>0. ~regressed /\ ~(now < bucket.updatedAt)
      BY <1>4, <1>6, <2>5, Zenon
    <3>1. ~regressed /\ now >= bucket.updatedAt
      BY <1>1, <2>1, <3>0
    <3>2. admitted + bucket.tokens <= Burst + bucket.updatedAt
      BY <1>6, <3>1 DEF LimitCharged
    <3> QED
      BY <1>1, <1>2, <1>3, <1>4, <2>1, <2>2, <3>1, <3>2
  <2>6. LimitCharged'
    BY <1>1, <1>3, <2>5 DEF LimitCharged, LimitAssumption
  <2> QED
    BY <1>3, <1>4, <2>4, <2>6 DEF LimitTyped
<1> QED
  BY <1>3, <1>4, <1>5, <1>6 DEF LimitTyped

\* A step that leaves the row and the requests alone.
LEMMA LimitRests ==
  ASSUME LimitInv, UNCHANGED <<time, bucket, call, admitted, regressed>>
  PROVE  LimitInv'
BY DEF LimitInv, LimitTyped, CallSound, LimitCharged, L!NeverDrained

LEMMA LimitNext ==
  ASSUME LimitAssumption, LimitInv, [L!Next]_(L!vars)
  PROVE  LimitInv'
<1> USE DEF LimitInv
<1>a. \A r \in Request : call[r] \in CallState /\ CallSound(r)
  BY DEF LimitTyped
<1>b. \A r \in Request, c \in CallState :
        L!Set(r, c) => /\ call' \in [Request -> CallState] /\ call'[r] = c
                     /\ \A q \in Request : q # r => call'[q] = call[q]
  BY DEF LimitTyped, L!Set
<1>c. L!NoCall \in CallState /\ L!NoCall.now = 0 /\ L!NoCall.pc = "idle"
  BY DEF L!NoCall, CallState, LimitAssumption, L!RateAssumption
<1>d. LastTime \in Nat /\ time \in 0..LastTime
  BY DEF LimitAssumption, L!RateAssumption, LimitTyped
<1>1. ASSUME NEW r \in Request, NEW c \in CallState, L!Set(r, c), time' = time,
             c.now <= time, c.pc = "write" => L!Refilled(c.seen, c.now) >= 1
      PROVE  call' \in [Request -> CallState] /\ \A q \in Request : CallSound(q)'
  BY <1>1, <1>a, <1>b DEF CallSound
<1>2. ASSUME UNCHANGED <<time, bucket, admitted, regressed>>, call' \in [Request -> CallState]
      PROVE  LimitTyped' /\ LimitCharged' /\ L!NeverDrained'
  BY <1>2 DEF LimitTyped, LimitCharged, L!NeverDrained
<1>3. ASSUME NEW r \in Request, L!Arrive(r) PROVE LimitInv'
  <2> DEFINE c == [pc |-> "read", now |-> time, seen |-> None, left |-> MAX_CAS_ATTEMPTS]
  <2>1. c \in CallState /\ c.now <= time /\ c.pc # "write"
    BY <1>d DEF CallState, LimitAssumption, L!RateAssumption
  <2> QED
    BY <1>1, <1>2, <1>3, <2>1 DEF L!Arrive
<1>4. ASSUME NEW r \in Request, L!Read(r) PROVE LimitInv'
  <2> DEFINE on == [call[r] EXCEPT !.pc = "write", !.seen = bucket]
  <2>1. on \in CallState /\ on.now = call[r].now /\ on.seen = bucket
    BY <1>a DEF CallState, LimitTyped
  <2>2. CASE L!Refilled(bucket, call[r].now) >= 1
    BY <1>1, <1>2, <1>4, <1>a, <2>1, <2>2 DEF L!Read, CallSound
  <2>3. CASE ~(L!Refilled(bucket, call[r].now) >= 1)
    BY <1>1, <1>2, <1>4, <1>c, <1>d, <2>3 DEF L!Read
  <2> QED
    BY <2>2, <2>3
<1>5. ASSUME NEW r \in Request, L!Set(r, L!NoCall), time' = time
      PROVE  call' \in [Request -> CallState] /\ \A q \in Request : CallSound(q)'
  BY <1>1, <1>5, <1>c, <1>d
<1>6. ASSUME NEW r \in Request, call[r].pc = "write", L!Untouched(r), L!Charge(r),
             L!Set(r, L!NoCall), time' = time
      PROVE  LimitInv'
  BY <1>5, <1>6, <1>a, <1>d, ChargeSound DEF LimitTyped
<1>7. ASSUME NEW r \in Request, L!Write(r) PROVE LimitInv'
  <2>1. CASE L!Untouched(r)
    BY <1>6, <1>7, <2>1 DEF L!Write
  <2>2. CASE ~L!Untouched(r) /\ call[r].left = 1
    BY <1>2, <1>5, <1>7, <2>2 DEF L!Write
  <2>3. CASE ~L!Untouched(r) /\ call[r].left # 1
    <3> DEFINE fewer == call[r].left - 1
               again == [call[r] EXCEPT !.pc = "read", !.left = fewer]
    <3>0. fewer \in Int
      BY <1>a DEF CallState
    <3> HIDE DEF fewer
    <3>1. again \in CallState /\ again.now = call[r].now /\ again.pc = "read"
      BY <1>a, <3>0 DEF CallState
    <3> USE DEF fewer
    <3> QED
      BY <1>1, <1>2, <1>7, <1>a, <2>3, <3>1 DEF L!Write, CallSound
  <2> QED
    BY <2>1, <2>2, <2>3
<1>8. ASSUME NEW r \in Request, L!Error(r) PROVE LimitInv'
  <2>1. CASE UNCHANGED <<bucket, admitted, regressed>>
    BY <1>2, <1>5, <1>8, <2>1 DEF L!Error
  <2>2. CASE call[r].pc = "write" /\ L!Untouched(r) /\ L!Charge(r)
    BY <1>6, <1>8, <2>2 DEF L!Error
  <2> QED
    BY <1>8, <2>1, <2>2 DEF L!Error
<1>9. ASSUME L!Elapse PROVE LimitInv'
  <2>1. time' = time + 1 /\ time' \in 0..LastTime /\ UNCHANGED <<bucket, call, admitted, regressed>>
    BY <1>9, <1>d DEF L!Elapse
  <2>2. LimitTyped' /\ L!NeverDrained'
    BY <2>1 DEF LimitTyped, L!NeverDrained
  <2>3. \A r \in Request : call[r].now \in Int
    BY <1>a DEF CallState
  <2>4. (\A r \in Request : CallSound(r))'
    BY <1>d, <2>1, <2>3 DEF CallSound
  <2>5. bucket # None => bucket.updatedAt \in Int
    BY DEF LimitTyped, L!Bucket
  <2>6. LimitCharged'
    BY <1>d, <2>1, <2>5 DEF LimitCharged
  <2> QED
    BY <2>2, <2>4, <2>6
<1>10. CASE UNCHANGED L!vars
  BY <1>10, LimitRests DEF L!vars
<1> QED
  BY <1>3, <1>4, <1>7, <1>8, <1>9, <1>10 DEF L!Next

\* The invariant bounds what was charged.
LEMMA LimitBound == ASSUME LimitAssumption, LimitInv PROVE L!BucketHonest
<1> SUFFICES ASSUME LimitInv, ~regressed PROVE admitted <= Burst + time
  BY DEF LimitInv, L!BucketHonest, L!WithinQuota
<1>1. /\ Burst \in Nat /\ LastTime \in Nat /\ time \in 0..LastTime /\ admitted \in Nat
      /\ bucket # None => bucket.tokens \in 0..Burst /\ bucket.updatedAt \in 0..LastTime
  BY DEF LimitAssumption, L!RateAssumption, LimitInv, LimitTyped, L!Bucket
<1> QED
  BY <1>1 DEF LimitInv, LimitCharged

(***************************************************************************)
(* The rate limit is kept in both directions, however requests race for the  *)
(* row (takeToken, consume), also while the other services run beside it.    *)
(***************************************************************************)
THEOREM ServicesBucketHonest == ServicesSpec => []BucketHonest
<1>0. LimitAssumption
  BY ServicesAssumption DEF LimitAssumption
<1>1. ServicesInit => LimitInv
  BY <1>0, LimitInit DEF ServicesInit
<1>2. LimitInv /\ [ServicesNext]_servicesVars => LimitInv'
  <2> SUFFICES ASSUME LimitInv, [ServicesNext]_servicesVars PROVE LimitInv'
    OBVIOUS
  <2>1. CASE L!Next
    BY <1>0, <2>1, LimitNext
  <2>2. CASE UNCHANGED <<time, bucket, call, admitted, regressed>>
    BY <2>2, LimitRests
  <2>3. L!Next \/ UNCHANGED limiter
    BY DEF ServicesNext, servicesVars
  <2> QED
    BY <2>1, <2>2, <2>3 DEF limiter
<1>3. LimitInv => BucketHonest
  BY <1>0, LimitBound DEF BucketHonest
<1> QED
  BY <1>1, <1>2, <1>3, PTL DEF ServicesSpec



\* What a replica's tick holds.
ReportTick ==
  [pc : {"idle", "claim", "run"}, now : 0..LastSlot, seen : 0..LastSlot \cup {None}]

(***************************************************************************)
(* Why no period is mailed twice: a tick under way is of this slot or the     *)
(* one before, so the claim that was won last lies no more than a period     *)
(* behind the run it is for, and the next claim looks two periods ahead.     *)
(***************************************************************************)
TickRecent(r) ==
  tick[r].pc # "idle" =>
    \/ tick[r].now = slot
    \/ tick[r].now + 1 = slot /\ r \notin ticked
RunsAlone(r) ==
  tick[r].pc = "run" =>
    /\ lastRunAt # None /\ tick[r].now <= lastRunAt
    /\ \A q \in Server \ {r} : tick[q].pc # "run"
    /\ \A p \in DOMAIN mailed : mailed[p] # 0 => p + 1 < R!Period(tick[r].now)
MailedOnce(p) ==
  mailed[p] # 0 => mailed[p] = 1 /\ lastRunAt # None /\ R!Start(p + 1) <= lastRunAt + 1
RunTime == lastRunAt = None \/ lastRunAt <= slot
ReportTyped ==
  /\ slot \in 0..LastSlot /\ lastRunAt \in R!LastRunAt
  /\ tick \in [Server -> ReportTick] /\ ticked \subseteq Server
  /\ mailed \in [0..R!Period(LastSlot) -> 0..2]
ReportInv ==
  /\ ReportTyped /\ PeriodLen <= slot /\ RunTime
  /\ \A r \in Server : TickRecent(r) /\ RunsAlone(r)
  /\ \A p \in DOMAIN mailed : MailedOnce(p)

\* Periods divide the slots.
LEMMA PeriodBounds ==
  ASSUME R!ReportAssumption, NEW at \in Nat
  PROVE  R!Period(at) \in Nat /\ R!Start(R!Period(at)) <= at /\ at < R!Start(R!Period(at)) + PeriodLen
BY DEF R!ReportAssumption, R!Period, R!Start

LEMMA StartGrows ==
  ASSUME R!ReportAssumption, NEW p \in Int, NEW q \in Int
  PROVE  /\ R!Start(p) \in Int /\ R!Start(p + 1) = R!Start(p) + PeriodLen
         /\ p < q => R!Start(p) + PeriodLen <= R!Start(q)
<1> DEFINE k == q - p - 1
<1>1. PeriodLen \in Nat \ {0} /\ R!Start(p) = p * PeriodLen /\ R!Start(p) \in Int
  BY DEF R!ReportAssumption, R!Start
<1>2. R!Start(p + 1) = R!Start(p) + PeriodLen
  BY <1>1 DEF R!Start
<1>3. ASSUME p < q PROVE R!Start(p) + PeriodLen <= R!Start(q)
  <2>1. k \in Nat /\ q = p + 1 + k
    BY <1>3
  <2>2. R!Start(q) = R!Start(p + 1) + k * PeriodLen
    BY <1>1, <2>1 DEF R!Start
  <2>3. k * PeriodLen \in Nat
    BY <1>1, <2>1
  <2> HIDE DEF k
  <2> QED
    BY <1>1, <1>2, <2>2, <2>3
<1> QED
  BY <1>1, <1>2, <1>3

LEMMA PeriodGrows ==
  ASSUME R!ReportAssumption, NEW a \in Nat, NEW b \in Nat, a <= b
  PROVE  R!Period(a) <= R!Period(b)
<1>1. /\ R!Period(a) \in Nat /\ R!Start(R!Period(a)) <= a
      /\ R!Period(b) \in Nat /\ b < R!Start(R!Period(b)) + PeriodLen
  BY PeriodBounds
<1>2. R!Start(R!Period(a)) \in Int /\ R!Start(R!Period(b)) \in Int /\ PeriodLen \in Nat
  BY <1>1, StartGrows DEF R!ReportAssumption
<1>3. R!Period(b) < R!Period(a) => R!Start(R!Period(b)) + PeriodLen <= R!Start(R!Period(a))
  BY <1>1, StartGrows
<1> QED
  BY <1>1, <1>2, <1>3

LEMMA ReportInit == ASSUME R!ReportAssumption, R!Init PROVE ReportInv
<1>1. R!Period(LastSlot) \in Nat /\ PeriodLen \in Nat
  BY PeriodBounds DEF R!ReportAssumption
<1>2. R!Resting \in ReportTick /\ R!Resting.pc = "idle"
  BY DEF R!Resting, ReportTick, R!ReportAssumption
<1>3. ReportTyped
  <2>1. tick \in [Server -> ReportTick] /\ mailed \in [0..R!Period(LastSlot) -> 0..2]
    BY <1>2 DEF R!Init
  <2>2. slot \in 0..LastSlot /\ lastRunAt \in R!LastRunAt /\ ticked \subseteq Server
    BY <1>1 DEF R!Init, R!LastRunAt, R!ReportAssumption
  <2> QED
    BY <2>1, <2>2 DEF ReportTyped
<1> QED
  BY <1>1, <1>2, <1>3 DEF R!Init, ReportInv, RunTime, TickRecent, RunsAlone, MailedOnce


\* What the steps of a tick make of the ticks.
LEMMA TickMoves ==
  ASSUME ReportTyped, NEW r \in Server, NEW state \in ReportTick, tick' = [tick EXCEPT ![r] = state]
  PROVE  /\ tick' \in [Server -> ReportTick] /\ tick'[r] = state
         /\ \A q \in Server : q # r => tick'[q] = tick[q]
BY DEF ReportTyped, ReportTick

\* A tick under way goes on, on a time no later than now.
LEMMA TickBounds ==
  ASSUME ReportInv, NEW r \in Server
  PROVE  /\ tick[r] \in ReportTick /\ tick[r].now \in Nat /\ slot \in Nat /\ slot \in 0..LastSlot
         /\ tick[r].pc # "idle" => tick[r].now <= slot /\ slot <= tick[r].now + 1
         /\ lastRunAt # None => lastRunAt \in Nat /\ lastRunAt <= slot
<1>1. tick[r] \in ReportTick /\ slot \in 0..LastSlot /\ lastRunAt \in 0..LastSlot \cup {None}
  BY DEF ReportInv, ReportTyped, ReportTick, R!LastRunAt
<1>2. tick[r].now \in Nat /\ slot \in Nat
  BY <1>1 DEF ReportTick
<1> QED
  BY <1>1, <1>2 DEF ReportInv, TickRecent, RunTime

\* A step that leaves the row, the ticks and the mails alone.
LEMMA ReportRests ==
  ASSUME ReportInv, UNCHANGED <<slot, lastRunAt, tick, ticked, mailed>>
  PROVE  ReportInv'
BY DEF ReportInv, ReportTyped, RunTime, TickRecent, RunsAlone, MailedOnce

LEMMA ReportNext ==
  ASSUME R!ReportAssumption, ReportInv, [R!Next]_(R!vars)
  PROVE  ReportInv'
<1> USE DEF ReportInv
<1>a. PeriodLen \in Nat \ {0} /\ LastSlot \in Nat /\ None \notin Nat
  BY DEF R!ReportAssumption
<1>b. R!Resting \in ReportTick /\ R!Resting.pc = "idle"
  BY DEF R!Resting, ReportTick, R!ReportAssumption
<1>1. ASSUME NEW r \in Server, R!Tick(r) PROVE ReportInv'
  <2> DEFINE state == [pc |-> "claim", now |-> slot, seen |-> lastRunAt]
  <2>1. CASE tick' = tick
    BY <1>1, <2>1 DEF R!Tick, ReportTyped, RunTime, TickRecent, RunsAlone, MailedOnce
  <2>2. CASE tick' = [tick EXCEPT ![r] = state]
    <3>1. state \in ReportTick /\ state.pc = "claim" /\ state.now = slot
      BY DEF ReportTyped, ReportTick, R!LastRunAt
    <3> HIDE DEF state
    <3>2. ReportTyped'
      BY <1>1, <2>2, <3>1, TickMoves DEF R!Tick, ReportTyped, ReportTick
    <3>3. \A q \in Server : q # r => tick'[q] = tick[q]
      BY <2>2, <3>1, TickMoves
    <3>4. tick'[r] = state
      BY <2>2, <3>1, TickMoves
    <3>5. ASSUME NEW q \in Server PROVE TickRecent(q)' /\ RunsAlone(q)'
      BY <1>1, <3>1, <3>3, <3>4 DEF R!Tick, TickRecent, RunsAlone
    <3>6. \A p \in DOMAIN mailed' : MailedOnce(p)'
      BY <1>1 DEF R!Tick, MailedOnce
    <3> QED
      BY <1>1, <3>2, <3>5, <3>6 DEF R!Tick, RunTime
  <2> QED
    BY <1>1, <2>1, <2>2 DEF R!Tick
<1>2. ASSUME NEW r \in Server, R!Claim(r), R!Claimable(tick[r].now, tick[r].seen) PROVE ReportInv'
  <2> DEFINE now == tick[r].now
             state == [tick[r] EXCEPT !.pc = "run"]
  <2>1. /\ now \in Nat /\ now \in 0..LastSlot /\ now <= slot /\ slot <= now + 1
        /\ tick[r] \in ReportTick /\ slot \in Nat
        /\ lastRunAt # None => lastRunAt \in Nat
    BY <1>2, TickBounds DEF R!Claim, ReportTick
  <2>2. /\ R!Period(now) \in Nat /\ R!Start(R!Period(now)) <= now
        /\ R!Start(R!Period(now) - 1) + PeriodLen <= R!Start(R!Period(now))
        /\ R!Start(R!Period(now)) \in Int /\ R!Start(R!Period(now) - 1) \in Int
    <3> HIDE DEF now
    <3>1. R!Period(now) \in Nat /\ R!Start(R!Period(now)) <= now
      BY <2>1, PeriodBounds
    <3>2. R!Period(now) - 1 \in Int /\ R!Period(now) \in Int /\ R!Period(now) - 1 < R!Period(now)
      BY <3>1
    <3> QED
      BY <3>1, <3>2, StartGrows
  <2>3. lastRunAt # None => lastRunAt < R!Start(R!Period(now) - 1) /\ lastRunAt + 1 < now
    BY <1>2, <1>a, <2>1, <2>2 DEF R!Claimable
  <2>4. state \in ReportTick /\ state.now = now /\ state.pc = "run"
    BY <2>1 DEF ReportTick
  <2>5. /\ tick' \in [Server -> ReportTick] /\ tick'[r] = state
        /\ \A q \in Server : q # r => tick'[q] = tick[q]
    BY <1>2, <2>4, TickMoves DEF R!Claim
  <2>6. /\ lastRunAt' = now
        /\ UNCHANGED <<slot, ticked, mailed>>
    BY <1>2 DEF R!Claim
  <2>7. \A q \in Server : tick[q].pc # "run"
    <3> SUFFICES ASSUME NEW q \in Server, tick[q].pc = "run" PROVE FALSE
      OBVIOUS
    <3>1. lastRunAt # None /\ tick[q].now <= lastRunAt
      BY DEF RunsAlone
    <3>2. tick[q].now \in Nat /\ slot <= tick[q].now + 1
      BY TickBounds
    <3> HIDE DEF now
    <3> QED
      BY <2>1, <2>3, <3>1, <3>2
  <2>8. \A p \in DOMAIN mailed : mailed[p] # 0 => p + 1 < R!Period(now)
    <3> SUFFICES ASSUME NEW p \in DOMAIN mailed, mailed[p] # 0 PROVE p + 1 < R!Period(now)
      OBVIOUS
    <3>1. p \in Nat /\ lastRunAt # None /\ R!Start(p + 1) <= lastRunAt + 1
      BY DEF ReportTyped, MailedOnce
    <3>2. R!Start(p + 1) \in Int
      BY <3>1, StartGrows
    <3>3. R!Start(p + 1) <= R!Start(R!Period(now) - 1)
      BY <2>1, <2>2, <2>3, <3>1, <3>2
    <3>4. ~(R!Period(now) - 1 < p + 1)
      <4>1. R!Period(now) - 1 < p + 1 => R!Start(R!Period(now) - 1) + PeriodLen <= R!Start(p + 1)
        BY <2>2, <3>1, StartGrows
      <4> QED
        BY <1>a, <2>2, <3>2, <3>3, <4>1
    <3> QED
      BY <2>2, <3>1, <3>4
  <2> HIDE DEF state
  <2>9. ReportTyped'
    BY <2>1, <2>5, <2>6 DEF ReportTyped, ReportTick, R!LastRunAt
  <2>10. ASSUME NEW q \in Server PROVE TickRecent(q)' /\ RunsAlone(q)'
    <3>1. TickRecent(q)'
      BY <1>2, <2>4, <2>5, <2>6 DEF TickRecent, R!Claim
    <3>2. RunsAlone(q)'
      BY <1>a, <2>1, <2>4, <2>5, <2>6, <2>7, <2>8 DEF RunsAlone
    <3> QED
      BY <3>1, <3>2
  <2>11. ASSUME NEW p \in DOMAIN mailed PROVE MailedOnce(p)'
    <3>1. mailed[p] # 0 => mailed[p] = 1 /\ lastRunAt # None /\ R!Start(p + 1) <= lastRunAt + 1
      BY DEF MailedOnce
    <3>2. R!Start(p + 1) \in Int
      BY StartGrows DEF ReportTyped
    <3> QED
      BY <1>a, <2>1, <2>3, <2>6, <3>1, <3>2 DEF MailedOnce
  <2> QED
    BY <2>1, <2>6, <2>9, <2>10, <2>11 DEF RunTime
\* A tick that ends without a claim or a mail.
<1>3. ASSUME NEW r \in Server, tick' = [tick EXCEPT ![r] = R!Resting],
             UNCHANGED <<slot, lastRunAt, ticked, mailed>>
      PROVE  ReportInv'
  <2>1. /\ tick' \in [Server -> ReportTick] /\ tick'[r] = R!Resting
        /\ \A q \in Server : q # r => tick'[q] = tick[q]
    BY <1>3, <1>b, TickMoves
  <2>2. ReportTyped'
    BY <1>3, <2>1 DEF ReportTyped, ReportTick
  <2>3. ASSUME NEW q \in Server PROVE TickRecent(q)' /\ RunsAlone(q)'
    BY <1>3, <1>b, <2>1 DEF TickRecent, RunsAlone
  <2> QED
    BY <1>3, <2>2, <2>3 DEF RunTime, MailedOnce
\* A tick that ends with a mail, and the row stamped, or not.
<1>4. ASSUME NEW r \in Server, tick[r].pc = "run", tick' = [tick EXCEPT ![r] = R!Resting],
             R!Mail(R!Period(slot) - 1), UNCHANGED <<slot, ticked>>,
             lastRunAt' \in {lastRunAt, slot}
      PROVE  ReportInv'
  <2> DEFINE now == tick[r].now
             sent == R!Period(slot) - 1
  <2>1. /\ now \in Nat /\ now <= slot /\ slot <= now + 1 /\ slot \in Nat /\ slot \in 0..LastSlot
        /\ lastRunAt # None /\ lastRunAt \in Nat /\ lastRunAt <= slot /\ now <= lastRunAt
    BY <1>4, TickBounds DEF RunsAlone
  <2>2. /\ R!Period(slot) \in Nat /\ R!Period(now) \in Nat /\ R!Period(now) <= R!Period(slot)
        /\ R!Start(R!Period(slot)) <= slot /\ R!Start(R!Period(slot)) \in Int
    <3> HIDE DEF now
    <3>1. R!Period(slot) \in Nat /\ R!Period(now) \in Nat /\ R!Start(R!Period(slot)) <= slot
      BY <2>1, PeriodBounds
    <3>2. R!Period(now) <= R!Period(slot)
      BY <2>1, PeriodGrows
    <3> QED
      BY <3>1, <3>2, StartGrows
  <2>3. /\ tick' \in [Server -> ReportTick] /\ tick'[r] = R!Resting
        /\ \A q \in Server : q # r => tick'[q] = tick[q]
    BY <1>4, <1>b, TickMoves
  <2>4. mailed \in [0..R!Period(LastSlot) -> 0..2]
    BY DEF ReportTyped
  <2>5. /\ mailed' \in [0..R!Period(LastSlot) -> 0..2]
        /\ \A p \in DOMAIN mailed : p # sent => mailed'[p] = mailed[p]
        /\ sent \in DOMAIN mailed /\ mailed[sent] = 0 => mailed'[sent] = 1
    <3> HIDE DEF sent
    <3> DEFINE count == IF mailed[sent] = 2 THEN 2 ELSE mailed[sent] + 1
    <3>1. mailed' = [mailed EXCEPT ![sent] = count]
      BY <1>4 DEF R!Mail, sent
    <3>2. sent \in 0..R!Period(LastSlot) => count \in 0..2 /\ (mailed[sent] = 0 => count = 1)
      BY <2>4
    <3> HIDE DEF count
    <3>3. mailed' \in [0..R!Period(LastSlot) -> 0..2]
      BY <2>4, <3>1, <3>2
    <3>4. DOMAIN mailed = 0..R!Period(LastSlot)
      BY <2>4
    <3> QED
      BY <3>1, <3>2, <3>3, <3>4
  <2>6. sent \in DOMAIN mailed => mailed[sent] = 0
    <3>1. sent \in DOMAIN mailed /\ mailed[sent] # 0 => sent + 1 < R!Period(now)
      BY <1>4 DEF RunsAlone
    <3> QED
      BY <2>2, <3>1
  <2>7. lastRunAt' \in Nat /\ lastRunAt' <= slot /\ lastRunAt <= lastRunAt' /\ slot <= lastRunAt' + 1
    <3> HIDE DEF now
    <3>1. lastRunAt' = lastRunAt \/ lastRunAt' = slot
      BY <1>4
    <3> QED
      BY <2>1, <3>1
  <2>8. ReportTyped'
    BY <1>4, <2>1, <2>3, <2>5, <2>7 DEF ReportTyped, ReportTick, R!LastRunAt
  <2>9. ASSUME NEW q \in Server PROVE TickRecent(q)' /\ RunsAlone(q)'
    BY <1>4, <1>b, <2>3 DEF TickRecent, RunsAlone
  <2>10. ASSUME NEW p \in DOMAIN mailed PROVE MailedOnce(p)'
    <3>1. mailed[p] # 0 => mailed[p] = 1 /\ R!Start(p + 1) <= lastRunAt + 1
      BY DEF MailedOnce
    <3>2. R!Start(p + 1) \in Int
      BY <2>4, StartGrows
    <3>3. CASE p = sent
      <4>1. mailed'[p] = 1 /\ p + 1 = R!Period(slot)
        BY <2>2, <2>5, <2>6, <3>3
      <4>2. R!Start(p + 1) <= slot
        BY <2>2, <4>1
      <4> QED
        BY <1>a, <2>1, <2>7, <3>2, <4>1, <4>2 DEF MailedOnce
    <3>4. CASE p # sent
      BY <1>a, <2>1, <2>5, <2>7, <3>1, <3>2, <3>4 DEF MailedOnce
    <3> QED
      BY <3>3, <3>4
  <2>11. DOMAIN mailed' = DOMAIN mailed
    BY <2>4, <2>5
  <2> QED
    BY <1>4, <2>7, <2>8, <2>9, <2>10, <2>11 DEF RunTime
<1>5. ASSUME R!RunNow PROVE ReportInv'
  <2>1. /\ lastRunAt' = slot /\ slot \in 0..LastSlot /\ slot \in Nat
        /\ UNCHANGED <<slot, tick, ticked, mailed>>
    BY <1>5 DEF R!RunNow, ReportTyped, R!ReportAssumption
  <2>2. ReportTyped'
    BY <2>1 DEF ReportTyped, R!LastRunAt
  <2>3. ASSUME NEW q \in Server PROVE TickRecent(q)' /\ RunsAlone(q)'
    BY <1>a, <2>1, TickBounds DEF TickRecent, RunsAlone
  <2>4. ASSUME NEW p \in DOMAIN mailed PROVE MailedOnce(p)'
    <3>1. R!Start(p + 1) \in Int
      BY StartGrows DEF ReportTyped
    <3>2. lastRunAt # None => lastRunAt \in Nat /\ lastRunAt <= slot
      BY <2>1 DEF ReportTyped, R!LastRunAt, RunTime
    <3>3. mailed[p] # 0 => mailed[p] = 1 /\ lastRunAt # None /\ R!Start(p + 1) <= lastRunAt + 1
      BY DEF MailedOnce
    <3> QED
      BY <1>a, <2>1, <3>1, <3>2, <3>3 DEF MailedOnce
  <2> QED
    BY <2>1, <2>2, <2>3, <2>4 DEF RunTime
<1>6. ASSUME R!Pass PROVE ReportInv'
  <2>1. /\ slot \in Nat /\ slot' = slot + 1 /\ slot' \in 0..LastSlot /\ ticked = Server /\ ticked' = {}
        /\ UNCHANGED <<lastRunAt, tick, mailed>>
    BY <1>6, <1>a DEF R!Pass, ReportTyped
  <2>2. ReportTyped'
    BY <2>1 DEF ReportTyped
  <2>3. ASSUME NEW q \in Server PROVE TickRecent(q)' /\ RunsAlone(q)'
    BY <2>1 DEF TickRecent, RunsAlone
  <2>4. lastRunAt # None => lastRunAt \in Nat
    BY DEF ReportTyped, R!LastRunAt
  <2> QED
    BY <1>a, <2>1, <2>2, <2>3, <2>4 DEF RunTime, MailedOnce
<1>7. CASE UNCHANGED R!vars
  BY <1>7, ReportRests DEF R!vars
<1>8. ASSUME NEW r \in Server, R!Claim(r) PROVE ReportInv'
  <2>1. CASE ~R!Claimable(tick[r].now, tick[r].seen)
    BY <1>3, <1>8, <2>1 DEF R!Claim, ReportTyped
  <2> QED
    BY <1>2, <1>8, <2>1
<1>9. ASSUME NEW r \in Server, R!Run(r) PROVE ReportInv'
  BY <1>4, <1>9 DEF R!Run, ReportTyped
<1>10. ASSUME NEW r \in Server, R!Fail(r) PROVE ReportInv'
  BY <1>3, <1>4, <1>10 DEF R!Fail
<1> QED
  BY <1>1, <1>5, <1>6, <1>7, <1>8, <1>9, <1>10 DEF R!Next

LEMMA ReportBound == ASSUME ReportInv PROVE R!AtMostOnce
BY DEF ReportInv, MailedOnce, R!AtMostOnce

(***************************************************************************)
(* "exactly one replica wins" (scheduler.ts:203-206): the scheduler mails no *)
(* period twice, whichever replicas' ticks race, fail or are late, and       *)
(* whatever an operator runs by hand in between.                             *)
(***************************************************************************)
THEOREM ServicesMailOnce == ServicesSpec => []R!AtMostOnce
<1>0. R!ReportAssumption
  BY ServicesAssumption
<1>1. ServicesInit => ReportInv
  BY <1>0, ReportInit DEF ServicesInit
<1>2. ReportInv /\ [ServicesNext]_servicesVars => ReportInv'
  <2> SUFFICES ASSUME ReportInv, [ServicesNext]_servicesVars PROVE ReportInv'
    OBVIOUS
  <2>1. CASE R!Next
    BY <1>0, <2>1, ReportNext
  <2>2. CASE UNCHANGED reports
    BY <2>2, ReportRests DEF reports
  <2> QED
    BY <2>1, <2>2 DEF ServicesNext, servicesVars
<1> QED
  BY <1>1, <1>2, ReportBound, PTL DEF ServicesSpec



WatchdogTyped ==
  /\ cfg \in {c \in Setting : D!Valid(c)}
  /\ up \in BOOLEAN /\ steady \in BOOLEAN
  /\ phase \in 0..TickLen
  /\ refresh \in {"idle", "evaluate", "write", "confirm"}
  /\ lastPet \in Nat \cup {None} /\ silent \in 0..cfg.timeout \cup {None}

(***************************************************************************)
(* Where a refresh is due at the latest, while nothing fails: the device has *)
(* waited no longer than the tick that refreshed it took, and ours is behind *)
(* by no more than that; a tick that did not find it due leaves less than an *)
(* interval, and the next one finds at most a tick more.                     *)
(***************************************************************************)
Pace ==
  IF refresh = "confirm" THEN silent <= phase /\ (phase = TickLen => silent = 0)
  ELSE /\ lastPet # None /\ silent <= lastPet + TickLen - 1
       /\ lastPet < D!EffectiveInterval(cfg) + phase + (IF refresh = "idle" THEN 0 ELSE TickLen)
WatchdogInv ==
  /\ WatchdogTyped
  /\ ~up => refresh = "idle" /\ ~steady
  /\ steady => /\ silent # None /\ Pace
               /\ refresh \in {"evaluate", "write"} => phase < TickLen

\* The interval in use, and the device's share of it.
LEMMA IntervalBounds ==
  ASSUME D!WatchdogAssumption, NEW c \in Setting
  PROVE  /\ c.timeout \in Nat \ {0} /\ D!EffectiveInterval(c) \in Nat \ {0}
         /\ c.timeout >= D!RefreshesPerTimeout * MinInterval => 3 * D!EffectiveInterval(c) <= c.timeout
<1> DEFINE third == c.timeout \div D!RefreshesPerTimeout
<1>1. c.timeout \in Nat \ {0} /\ c.interval \in Nat /\ MinInterval \in Nat \ {0}
  BY DEF D!WatchdogAssumption
<1>2. third \in Nat /\ 3 * third <= c.timeout /\ c.timeout < 3 * third + 3
  BY <1>1 DEF D!RefreshesPerTimeout
<1>3. D!EffectiveInterval(c) = D!Larger(MinInterval, D!Smaller(c.interval, third))
  BY DEF D!EffectiveInterval
<1> HIDE DEF third
<1> QED
  BY <1>1, <1>2, <1>3 DEF D!Larger, D!Smaller, D!RefreshesPerTimeout

\* Two timers that run together stay as far apart, capped or not.
LEMMA BothAge ==
  ASSUME NEW len \in Nat \ {0}, NEW cap \in Nat, NEW dev \in Nat, NEW devNext \in Nat,
         NEW own \in Nat, NEW ownNext \in Nat, dev <= own + len - 1,
         devNext <= dev + 1, devNext <= cap, ownNext = own + 1 \/ cap <= ownNext
  PROVE  devNext <= ownNext + len - 1
OBVIOUS

LEMMA WatchdogInit == ASSUME D!WatchdogAssumption, D!Init PROVE WatchdogInv
<1>1. up /\ ~steady /\ refresh = "idle"
  BY DEF D!Init
<1>2. up \in BOOLEAN /\ steady \in BOOLEAN
  BY DEF D!Init
<1>3. /\ cfg \in {c \in Setting : D!Valid(c)} /\ phase \in 0..TickLen /\ lastPet = None /\ silent = None
  BY DEF D!Init, D!WatchdogAssumption
<1> QED
  BY <1>1, <1>2, <1>3 DEF WatchdogInv, WatchdogTyped

\* A step that leaves the device, the timer and the tick alone.
LEMMA WatchdogRests ==
  ASSUME WatchdogInv, UNCHANGED <<cfg, up, phase, refresh, lastPet, silent, steady>>
  PROVE  WatchdogInv'
BY DEF WatchdogInv, WatchdogTyped, Pace, D!EffectiveInterval

LEMMA WatchdogNext ==
  ASSUME D!WatchdogAssumption, WatchdogInv, [D!Next]_(D!vars)
  PROVE  WatchdogInv'
<1> USE DEF WatchdogInv, WatchdogTyped
<1>a. /\ TickLen \in Nat \ {0} /\ None \notin Nat /\ cfg.timeout \in Nat \ {0} /\ cfg.interval \in Nat
      /\ D!EffectiveInterval(cfg) \in Nat \ {0}
  BY IntervalBounds DEF D!WatchdogAssumption
<1>1. CASE D!Fire
  BY <1>1, <1>a DEF D!Fire, Pace
<1>2. CASE D!Check
  BY <1>2, <1>a DEF D!Check, Pace, D!Due
<1>3. CASE D!Lands
  BY <1>3, <1>a DEF D!Lands, Pace
<1>4. CASE D!Returns
  BY <1>4, <1>a DEF D!Returns, Pace
<1>5. CASE D!Throws
  BY <1>5 DEF D!Throws
<1>6. CASE D!Crash
  <2>1. up' = FALSE /\ steady' = FALSE /\ refresh' = "idle"
    BY <1>6 DEF D!Crash
  <2>2. up' \in BOOLEAN /\ steady' \in BOOLEAN /\ ~steady'
    BY <2>1
  <2>3. /\ phase' \in 0..TickLen /\ lastPet' \in Nat \cup {None} /\ cfg' = cfg /\ silent' = silent
    BY <1>6, <1>a DEF D!Crash
  <2> QED
    BY <2>1, <2>2, <2>3
<1>7. CASE D!Restart
  BY <1>7 DEF D!Restart
<1>8. CASE D!Pass
  <2>1. /\ cfg' = cfg /\ up' = up /\ refresh' = refresh
        /\ phase' \in 0..TickLen /\ phase' = (IF up THEN phase + 1 ELSE phase)
        /\ steady' \in BOOLEAN
        /\ steady' => steady /\ (refresh = "idle" \/ phase' # TickLen)
    <3>1. /\ cfg' = cfg /\ up' = up /\ refresh' = refresh
          /\ phase' = (IF up THEN phase + 1 ELSE phase) /\ (up => phase < TickLen)
          /\ steady' = (steady /\ ~(refresh # "idle" /\ phase' = TickLen))
      BY <1>8 DEF D!Pass
    <3>2. phase' \in 0..TickLen
      BY <1>a, <3>1
    <3>3. steady' \in BOOLEAN /\ (steady' => steady /\ (refresh = "idle" \/ phase' # TickLen))
      BY <3>1, Zenon
    <3> QED
      BY <3>1, <3>2, <3>3
  <2>2. /\ lastPet = None => lastPet' = None
        /\ lastPet # None => lastPet' \in Nat /\ lastPet' <= lastPet + 1
                             /\ (lastPet' = lastPet + 1 \/ cfg.timeout <= lastPet')
    BY <1>8, <1>a DEF D!Pass, D!Age, D!Smaller, D!Cap
  <2>3. /\ silent = None => silent' = None
        /\ silent # None => silent' \in 0..cfg.timeout /\ silent' <= silent + 1
    BY <1>8, <1>a DEF D!Pass, D!Age, D!Smaller
  <2>4. WatchdogTyped'
    BY <2>1, <2>2, <2>3
  <2>5. ~up' => refresh' = "idle" /\ ~steady'
    BY <2>1
  <2>6. ASSUME steady' PROVE silent' # None /\ (refresh' \in {"evaluate", "write"} => phase' < TickLen)
    BY <1>a, <2>1, <2>3, <2>6
  <2>7. ASSUME steady' PROVE Pace'
    <3>1. steady /\ Pace /\ silent # None /\ up /\ phase' = phase + 1 /\ phase \in Nat
          /\ silent \in Nat /\ silent' \in Nat
      BY <1>a, <2>1, <2>3, <2>7
    <3>2. CASE refresh = "confirm"
      BY <1>a, <2>1, <2>3, <2>7, <3>1, <3>2 DEF Pace
    <3>3. CASE refresh # "confirm"
      <4>1. /\ lastPet \in Nat /\ lastPet' \in Nat /\ silent <= lastPet + TickLen - 1
            /\ lastPet < D!EffectiveInterval(cfg) + phase + (IF refresh = "idle" THEN 0 ELSE TickLen)
        BY <1>a, <2>2, <3>1, <3>3 DEF Pace
      <4>2. silent' <= lastPet' + TickLen - 1
        <5>1. silent' <= silent + 1 /\ silent' <= cfg.timeout
          BY <1>a, <2>3, <3>1
        <5>2. lastPet' = lastPet + 1 \/ cfg.timeout <= lastPet'
          BY <1>a, <2>2, <4>1
        <5>3. /\ TickLen \in Nat \ {0} /\ cfg.timeout \in Nat /\ silent \in Nat /\ silent' \in Nat
              /\ lastPet \in Nat /\ lastPet' \in Nat /\ silent <= lastPet + TickLen - 1
          BY <1>a, <3>1, <4>1
        <5> HIDE DEF WatchdogInv, WatchdogTyped
        <5> QED
          BY <5>1, <5>2, <5>3, BothAge
      <4>3. lastPet' < D!EffectiveInterval(cfg) + phase' + (IF refresh = "idle" THEN 0 ELSE TickLen)
        BY <1>a, <2>2, <3>1, <4>1
      <4>4. D!EffectiveInterval(cfg)' = D!EffectiveInterval(cfg)
        BY <2>1 DEF D!EffectiveInterval
      <4> QED
        BY <1>a, <2>1, <3>3, <4>1, <4>2, <4>3, <4>4 DEF Pace
    <3> QED
      BY <3>2, <3>3
  <2> QED
    BY <2>4, <2>5, <2>6, <2>7
<1>9. CASE UNCHANGED D!vars
  BY <1>9, WatchdogRests DEF D!vars
<1> QED
  BY <1>1, <1>2, <1>3, <1>4, <1>5, <1>6, <1>7, <1>8, <1>9 DEF D!Next, D!Step

LEMMA WatchdogBound == ASSUME D!WatchdogAssumption, WatchdogInv PROVE D!KeptAlive
<1> SUFFICES ASSUME silent = cfg.timeout, steady, cfg.timeout >= D!RefreshesPerTimeout * MinInterval,
                    2 * cfg.timeout > 9 * (TickLen - 1)
             PROVE  FALSE
  <2>1. /\ cfg.timeout \in Nat /\ TickLen \in Nat /\ MinInterval \in Nat
    BY IntervalBounds DEF D!WatchdogAssumption, WatchdogInv, WatchdogTyped
  <2> QED
    BY <2>1 DEF D!KeptAlive, D!Reverted, D!RefreshesPerTimeout
<1>1. /\ cfg.timeout \in Nat \ {0} /\ TickLen \in Nat \ {0} /\ MinInterval \in Nat \ {0}
      /\ D!EffectiveInterval(cfg) \in Nat /\ 3 * D!EffectiveInterval(cfg) <= cfg.timeout
      /\ cfg.timeout >= 3 * MinInterval
  BY IntervalBounds DEF D!WatchdogAssumption, WatchdogInv, WatchdogTyped, D!RefreshesPerTimeout
<1>2. Pace /\ phase \in 0..TickLen /\ lastPet \in Nat \cup {None}
      /\ (refresh \in {"evaluate", "write"} => phase < TickLen)
      /\ refresh \in {"idle", "evaluate", "write", "confirm"}
  BY DEF WatchdogInv, WatchdogTyped
<1>3. CASE refresh = "confirm"
  BY <1>1, <1>2, <1>3 DEF Pace
<1>4. CASE refresh # "confirm"
  <2>1. lastPet \in Nat /\ cfg.timeout <= lastPet + TickLen - 1
    BY <1>2, <1>4 DEF Pace
  <2>2. lastPet <= D!EffectiveInterval(cfg) + 2 * TickLen - 2
    BY <1>1, <1>2, <1>4, <2>1 DEF Pace
  <2> QED
    BY <1>1, <2>1, <2>2
<1> QED
  BY <1>3, <1>4

(***************************************************************************)
(* "make the device revert DURING normal operation ... worse than no         *)
(* watchdog" (watchdog.ts:75-76): while nothing fails or is late, a device   *)
(* with a timeout of more than four and a half ticks and of three of the     *)
(* shortest refreshes never reverts, whatever its block says.                *)
(***************************************************************************)
THEOREM ServicesKeptAlive == ServicesSpec => []D!KeptAlive
<1>0. D!WatchdogAssumption
  BY ServicesAssumption
<1>1. ServicesInit => WatchdogInv
  BY <1>0, WatchdogInit DEF ServicesInit
<1>2. WatchdogInv /\ [ServicesNext]_servicesVars => WatchdogInv'
  <2> SUFFICES ASSUME WatchdogInv, [ServicesNext]_servicesVars PROVE WatchdogInv'
    OBVIOUS
  <2>1. CASE D!Next
    BY <1>0, <2>1, WatchdogNext
  <2>2. CASE UNCHANGED watchdog
    BY <2>2, WatchdogRests DEF watchdog
  <2> QED
    BY <2>1, <2>2 DEF ServicesNext, servicesVars
<1>3. WatchdogInv => D!KeptAlive
  BY <1>0, WatchdogBound
<1> QED
  BY <1>1, <1>2, <1>3, PTL DEF ServicesSpec



\* What a sweep holds.
SweepOf ==
  [pc : {"idle", "build", "open", "write", "stat", "fail", "stale"},
   todo : SUBSET E!Export, at : E!Export \cup {None}]
ExportTyped ==
  /\ export \in [E!Export -> E!ExportStatus]
  /\ asking \subseteq E!Export /\ aged \subseteq E!Export
  /\ left \subseteq E!Export /\ kept \subseteq E!Export
  /\ archive \in [E!Export -> {"none", "partial", "whole"}]
  /\ builder \in [Builder -> SweepOf]
  /\ \A b \in Builder :
       /\ (builder[b].pc \in {"open", "write", "stat", "fail"}) <=> builder[b].at # None
       /\ builder[b].pc = "stale" => builder[b].todo # {}

(***************************************************************************)
(* Rows go through asking before they are a row: what a sweep lists or holds *)
(* has been inserted, so no insert sets it back.                             *)
(***************************************************************************)
Asked ==
  /\ \A e \in asking : export[e] = "none"
  /\ \A b \in Builder : \A e \in builder[b].todo \cup {builder[b].at} :
       e # None => export[e] # "none"

(***************************************************************************)
(* Why an archive is whole: an export no two sweeps had in hand has one      *)
(* build at a time, whose step says what is in the file; and with none in    *)
(* hand only a ready row, one left running, and one whose file could not be  *)
(* removed, has a file - but never a ready one half of it.                   *)
(***************************************************************************)
InStep(b, e) ==
  /\ \A c \in Builder \ {b} : builder[c].at # e
  /\ export[e] \in {"running", "ready"}
  /\ builder[b].pc = "open" => export[e] = "running"
  /\ builder[b].pc = "write" => export[e] = "running" /\ archive[e] = "partial"
  /\ builder[b].pc = "stat" => export[e] = "running" /\ archive[e] = "whole"
  /\ builder[b].pc = "fail" =>
       /\ archive[e] = "none" \/ e \in kept
       /\ export[e] = "ready" => archive[e] # "partial"
Rests(e) ==
  (\A b \in Builder : builder[b].at # e) =>
    /\ export[e] \in {"running", "ready"} \/ archive[e] = "none" \/ e \in kept
    /\ export[e] = "ready" => archive[e] # "partial"
Filed ==
  \A e \in E!Export \ crossed :
    /\ Rests(e)
    /\ \A b \in Builder : builder[b].at = e => InStep(b, e)
ExportInv == ExportTyped /\ Asked /\ Filed

LEMMA ExportInit ==
  ASSUME E!ExportAssumption, E!Init
  PROVE  ExportInv
BY DEF E!ExportAssumption, E!Init, ExportInv, ExportTyped, Asked, Filed, Rests, InStep, E!Asleep, SweepOf,
       E!Export, E!ExportStatus

\* The lowest of a list is on it.
LEMMA FirstListed ==
  ASSUME NEW list, list \subseteq Nat, list # {}
  PROVE  E!First(list) \in list
<1> DEFINE order == OpToRel(<, Nat)
<1>1. \A y \in Nat, x \in Nat : <<y, x>> \in order <=> y < x
  BY DEF OpToRel
<1>2. IsWellFoundedOn(order, Nat)
  BY NatLessThanWellFounded
<1> HIDE DEF order
<1>3. PICK x \in list : \A y \in list : ~ (<<y, x>> \in order)
  BY <1>2, WFMin
<1>4. ASSUME NEW y \in list PROVE x <= y
  <2>1. x \in Nat /\ y \in Nat
    OBVIOUS
  <2>2. ~ (y < x)
    BY <1>1, <1>3, <2>1
  <2> QED
    BY <2>1, <2>2
<1> QED
  BY <1>4 DEF E!First

\* A sweep with a list takes a row of it in hand.
LEMMA FirstIsExport ==
  ASSUME E!ExportAssumption, ExportTyped, NEW b \in Builder, builder[b].todo # {}
  PROVE  E!First(builder[b].todo) \in builder[b].todo /\ E!First(builder[b].todo) \in E!Export
<1>1. builder[b].todo \in SUBSET E!Export
  BY DEF ExportTyped, SweepOf
<1>2. builder[b].todo \subseteq Nat
  BY <1>1 DEF E!Export
<1> QED
  BY <1>1, <1>2, FirstListed

\* How a sweep that was asleep, or is at the end of its first list, goes on.
LEMMA Awake ==
  ASSUME NEW pc \in {"build", "stale"}, NEW todo \in SUBSET E!Export
  PROVE  [E!Asleep EXCEPT !.pc = pc, !.todo = todo] = [pc |-> pc, todo |-> todo, at |-> None]
<1> DEFINE state == [E!Asleep EXCEPT !.pc = pc, !.todo = todo]
<1>1. E!Asleep \in SweepOf /\ E!Asleep.at = None
  BY DEF E!Asleep, SweepOf
<1>2. state \in SweepOf /\ state.pc = pc /\ state.todo = todo /\ state.at = None
  BY <1>1 DEF SweepOf
<1> HIDE DEF state
<1>3. state = [pc |-> pc, todo |-> todo, at |-> None]
  BY <1>2 DEF SweepOf
<1> QED
  BY <1>3 DEF state

LEMMA ExportRests ==
  ASSUME ExportInv, UNCHANGED <<export, asking, aged, archive, builder, crossed, left, kept>>
  PROVE  ExportInv'
BY DEF ExportInv, ExportTyped, Asked, Filed, Rests, InStep

LEMMA ExportNext ==
  ASSUME E!ExportAssumption, ExportInv, E!Next
  PROVE  ExportInv'
<1> USE DEF ExportInv
<1> \A e \in E!Export : e # None
  BY DEF E!ExportAssumption, E!Export
<1> SUFFICES ASSUME TRUE PROVE ExportTyped' /\ Asked' /\ Filed'
  OBVIOUS
<1>1. ASSUME NEW e \in E!Export, E!Ask(e) PROVE ExportTyped' /\ Asked' /\ Filed'
  BY <1>1 DEF E!Ask, ExportTyped, Asked, Filed, Rests, InStep
<1>2. ASSUME NEW e \in E!Export, E!Insert(e) PROVE ExportTyped' /\ Asked' /\ Filed'
  BY <1>2 DEF E!Insert, E!Sets, ExportTyped, E!ExportStatus, Asked, Filed, Rests, InStep
<1>3. ASSUME NEW e \in E!Export, E!Age(e) PROVE ExportTyped' /\ Asked' /\ Filed'
  BY <1>3 DEF E!Age, ExportTyped, Asked, Filed, Rests, InStep
<1>4. ASSUME NEW b \in Builder, E!ExportSweep(b) PROVE ExportTyped' /\ Asked' /\ Filed'
  <2>1. E!Pending \in SUBSET E!Export /\ \A e \in E!Pending : export[e] = "pending"
    BY DEF E!Pending
  <2>2. builder' = [builder EXCEPT ![b] = [pc |-> "build", todo |-> E!Pending, at |-> None]]
    <3>1. [E!Asleep EXCEPT !.pc = "build", !.todo = E!Pending] =
            [pc |-> "build", todo |-> E!Pending, at |-> None]
      BY <2>1, Awake
    <3>2. builder' = [builder EXCEPT ![b] = [E!Asleep EXCEPT !.pc = "build", !.todo = E!Pending]]
      BY <1>4 DEF E!ExportSweep, E!Becomes
    <3> QED
      BY <3>1, <3>2
  <2> QED
    BY <1>4, <2>1, <2>2 DEF E!ExportSweep, E!Asleep, ExportTyped, SweepOf, Asked, Filed, Rests, InStep
<1>5. ASSUME NEW b \in Builder, E!Begin(b) PROVE ExportTyped' /\ Asked' /\ Filed'
  <2> DEFINE e == E!First(builder[b].todo)
  <2>1. e \in builder[b].todo /\ e \in E!Export
    BY <1>5, FirstIsExport DEF E!Begin
  <2>2. /\ builder[b].pc = "build" /\ builder[b].at = None
        /\ export' = [export EXCEPT ![e] = "running"]
        /\ builder' = [builder EXCEPT ![b] = [pc |-> "open", todo |-> builder[b].todo \ {e}, at |-> e]]
        /\ UNCHANGED <<asking, aged, archive, left, kept>>
    BY <1>5 DEF E!Begin, E!Sets, E!Running, E!Becomes, ExportTyped
  <2>3. crossed \subseteq crossed' /\ (e \notin crossed' => \A c \in Builder : builder[c].at # e)
    BY <1>5 DEF E!Begin, E!Crossing, E!InHand
  <2> HIDE DEF e
  <2>4. ExportTyped'
    BY <2>1, <2>2 DEF ExportTyped, SweepOf, E!ExportStatus
  <2>5. Asked'
    BY <2>1, <2>2 DEF ExportTyped, SweepOf, Asked
  <2>6. Filed'
    BY <2>1, <2>2, <2>3 DEF ExportTyped, SweepOf, Filed, Rests, InStep
  <2> QED
    BY <2>4, <2>5, <2>6
<1>5o. ASSUME NEW b \in Builder, E!Open(b) PROVE ExportTyped' /\ Asked' /\ Filed'
  <2> DEFINE e == builder[b].at
  <2>1. e \in E!Export /\ builder[b].pc = "open"
    BY <1>5o DEF E!Open, ExportTyped, SweepOf
  <2>2. /\ archive' = [archive EXCEPT ![e] = "partial"]
        /\ builder' = [builder EXCEPT ![b] = [builder[b] EXCEPT !.pc = "write"]]
        /\ UNCHANGED <<export, asking, aged, crossed, left, kept>>
    BY <1>5o DEF E!Open, E!Becomes
  <2>4. ExportTyped'
    BY <2>1, <2>2 DEF ExportTyped, SweepOf
  <2>5. Asked'
    BY <2>1, <2>2 DEF ExportTyped, SweepOf, Asked
  <2>6. Filed'
    BY <2>1, <2>2 DEF ExportTyped, SweepOf, Filed, Rests, InStep
  <2> QED
    BY <2>4, <2>5, <2>6
<1>6. ASSUME NEW b \in Builder, E!Finish(b) PROVE ExportTyped' /\ Asked' /\ Filed'
  <2> DEFINE e == builder[b].at
  <2>1. e \in E!Export /\ builder[b].pc = "write"
    BY <1>6 DEF E!Finish, ExportTyped, SweepOf
  <2>2. /\ archive' = [archive EXCEPT ![e] = IF archive[e] = "none" THEN "none" ELSE "whole"]
        /\ builder' = [builder EXCEPT ![b] =
                         [builder[b] EXCEPT !.pc = IF archive[e] = "none" THEN "fail" ELSE "stat"]]
        /\ UNCHANGED <<export, asking, aged, crossed, left, kept>>
    BY <1>6 DEF E!Finish, E!Becomes
  <2>4. ExportTyped'
    BY <2>1, <2>2 DEF ExportTyped, SweepOf
  <2>5. Asked'
    BY <2>1, <2>2 DEF ExportTyped, SweepOf, Asked
  <2>6. Filed'
    BY <2>1, <2>2 DEF ExportTyped, SweepOf, Filed, Rests, InStep
  <2> QED
    BY <2>4, <2>5, <2>6
<1>7. ASSUME NEW b \in Builder, E!Publish(b) PROVE ExportTyped' /\ Asked' /\ Filed'
  <2> DEFINE e == builder[b].at
  <2>1. e \in E!Export /\ builder[b].pc = "stat"
    BY <1>7 DEF E!Publish, ExportTyped, SweepOf
  <2>2. /\ export' = [export EXCEPT ![e] = "ready"] /\ aged' = aged \ {e}
        /\ builder' = [builder EXCEPT ![b] = [builder[b] EXCEPT !.pc = "build", !.at = None]]
        /\ UNCHANGED <<archive, asking, crossed, left, kept>>
    BY <1>7 DEF E!Publish, E!Onward, E!Becomes, E!Sets
  <2>4. ExportTyped'
    BY <2>1, <2>2 DEF ExportTyped, SweepOf, E!ExportStatus
  <2>5. Asked'
    BY <2>1, <2>2 DEF ExportTyped, SweepOf, Asked
  <2>6. Filed'
    BY <2>1, <2>2 DEF ExportTyped, SweepOf, Filed, Rests, InStep
  <2> QED
    BY <2>4, <2>5, <2>6
<1>8. ASSUME NEW b \in Builder, E!Throw(b) PROVE ExportTyped' /\ Asked' /\ Filed'
  <2> DEFINE e == builder[b].at
  <2>1. e \in E!Export /\ builder[b].pc \in {"write", "stat"}
    BY <1>8 DEF E!Throw, ExportTyped, SweepOf
  <2>2. /\ export' = export \/ export' = [export EXCEPT ![e] = "ready"]
        /\ builder[b].pc = "write" => export' = export
        /\ \/ archive' = [archive EXCEPT ![e] = "none"] /\ kept' = kept
           \/ archive' = archive /\ kept' = kept \cup {e}
        /\ builder' = [builder EXCEPT ![b] = [builder[b] EXCEPT !.pc = "fail"]]
        /\ UNCHANGED <<asking, aged, crossed, left>>
    BY <1>8 DEF E!Throw, E!Becomes, E!Sets
  <2>4. ExportTyped'
    BY <2>1, <2>2 DEF ExportTyped, SweepOf, E!ExportStatus
  <2>5. Asked'
    BY <2>1, <2>2 DEF ExportTyped, SweepOf, Asked
  <2>6. Filed'
    BY <2>1, <2>2 DEF ExportTyped, SweepOf, Filed, Rests, InStep
  <2> QED
    BY <2>4, <2>5, <2>6
<1>9. ASSUME NEW b \in Builder, E!MarkFailed(b) PROVE ExportTyped' /\ Asked' /\ Filed'
  <2> DEFINE e == builder[b].at
  <2>1. e \in E!Export /\ builder[b].pc = "fail"
    BY <1>9 DEF E!MarkFailed, ExportTyped, SweepOf
  <2>2. /\ export' = [export EXCEPT ![e] = "failed"]
        /\ builder' = [builder EXCEPT ![b] = [builder[b] EXCEPT !.pc = "build", !.at = None]]
        /\ UNCHANGED <<archive, asking, aged, crossed, left, kept>>
    BY <1>9 DEF E!MarkFailed, E!Onward, E!Becomes, E!Sets
  <2>4. ExportTyped'
    BY <2>1, <2>2 DEF ExportTyped, SweepOf, E!ExportStatus
  <2>5. Asked'
    BY <2>1, <2>2 DEF ExportTyped, SweepOf, Asked
  <2>6. Filed'
    BY <2>1, <2>2 DEF ExportTyped, SweepOf, Filed, Rests, InStep
  <2> QED
    BY <2>4, <2>5, <2>6
<1>10. ASSUME NEW b \in Builder, E!ListStale(b) PROVE ExportTyped' /\ Asked' /\ Filed'
  <2>1. E!Outdated \in SUBSET E!Export /\ \A e \in E!Outdated : export[e] = "ready"
    BY DEF E!Outdated
  <2>2. PICK state \in {[pc |-> "idle", todo |-> {}, at |-> None],
                        [pc |-> "stale", todo |-> E!Outdated, at |-> None]} :
          /\ builder' = [builder EXCEPT ![b] = state]
          /\ state.pc = "stale" => E!Outdated # {}
    <3>1. CASE E!Outdated = {}
      BY <1>10, <3>1 DEF E!ListStale, E!Becomes, E!Asleep
    <3>2. CASE E!Outdated # {}
      <4>1. [E!Asleep EXCEPT !.pc = "stale", !.todo = E!Outdated] =
              [pc |-> "stale", todo |-> E!Outdated, at |-> None]
        BY <2>1, Awake
      <4>2. builder' = [builder EXCEPT ![b] = [E!Asleep EXCEPT !.pc = "stale", !.todo = E!Outdated]]
        BY <1>10, <3>2 DEF E!ListStale, E!Becomes
      <4> QED
        BY <3>2, <4>1, <4>2
    <3> QED
      BY <3>1, <3>2
  <2>3. builder[b].at = None
    BY <1>10 DEF E!ListStale, ExportTyped
  <2> QED
    BY <1>10, <2>1, <2>2, <2>3
    DEF E!ListStale, ExportTyped, SweepOf, Asked, Filed, Rests, InStep
<1>11. ASSUME NEW b \in Builder, E!Expire(b) PROVE ExportTyped' /\ Asked' /\ Filed'
  <2> DEFINE e == E!First(builder[b].todo)
  <2>0. builder[b].pc = "stale" /\ builder[b].todo # {} /\ builder[b].at = None
    BY <1>11 DEF E!Expire, ExportTyped
  <2>1. e \in builder[b].todo /\ e \in E!Export
    BY <2>0, FirstIsExport
  <2>2. /\ export' = [export EXCEPT ![e] = "expired"]
        /\ \/ archive' = [archive EXCEPT ![e] = "none"] /\ kept' = kept
           \/ archive' = archive /\ kept' = kept \cup {e}
        /\ UNCHANGED <<asking, aged, left>>
    BY <1>11 DEF E!Expire, E!Sets, E!Removed
  <2>3. crossed \subseteq crossed' /\ (e \notin crossed' => \A c \in Builder : builder[c].at # e)
    BY <1>11 DEF E!Expire, E!Crossing, E!InHand
  <2>4. PICK state \in {[pc |-> "idle", todo |-> {}, at |-> None],
                        [pc |-> "stale", todo |-> builder[b].todo \ {e}, at |-> None]} :
          /\ builder' = [builder EXCEPT ![b] = state]
          /\ state.pc = "stale" => state.todo # {}
    <3>1. CASE builder[b].todo \ {e} = {}
      BY <1>11, <3>1 DEF E!Expire, E!Becomes, E!Asleep
    <3>2. CASE builder[b].todo \ {e} # {}
      <4>1. builder[b] \in SweepOf
        BY DEF ExportTyped
      <4>2. [builder[b] EXCEPT !.todo = builder[b].todo \ {e}] =
              [pc |-> "stale", todo |-> builder[b].todo \ {e}, at |-> None]
        BY <4>1, <2>0 DEF SweepOf
      <4> QED
        BY <1>11, <3>2, <4>2 DEF E!Expire, E!Becomes
    <3> QED
      BY <3>1, <3>2
  <2> HIDE DEF e
  <2>5. ExportTyped'
    BY <2>1, <2>2, <2>4 DEF ExportTyped, SweepOf, E!ExportStatus
  <2>6. Asked'
    BY <2>1, <2>2, <2>4 DEF ExportTyped, SweepOf, Asked
  <2>7. Filed'
    BY <2>0, <2>1, <2>2, <2>3, <2>4 DEF ExportTyped, SweepOf, Filed, Rests, InStep
  <2> QED
    BY <2>5, <2>6, <2>7
<1>12. ASSUME E!Crash PROVE ExportTyped' /\ Asked' /\ Filed'
  <2>1. /\ \A b \in Builder : builder'[b] = [pc |-> "idle", todo |-> {}, at |-> None]
        /\ builder' \in [Builder -> SweepOf]
        /\ left' \subseteq E!Export
        /\ UNCHANGED <<export, asking, aged, archive, crossed, kept>>
    BY <1>12 DEF E!Crash, E!Asleep, ExportTyped, SweepOf
  <2> QED
    BY <2>1 DEF ExportTyped, SweepOf, Asked, Filed, Rests, InStep
<1>13. ASSUME NEW b \in Builder, E!SweepEnds(b) PROVE ExportTyped' /\ Asked' /\ Filed'
  <2> DEFINE next == E!First(builder[b].todo)
  <2>1. /\ builder' = [builder EXCEPT ![b] = [pc |-> "idle", todo |-> {}, at |-> None]]
        /\ UNCHANGED <<asking, aged, kept>>
    BY <1>13 DEF E!SweepEnds, E!Becomes, E!Asleep
  <2>2. builder[b].todo # {} => next \in builder[b].todo /\ next \in E!Export
    BY FirstIsExport
  <2>3. ASSUME UNCHANGED <<export, archive, crossed>>, left' \subseteq E!Export
        PROVE  ExportTyped' /\ Asked' /\ Filed'
    <3>1. ExportTyped' /\ Asked'
      BY <2>1, <2>3 DEF ExportTyped, SweepOf, Asked
    <3>2. Filed'
      BY <2>1, <2>3 DEF ExportTyped, SweepOf, Filed, Rests, InStep
    <3> QED
      BY <3>1, <3>2
  <2>4. CASE builder[b].pc = "fail"
    <3> DEFINE e == builder[b].at
    <3>1. e \in E!Export
      BY <2>4 DEF ExportTyped, SweepOf
    <3>2. CASE UNCHANGED export /\ left' = left \cup {e} /\ UNCHANGED <<archive, crossed>>
      BY <2>3, <3>1, <3>2 DEF ExportTyped
    <3>3. CASE export' = [export EXCEPT ![e] = "failed"] /\ UNCHANGED <<left, archive, crossed>>
      <4>1. ExportTyped' /\ Asked'
        BY <2>1, <3>1, <3>3 DEF ExportTyped, SweepOf, E!ExportStatus, Asked
      <4>2. Filed'
        BY <2>1, <2>4, <3>1, <3>3 DEF ExportTyped, SweepOf, Filed, Rests, InStep
      <4> QED
        BY <4>1, <4>2
    <3> QED
      BY <1>13, <2>4, <3>2, <3>3 DEF E!SweepEnds, E!Sets
  <2>5. CASE builder[b].pc = "open"
    <3>1. builder[b].at \in E!Export
      BY <2>5 DEF ExportTyped, SweepOf
    <3>2. left' = left \cup {builder[b].at} /\ UNCHANGED <<export, archive, crossed>>
      BY <1>13, <2>5 DEF E!SweepEnds
    <3> QED
      BY <2>3, <3>1, <3>2 DEF ExportTyped
  <2>6. CASE builder[b].pc = "build"
    <3>1. CASE UNCHANGED <<export, archive, crossed, left>>
      BY <2>3, <3>1 DEF ExportTyped
    <3>2. CASE /\ builder[b].todo # {} /\ export' = [export EXCEPT ![next] = "running"]
               /\ left' = left \cup {next} /\ crossed' = E!Crossing(next) /\ UNCHANGED archive
      <4>1. next \in builder[b].todo /\ next \in E!Export /\ builder[b].at = None
        BY <2>2, <2>6, <3>2 DEF ExportTyped
      <4>2. crossed \subseteq crossed' /\ (next \notin crossed' => \A c \in Builder : builder[c].at # next)
        BY <3>2 DEF E!Crossing, E!InHand
      <4> HIDE DEF next
      <4>3. ExportTyped' /\ Asked'
        BY <2>1, <3>2, <4>1 DEF ExportTyped, SweepOf, E!ExportStatus, Asked
      <4>4. Filed'
        BY <2>1, <3>2, <4>1, <4>2 DEF ExportTyped, SweepOf, Filed, Rests, InStep
      <4> QED
        BY <4>3, <4>4
    <3> QED
      BY <1>13, <2>6, <3>1, <3>2 DEF E!SweepEnds, E!Sets, E!Running
  <2>7. CASE builder[b].pc = "stale"
    <3>1. next \in builder[b].todo /\ next \in E!Export /\ builder[b].at = None
      BY <2>2, <2>7 DEF ExportTyped
    <3>2. /\ export' = export \/ export' = [export EXCEPT ![next] = "expired"]
          /\ archive' = [archive EXCEPT ![next] = "none"]
          /\ crossed' = E!Crossing(next) /\ UNCHANGED left
      BY <1>13, <2>7 DEF E!SweepEnds, E!Sets, E!Removed
    <3>3. crossed \subseteq crossed' /\ (next \notin crossed' => \A c \in Builder : builder[c].at # next)
      BY <3>2 DEF E!Crossing, E!InHand
    <3> HIDE DEF next
    <3>4. ExportTyped' /\ Asked'
      BY <2>1, <3>1, <3>2 DEF ExportTyped, SweepOf, E!ExportStatus, Asked
    <3>5. Filed'
      BY <2>1, <3>1, <3>2, <3>3 DEF ExportTyped, SweepOf, Filed, Rests, InStep
    <3> QED
      BY <3>4, <3>5
  <2> QED
    BY <1>13, <2>4, <2>5, <2>6, <2>7 DEF E!SweepEnds
<1> QED
  BY <1>1, <1>2, <1>3, <1>4, <1>5, <1>5o, <1>6, <1>7, <1>8, <1>9, <1>10, <1>11, <1>12, <1>13 DEF E!Next, E!Work

LEMMA ExportHolds ==
  ASSUME E!ExportAssumption, ExportInv
  PROVE  E!HandedOutWhole /\ E!NothingLingers
<1>1. ASSUME NEW e \in E!Export \ crossed
      PROVE  /\ E!Downloadable(e) => archive[e] = "whole"
             /\ export[e] \in {"failed", "expired"} /\ E!InHand(e) = {} =>
                  archive[e] = "none" \/ e \in kept
  <2>1. e # None
    BY DEF E!ExportAssumption, E!Export
  <2>2. archive[e] \in {"none", "partial", "whole"}
    BY DEF ExportInv, ExportTyped
  <2>3. CASE \A b \in Builder : builder[b].at # e
    BY <2>2, <2>3 DEF ExportInv, Filed, Rests, E!Downloadable
  <2>4. ASSUME NEW b \in Builder, builder[b].at = e
        PROVE  E!InHand(e) # {} /\ (E!Downloadable(e) => archive[e] = "whole")
    <3>1. builder[b].pc \in {"open", "write", "stat", "fail"}
      BY <2>1, <2>4 DEF ExportInv, ExportTyped
    <3>2. InStep(b, e)
      BY <2>4 DEF ExportInv, Filed
    <3>3. b \in E!InHand(e)
      BY <2>4 DEF E!InHand
    <3> QED
      BY <2>2, <3>1, <3>2, <3>3 DEF InStep, E!Downloadable
  <2> QED
    BY <2>3, <2>4
<1> QED
  BY <1>1 DEF E!HandedOutWhole, E!NothingLingers

(***************************************************************************)
(* "A half-written archive is worse than none" (export.ts:183): of an export *)
(* no two sweeps had in hand at once a link leads to a whole archive only,   *)
(* whatever throws and wherever a sweep or its process ends; and a row that  *)
(* says failed or expired has none but one whose removal threw.              *)
(***************************************************************************)
THEOREM ServicesExportsWhole == ServicesSpec => [](E!HandedOutWhole /\ E!NothingLingers)
<1>0. E!ExportAssumption
  BY ServicesAssumption
<1>1. ServicesInit => ExportInv
  BY <1>0, ExportInit DEF ServicesInit
<1>2. ExportInv /\ [ServicesNext]_servicesVars => ExportInv'
  <2> SUFFICES ASSUME ExportInv, [ServicesNext]_servicesVars PROVE ExportInv'
    OBVIOUS
  <2>1. CASE E!Next
    BY <1>0, <2>1, ExportNext
  <2>2. CASE UNCHANGED exports
    BY <2>2, ExportRests DEF exports
  <2> QED
    BY <2>1, <2>2 DEF ServicesNext, servicesVars
<1>3. ExportInv => E!HandedOutWhole /\ E!NothingLingers
  BY <1>0, ExportHolds
<1> QED
  BY <1>1, <1>2, <1>3, PTL DEF ServicesSpec



\* What a request asks, and where a purge is.
RequestState ==
  [op : {"none", "invite", "accept", "join", "switch", "remove", "removed"},
   org : P!Org \cup {None}, left : P!Org \cup {None}]
PurgeState ==
  [pc : {"idle", "plan", "move", "invites", "members", "meters", "users", "org"},
   plan : {"keep", "move", "detach", "remove"}, to : P!Org \cup {None}]
PurgeTyped ==
  /\ org \in P!OrgStatus
  /\ telemetry \in SUBSET {"row", "lost"} /\ meter \in BOOLEAN
  /\ heard \in {"no", "begun", "late"} /\ touched \in P!Changes
  /\ invite \in P!OpenInvite /\ user \in P!User /\ member \in P!Membership
  /\ request \in RequestState
  /\ request.op # "none" => request.org \in P!Org
  /\ purge \in [Purger -> PurgeState]
  /\ ~user.there => user.orgId = None

\* Some purge is at one of these statements, or one is through.
Past(pcs) == org = "gone" \/ \E p \in Purger : purge[p].pc \in pcs

(***************************************************************************)
(* What each statement of a purge leaves behind, and keeps through what      *)
(* comes after it - the statements of the purges beside it among them, and   *)
(* of the ones started over.  A message may make the device's row again, a   *)
(* request an invite, and a request may bring the account back to the        *)
(* organisation: `heard` and `touched` say so.                               *)
(***************************************************************************)
Deleted ==
  /\ heard = "no" =>
       /\ meter /\ telemetry \subseteq {"row"} /\ org # "gone"
       /\ \A p \in Purger : purge[p].pc = "idle"
  /\ heard = "begun" => telemetry = {} /\ (Past({"users", "org"}) => ~meter)
  /\ "invite" \notin touched /\ Past({"members", "meters", "users", "org"}) => ~invite[Doomed]
  /\ "account" \notin touched =>
       /\ Past({"meters", "users", "org"}) => Doomed \notin member
       /\ Past({"org"}) => user.orgId # Doomed

(***************************************************************************)
(* What a plan says of the account, unless a request changed it since: plans *)
(* made side by side may differ, but not in whether another organisation has *)
(* the account, and the purge that removes it empties the others' plans.     *)
(***************************************************************************)
PlannedFor(p) ==
  /\ purge[p].plan # "keep" =>
       P!HasPlan(p) /\ (purge[p].pc # "org" => user.there)
  /\ purge[p].plan = "remove" => ~user.super
  /\ purge[p].plan = "move" => purge[p].to = Other
  /\ purge[p].plan = "detach" => purge[p].to = None
  /\ "account" \notin touched =>
       /\ purge[p].plan = "remove" => Other \notin member /\ user.orgId # Other
       /\ purge[p].plan = "move" => Other \in member
       /\ purge[p].pc = "move" /\ purge[p].plan = "keep" => user.orgId # Doomed
       /\ purge[p].pc \in {"invites", "members", "meters", "users"} /\ purge[p].plan # "remove" =>
            user.orgId # Doomed
Planned == \A p \in Purger : PlannedFor(p)
PurgeInv == PurgeTyped /\ Deleted /\ Planned

LEMMA PurgeInit ==
  ASSUME P!PurgeAssumption, P!Init
  PROVE  PurgeInv
<1>1. PurgeTyped
  BY DEF P!PurgeAssumption, P!Init, PurgeTyped, P!NoRequest, P!NoPurge, RequestState, PurgeState,
         P!OrgStatus, P!OpenInvite, P!User, P!Membership, P!Org, P!Changes
<1>2. Deleted /\ Planned
  BY DEF P!Init, Deleted, Planned, PlannedFor, Past, P!NoPurge
<1> QED
  BY <1>1, <1>2 DEF PurgeInv

LEMMA PurgeRests ==
  ASSUME PurgeInv,
         UNCHANGED <<org, telemetry, meter, heard, invite, user, member, request, purge, touched>>
  PROVE  PurgeInv'
BY DEF PurgeInv, PurgeTyped, Deleted, Planned, PlannedFor, Past, P!HasPlan

\* A statement is done: the plan stays, and so do the other purges.
LEMMA AtTyped ==
  ASSUME PurgeTyped, NEW p \in Purger, P!At(p, purge'[p].pc),
         purge'[p].pc \in {"plan", "invites", "members", "meters", "users", "org"}
  PROVE  /\ purge' \in [Purger -> PurgeState]
         /\ \A q \in Purger : purge'[q].plan = purge[q].plan /\ purge'[q].to = purge[q].to
         /\ \A q \in Purger : q # p => purge'[q] = purge[q]
BY DEF PurgeTyped, PurgeState, P!At

\* A purge that is asleep.
LEMMA Unpurging == P!NoPurge \in PurgeState /\ P!NoPurge.pc = "idle" /\ P!NoPurge.plan = "keep"
BY DEF P!NoPurge, PurgeState

(***************************************************************************)
(* A change of the account is noted: then little is claimed of it.           *)
(***************************************************************************)
LEMMA AccountChanged ==
  ASSUME PurgeInv, touched' = touched \cup {"account"}, PurgeTyped',
         UNCHANGED <<org, telemetry, meter, heard, purge>>,
         invite'[Doomed] => invite[Doomed],
         user.there => user'.there, user'.super => user.super
  PROVE  PurgeInv'
<1>1. Deleted'
  BY DEF PurgeInv, Deleted, Past
<1>2. Planned'
  BY DEF PurgeInv, Planned, PlannedFor, P!HasPlan
<1> QED
  BY <1>1, <1>2 DEF PurgeInv

\* Accounts and requests.
LEMMA RequestsKeep ==
  ASSUME P!PurgeAssumption, PurgeInv,
         P!Requesting \/ (\E o \in P!Org, op \in {"invite", "accept", "switch", "remove"} : P!Begin(op, o))
  PROVE  PurgeInv'
<1> None \notin P!Org /\ Doomed \in P!Org /\ Other \in P!Org /\ Doomed # Other
  BY DEF P!PurgeAssumption, P!Org
<1>0. PurgeTyped
  BY DEF PurgeInv
<1>1. ASSUME NEW o \in P!Org, NEW op \in {"invite", "accept", "switch", "remove"}, P!Begin(op, o) PROVE PurgeInv'
  <2>1. request' \in RequestState /\ (request'.op # "none" => request'.org \in P!Org)
    BY <1>1 DEF P!Begin, P!NoRequest, RequestState
  <2>2. UNCHANGED <<org, telemetry, meter, heard, invite, user, member, purge, touched>>
    BY <1>1 DEF P!Begin, P!tenant, P!account
  <2>3. PurgeTyped'
    BY <1>0, <2>1, <2>2 DEF PurgeTyped
  <2> QED
    BY <2>2, <2>3 DEF PurgeInv, Deleted, Planned, PlannedFor, Past, P!HasPlan
<1>2. ASSUME P!Invite PROVE PurgeInv'
  <2>1. /\ invite' \in P!OpenInvite /\ touched' = touched \cup {"invite"} /\ request' = P!NoRequest
        /\ UNCHANGED <<org, telemetry, meter, heard, user, member, purge>>
    BY <1>0, <1>2 DEF P!Invite, P!Answered, P!Changed, P!tenant, P!account, PurgeTyped, P!OpenInvite
  <2>2. PurgeTyped'
    BY <1>0, <2>1 DEF PurgeTyped, P!NoRequest, RequestState, P!Changes
  <2>3. Deleted'
    BY <2>1 DEF PurgeInv, Deleted, Past
  <2>4. Planned'
    BY <2>1 DEF PurgeInv, Planned, PlannedFor, P!HasPlan
  <2> QED
    BY <2>2, <2>3, <2>4 DEF PurgeInv
<1>3. ASSUME P!Accept PROVE PurgeInv'
  <2>1. /\ request' \in RequestState /\ request'.org \in P!Org
        /\ user' \in P!User /\ (~user'.there => user'.orgId = None)
        /\ user.there => user'.there
        /\ user'.super => user.super
    BY <1>0, <1>3 DEF P!Accept, PurgeTyped, RequestState, P!User
  <2>2. touched' = touched \cup {"account"} /\ UNCHANGED <<org, telemetry, meter, heard, invite, member, purge>>
    BY <1>3 DEF P!Accept, P!Changed, P!tenant
  <2> QED
    BY <1>0, <2>1, <2>2, AccountChanged DEF PurgeTyped, P!Changes
<1>4. ASSUME P!Join PROVE PurgeInv'
  <2>1. /\ request' = P!NoRequest /\ member' \in P!Membership /\ invite' \in P!OpenInvite
        /\ invite'[Doomed] => invite[Doomed]
    BY <1>0, <1>4 DEF P!Join, P!Answered, PurgeTyped, RequestState, P!Membership, P!OpenInvite
  <2>2. touched' = touched \cup {"account"} /\ UNCHANGED <<org, telemetry, meter, heard, user, purge>>
    BY <1>4 DEF P!Join, P!Changed, P!tenant
  <2> QED
    BY <1>0, <2>1, <2>2, AccountChanged DEF PurgeTyped, P!Changes, P!NoRequest, RequestState
<1>5. ASSUME P!Switch \/ P!Resettle PROVE PurgeInv'
  <2>1. /\ request' = P!NoRequest
        /\ user' \in P!User /\ (~user'.there => user'.orgId = None)
        /\ user'.there = user.there
        /\ user'.super = user.super
    <3>1. CASE P!Switch
      BY <1>0, <3>1 DEF P!Switch, P!Answered, PurgeTyped, RequestState, P!User
    <3>2. CASE P!Resettle
      BY <1>0, <3>2 DEF P!Resettle, P!Answered, PurgeTyped, RequestState, P!User
    <3> QED
      BY <1>5, <3>1, <3>2
  <2>2. touched' = touched \cup {"account"} /\ UNCHANGED <<org, telemetry, meter, heard, invite, member, purge>>
    BY <1>5 DEF P!Switch, P!Resettle, P!Changed, P!tenant
  <2> QED
    BY <1>0, <2>1, <2>2, AccountChanged DEF PurgeTyped, P!Changes, P!NoRequest, RequestState
<1>6. ASSUME P!RemoveMember PROVE PurgeInv'
  <2>1. /\ request' \in RequestState /\ request'.org \in P!Org /\ member' \in P!Membership
    BY <1>0, <1>6 DEF P!RemoveMember, PurgeTyped, RequestState, P!Membership
  <2>2. touched' = touched \cup {"account"} /\ UNCHANGED <<org, telemetry, meter, heard, invite, user, purge>>
    BY <1>6 DEF P!RemoveMember, P!Changed, P!tenant
  <2> QED
    BY <1>0, <2>1, <2>2, AccountChanged DEF PurgeTyped, P!Changes
<1> QED
  BY <1>1, <1>2, <1>3, <1>4, <1>5, <1>6 DEF P!Requesting

\* What planUserRemoval decides.
LEMMA PlanIs ==
  ASSUME P!PurgeAssumption, PurgeTyped
  PROVE  /\ P!PlanUserRemoval.plan \in {"keep", "move", "detach", "remove"}
         /\ P!PlanUserRemoval.to = IF P!PlanUserRemoval.plan = "move" THEN Other ELSE None
         /\ P!PlanUserRemoval.plan = "keep" => user.orgId # Doomed
         /\ P!PlanUserRemoval.plan = "move" => Other \in member
         /\ P!PlanUserRemoval.plan = "remove" =>
              ~user.super /\ Other \notin member /\ user.orgId # Other
BY DEF P!PurgeAssumption, PurgeTyped, P!Membership, P!User, P!Org, P!PlanUserRemoval

\* A purge makes its plan, the first of those in force or not.
LEMMA PlanKeeps ==
  ASSUME P!PurgeAssumption, PurgeInv, NEW p \in Purger, P!Plan(p)
  PROVE  PurgeInv'
<1> USE DEF PurgeInv
<1>1. /\ purge[p].pc = "plan"
      /\ UNCHANGED <<org, telemetry, meter, heard, invite, user, member, request>>
      /\ touched' = touched \/ (touched' = {} /\ org # "gone" /\ \A q \in Purger : ~P!HasPlan(q))
  BY DEF P!Plan, P!tenant, P!account
<1>2. PICK made \in PurgeState :
        /\ purge' = [purge EXCEPT ![p] = made]
        /\ made.pc \in {"move", "invites"}
        /\ made.plan # "keep" => user.there /\ made.pc = "move"
        /\ made.plan = "remove" => ~user.super /\ Other \notin member /\ user.orgId # Other
        /\ made.plan = "move" => made.to = Other /\ Other \in member
        /\ made.plan = "detach" => made.to = None
        /\ made.plan = "keep" => user.orgId # Doomed
  <2>1. CASE user.there /\ (user.orgId = Doomed \/ Doomed \in member)
    <3> DEFINE chosen == [pc |-> "move", plan |-> P!PlanUserRemoval.plan, to |-> P!PlanUserRemoval.to]
    <3>1. chosen \in PurgeState /\ purge' = [purge EXCEPT ![p] = chosen]
      BY <2>1, PlanIs DEF P!Plan, PurgeState, P!Org
    <3> QED
      BY <2>1, <3>1, PlanIs
  <2>2. CASE ~(user.there /\ (user.orgId = Doomed \/ Doomed \in member))
    <3> DEFINE chosen == [P!NoPurge EXCEPT !.pc = "invites"]
    <3>1. chosen \in PurgeState /\ chosen.pc = "invites" /\ chosen.plan = "keep"
      BY Unpurging DEF PurgeState
    <3>2. purge' = [purge EXCEPT ![p] = chosen]
      BY <2>2 DEF P!Plan
    <3>3. user.orgId # Doomed
      BY <2>2 DEF PurgeTyped, P!PurgeAssumption
    <3> HIDE DEF chosen
    <3> QED
      BY <3>1, <3>2, <3>3
  <2> QED
    BY <2>1, <2>2
<1>3. purge'[p] = made /\ \A q \in Purger : q # p => purge'[q] = purge[q]
  BY <1>2 DEF PurgeTyped
<1>4. PurgeTyped'
  BY <1>1, <1>2 DEF PurgeTyped, P!Changes
<1>5. Past({"users", "org"})' => Past({"users", "org"})
  BY <1>1, <1>2, <1>3 DEF Past
<1>6. Past({"members", "meters", "users", "org"})' => Past({"members", "meters", "users", "org"}) /\ touched' = touched
  BY <1>1, <1>2, <1>3 DEF Past, P!HasPlan
<1>7. Past({"meters", "users", "org"})' => Past({"meters", "users", "org"}) /\ touched' = touched
  BY <1>1, <1>2, <1>3 DEF Past, P!HasPlan
<1>8. Past({"org"})' => Past({"org"}) /\ touched' = touched
  BY <1>1, <1>2, <1>3 DEF Past, P!HasPlan
<1>9. Deleted'
  <2>1. heard # "no"
    BY <1>1 DEF Deleted
  <2> QED
    BY <1>1, <1>5, <1>6, <1>7, <1>8, <2>1 DEF Deleted
<1>10. ASSUME NEW q \in Purger PROVE PlannedFor(q)'
  <2>1. CASE q = p
    BY <1>1, <1>2, <1>3, <2>1 DEF PlannedFor, P!HasPlan
  <2>2. CASE q # p
    <3>1. CASE touched' = touched
      BY <1>1, <1>3, <2>2, <3>1 DEF Planned, PlannedFor, P!HasPlan
    <3>2. CASE ~P!HasPlan(q)
      BY <1>1, <1>3, <2>2, <3>2 DEF Planned, PlannedFor, P!HasPlan
    <3> QED
      BY <1>1, <3>1, <3>2
  <2> QED
    BY <2>1, <2>2
<1> QED
  BY <1>4, <1>9, <1>10 DEF Planned

\* A purge moves on behind a statement that did its part.
LEMMA PurgingKeeps ==
  ASSUME P!PurgeAssumption, PurgeInv, NEW p \in Purger, P!DeletionSweep(p) \/ P!Purging(p)
  PROVE  PurgeInv'
<1> USE DEF PurgeInv
<1> None \notin P!Org /\ Doomed \in P!Org /\ Other \in P!Org /\ Doomed # Other
  BY DEF P!PurgeAssumption, P!Org
<1>1. ASSUME P!DeletionSweep(p) PROVE PurgeInv'
  <2>1. purge'[p].pc = "plan" /\ P!At(p, purge'[p].pc) /\ purge[p].pc = "idle"
    BY <1>1 DEF P!DeletionSweep, P!At, PurgeTyped, PurgeState
  <2>2. /\ purge' \in [Purger -> PurgeState]
        /\ \A q \in Purger : purge'[q].plan = purge[q].plan /\ purge'[q].to = purge[q].to
        /\ \A q \in Purger : q # p => purge'[q] = purge[q]
    BY <2>1, AtTyped
  <2>3. UNCHANGED <<org, meter, invite, user, member, request, touched>>
    BY <1>1 DEF P!DeletionSweep, P!account
  <2>4. /\ telemetry' \in SUBSET {"row", "lost"} /\ heard' \in {"no", "begun", "late"}
        /\ heard' = "begun" => telemetry' = {} /\ heard \in {"no", "begun"}
        /\ heard' # "no"
    BY <1>1 DEF P!DeletionSweep, PurgeTyped, Deleted
  <2>5. PurgeTyped'
    BY <2>2, <2>3, <2>4 DEF PurgeTyped
  <2>6. Deleted'
    <3>1. \A pcs \in SUBSET {"members", "meters", "users", "org"} : Past(pcs)' => Past(pcs)
      BY <2>1, <2>2, <2>3 DEF Past
    <3>2. heard' = "begun" => (Past({"users", "org"})' => ~meter')
      <4>1. Past({"users", "org"})' => Past({"users", "org"})
        BY <3>1
      <4>2. heard = "no" => ~Past({"users", "org"})
        BY DEF Deleted, Past
      <4> QED
        BY <2>3, <2>4, <4>1, <4>2 DEF Deleted
    <3> QED
      BY <2>3, <2>4, <3>1, <3>2 DEF Deleted
  <2>7. Planned'
    BY <2>1, <2>2, <2>3 DEF Planned, PlannedFor, P!HasPlan
  <2> QED
    BY <2>5, <2>6, <2>7
<1>2. ASSUME P!Move(p) PROVE PurgeInv'
  <2>1. purge'[p].pc = "invites" /\ P!At(p, purge'[p].pc) /\ purge[p].pc = "move"
    BY <1>2 DEF P!Move, P!At, PurgeTyped, PurgeState
  <2>2. /\ purge' \in [Purger -> PurgeState]
        /\ \A q \in Purger : purge'[q].plan = purge[q].plan /\ purge'[q].to = purge[q].to
        /\ \A q \in Purger : q # p => purge'[q] = purge[q]
    BY <2>1, AtTyped
  <2>3. UNCHANGED <<org, telemetry, meter, heard, invite, member, request, touched>>
    BY <1>2 DEF P!Move, P!tenant
  <2>4. purge[p].plan \in {"keep", "move", "detach", "remove"} /\ PlannedFor(p)
    BY DEF PurgeTyped, PurgeState, Planned
  <2>5. /\ user' \in P!User /\ user'.there = user.there /\ user'.super = user.super
        /\ purge[p].plan = "move" => user.there /\ user'.orgId = Other
        /\ purge[p].plan = "detach" => user.there /\ user'.orgId = None
        /\ purge[p].plan \in {"keep", "remove"} => user' = user
    BY <1>2, <2>1, <2>4 DEF P!Move, PurgeTyped, P!User, PlannedFor
  <2>6. PurgeTyped'
    BY <2>2, <2>3, <2>4, <2>5 DEF PurgeTyped
  <2>7. user'.orgId = Doomed => user' = user
    BY <2>4, <2>5
  <2>8. Deleted'
    <3>1. \A pcs \in SUBSET {"members", "meters", "users", "org"} : Past(pcs)' => Past(pcs)
      BY <2>1, <2>2, <2>3 DEF Past
    <3> QED
      BY <2>1, <2>3, <2>7, <3>1 DEF Deleted
  <2>9. ASSUME NEW q \in Purger PROVE PlannedFor(q)'
    <3>1. PlannedFor(q)
      BY DEF Planned
    <3>2. CASE q = p
      BY <2>1, <2>2, <2>3, <2>4, <2>5, <3>2 DEF PlannedFor, P!HasPlan
    <3>3. CASE q # p
      BY <2>2, <2>3, <2>4, <2>5, <2>7, <3>1, <3>3 DEF PlannedFor, P!HasPlan
    <3> QED
      BY <3>2, <3>3
  <2> QED
    BY <2>6, <2>8, <2>9 DEF Planned
<1>3. ASSUME P!DeleteInvites(p) PROVE PurgeInv'
  <2>1. purge'[p].pc = "members" /\ P!At(p, purge'[p].pc) /\ purge[p].pc = "invites"
    BY <1>3 DEF P!DeleteInvites, P!At, PurgeTyped, PurgeState
  <2>2. /\ purge' \in [Purger -> PurgeState]
        /\ \A q \in Purger : purge'[q].plan = purge[q].plan /\ purge'[q].to = purge[q].to
        /\ \A q \in Purger : q # p => purge'[q] = purge[q]
    BY <2>1, AtTyped
  <2>3. /\ UNCHANGED <<org, telemetry, meter, heard, user, member, request, touched>>
        /\ invite' \in P!OpenInvite /\ ~invite'[Doomed]
    BY <1>3 DEF P!DeleteInvites, P!tenant, P!account, PurgeTyped, P!OpenInvite
  <2>4. PurgeTyped'
    BY <2>2, <2>3 DEF PurgeTyped
  <2>5. Deleted'
    <3>1. \A pcs \in SUBSET {"meters", "users", "org"} : Past(pcs)' => Past(pcs)
      BY <2>1, <2>2, <2>3 DEF Past
    <3> QED
      BY <2>1, <2>3, <3>1 DEF Deleted
  <2>6. Planned'
    BY <2>1, <2>2, <2>3 DEF Planned, PlannedFor, P!HasPlan
  <2> QED
    BY <2>4, <2>5, <2>6
<1>4. ASSUME P!DeleteMemberships(p) PROVE PurgeInv'
  <2>1. purge'[p].pc = "meters" /\ P!At(p, purge'[p].pc) /\ purge[p].pc = "members"
    BY <1>4 DEF P!DeleteMemberships, P!At, PurgeTyped, PurgeState
  <2>2. /\ purge' \in [Purger -> PurgeState]
        /\ \A q \in Purger : purge'[q].plan = purge[q].plan /\ purge'[q].to = purge[q].to
        /\ \A q \in Purger : q # p => purge'[q] = purge[q]
    BY <2>1, AtTyped
  <2>3. /\ UNCHANGED <<org, telemetry, meter, heard, invite, user, request, touched>>
        /\ member' \in P!Membership /\ Doomed \notin member' /\ (Other \in member' <=> Other \in member)
    BY <1>4 DEF P!DeleteMemberships, P!tenant, PurgeTyped, P!Membership
  <2>4. PurgeTyped'
    BY <2>2, <2>3 DEF PurgeTyped
  <2>5. Deleted'
    <3>1. /\ \A pcs \in SUBSET {"users", "org"} : Past(pcs)' => Past(pcs)
          /\ Past({"members", "meters", "users", "org"})' => Past({"members", "meters", "users", "org"})
      BY <2>1, <2>2, <2>3 DEF Past
    <3> QED
      BY <2>1, <2>3, <3>1 DEF Deleted
  <2>6. Planned'
    BY <2>1, <2>2, <2>3 DEF Planned, PlannedFor, P!HasPlan
  <2> QED
    BY <2>4, <2>5, <2>6
<1>5. ASSUME P!DeleteMeters(p) PROVE PurgeInv'
  <2>1. purge'[p].pc = "users" /\ P!At(p, purge'[p].pc) /\ purge[p].pc = "meters"
    BY <1>5 DEF P!DeleteMeters, P!At, PurgeTyped, PurgeState
  <2>2. /\ purge' \in [Purger -> PurgeState]
        /\ \A q \in Purger : purge'[q].plan = purge[q].plan /\ purge'[q].to = purge[q].to
        /\ \A q \in Purger : q # p => purge'[q] = purge[q]
    BY <2>1, AtTyped
  <2>3. /\ UNCHANGED <<org, heard, invite, user, member, request, touched>>
        /\ ~meter' /\ telemetry' \in SUBSET {"row", "lost"} /\ (telemetry = {} => telemetry' = {})
        /\ meter' \in BOOLEAN
    BY <1>5 DEF P!DeleteMeters, P!account
  <2>4. PurgeTyped'
    BY <2>2, <2>3 DEF PurgeTyped
  <2>5. Deleted'
    <3>1. /\ Past({"org"})' => Past({"org"})
          /\ Past({"meters", "users", "org"})' => Past({"meters", "users", "org"})
          /\ Past({"members", "meters", "users", "org"})' => Past({"members", "meters", "users", "org"})
      BY <2>1, <2>2, <2>3 DEF Past
    <3> QED
      BY <2>1, <2>3, <3>1 DEF Deleted
  <2>6. Planned'
    BY <2>1, <2>2, <2>3 DEF Planned, PlannedFor, P!HasPlan
  <2> QED
    BY <2>4, <2>5, <2>6
<1>6. ASSUME P!DeleteUsers(p) PROVE PurgeInv'
  <2>1. purge[p].pc = "users" /\ UNCHANGED <<org, telemetry, meter, heard, invite, request, touched>>
    BY <1>6 DEF P!DeleteUsers, P!tenant
  <2>2. /\ purge' \in [Purger -> PurgeState] /\ purge'[p].pc = "org" /\ purge'[p].plan = purge[p].plan
        /\ purge'[p].to = purge[p].to
        /\ \A q \in Purger : q # p =>
             /\ purge'[q].pc = purge[q].pc
             /\ purge[p].plan = "remove" => purge'[q].plan = "keep"
             /\ purge[p].plan # "remove" => purge'[q] = purge[q]
    BY <1>6 DEF P!DeleteUsers, P!At, PurgeTyped, PurgeState
  <2>3. /\ purge[p].plan = "remove" =>
             user' \in P!User /\ ~user'.there /\ user'.orgId = None /\ user'.super = user.super /\ member' = {}
        /\ purge[p].plan # "remove" => UNCHANGED <<user, member>>
    BY <1>6 DEF P!DeleteUsers, P!account, PurgeTyped, P!User
  <2>4. PurgeTyped'
    BY <2>1, <2>2, <2>3 DEF PurgeTyped, P!Membership
  <2>5. PlannedFor(p)
    BY DEF Planned
  <2>6. Deleted'
    <3>1. /\ Past({"users", "org"})' => Past({"users", "org"})
          /\ Past({"meters", "users", "org"})' => Past({"meters", "users", "org"})
          /\ Past({"members", "meters", "users", "org"})' => Past({"members", "meters", "users", "org"})
      BY <2>1, <2>2 DEF Past
    <3>2. "account" \notin touched => user'.orgId # Doomed /\ Doomed \notin member'
      <4>1. "account" \notin touched => Doomed \notin member
        BY <2>1 DEF Deleted, Past
      <4> QED
        BY <2>1, <2>3, <2>5, <4>1 DEF PlannedFor
    <3> QED
      BY <2>1, <2>2, <3>1, <3>2 DEF Deleted
  <2>7. ASSUME NEW q \in Purger PROVE PlannedFor(q)'
    <3>1. PlannedFor(q)
      BY DEF Planned
    <3>2. CASE q = p
      BY <2>1, <2>2, <2>3, <2>5, <3>2 DEF PlannedFor, P!HasPlan
    <3>3. CASE q # p
      BY <2>1, <2>2, <2>3, <3>1, <3>3 DEF PlannedFor, P!HasPlan
    <3> QED
      BY <3>2, <3>3
  <2> QED
    BY <2>4, <2>6, <2>7 DEF Planned
<1>7. ASSUME P!DeleteOrg(p) PROVE PurgeInv'
  <2>1. /\ purge[p].pc = "org" /\ org' = "gone"
        /\ UNCHANGED <<telemetry, meter, heard, invite, user, member, request, touched>>
        /\ purge' \in [Purger -> PurgeState]
        /\ purge'[p].pc = "idle" /\ purge'[p].plan = "keep"
        /\ \A q \in Purger : q # p => purge'[q] = purge[q]
    BY <1>7, Unpurging DEF P!DeleteOrg, P!account, PurgeTyped
  <2>2. PurgeTyped'
    BY <2>1 DEF PurgeTyped, P!OrgStatus
  <2>3. Deleted'
    BY <2>1 DEF Deleted, Past
  <2>4. Planned'
    BY <2>1 DEF Planned, PlannedFor, P!HasPlan
  <2> QED
    BY <2>2, <2>3, <2>4
<1> QED
  BY <1>1, <1>2, <1>3, <1>4, <1>5, <1>6, <1>7, PlanKeeps DEF P!Purging

LEMMA PurgeNext ==
  ASSUME P!PurgeAssumption, PurgeInv, P!Next
  PROVE  PurgeInv'
<1> USE DEF PurgeInv
<1>1. ASSUME P!Ingest PROVE PurgeInv'
  <2>1. /\ UNCHANGED <<org, invite, user, member, request, purge, touched>>
        /\ telemetry' \in SUBSET {"row", "lost"} /\ meter' \in BOOLEAN
        /\ heard' = IF heard = "no" THEN "no" ELSE "late"
        /\ heard = "no" => meter' /\ telemetry' \subseteq {"row"}
    BY <1>1 DEF P!Ingest, P!account, PurgeTyped, Deleted
  <2> QED
    BY <2>1 DEF PurgeTyped, Deleted, Planned, PlannedFor, Past, P!HasPlan
<1>2. ASSUME P!Schedule \/ P!Cancel PROVE PurgeInv'
  <2>1. /\ org # "gone" /\ org' \in P!OrgStatus \ {"gone"}
        /\ UNCHANGED <<telemetry, meter, heard, invite, user, member, request, purge, touched>>
    BY <1>2 DEF P!Schedule, P!Cancel, P!account, P!OrgStatus
  <2> QED
    BY <2>1 DEF PurgeTyped, Deleted, Planned, PlannedFor, Past, P!HasPlan
<1>3. ASSUME P!Crash PROVE PurgeInv'
  <2>1. UNCHANGED <<org, telemetry, meter, heard, invite, user, member, request, touched>>
    BY <1>3 DEF P!Crash, P!tenant, P!account
  <2>2. /\ purge' \in [Purger -> PurgeState]
        /\ \A q \in Purger : purge'[q] = purge[q] \/ (purge'[q].pc = "idle" /\ purge'[q].plan = "keep")
    BY <1>3, Unpurging DEF P!Crash, PurgeTyped
  <2>3. PurgeTyped' /\ Deleted'
    BY <2>1, <2>2 DEF PurgeTyped, Deleted, Past
  <2>4. Planned'
    BY <2>1, <2>2 DEF Planned, PlannedFor, P!HasPlan
  <2> QED
    BY <2>3, <2>4
<1> QED
  BY <1>1, <1>2, <1>3, RequestsKeep, PurgingKeeps DEF P!Next

\* Only DeleteUsers takes an account away, and only one its plan removes.
LEMMA AccountGoes ==
  ASSUME P!PurgeAssumption, PurgeInv, P!Next, user.there, ~user'.there
  PROVE  ~user.super /\ ("account" \in touched \/ (Other \notin member /\ user.orgId # Other))
<1>1. \E p \in Purger : purge[p].plan = "remove"
  BY DEF PurgeInv, PurgeTyped, P!User, P!Next, P!Requesting, P!Purging, P!Ingest, P!Schedule, P!Cancel, P!Begin,
         P!Invite, P!Accept, P!Join, P!Switch, P!RemoveMember, P!Resettle, P!DeletionSweep, P!Plan, P!Move,
         P!DeleteInvites, P!DeleteMemberships, P!DeleteMeters, P!DeleteUsers, P!DeleteOrg, P!Crash, P!account
<1> QED
  BY <1>1 DEF PurgeInv, Planned, PlannedFor

LEMMA PurgeHolds ==
  ASSUME PurgeInv
  PROVE  P!NothingLeft
BY DEF PurgeInv, PurgeTyped, Deleted, Past, P!NothingLeft

(***************************************************************************)
(* "Only the accounts that belong nowhere else" (purge-users.ts): however    *)
(* many purges run side by side, die and are started over, no account goes   *)
(* that another organisation has or that is a superadmin's, unless a request *)
(* gave it away behind the plans; and what is left behind a finished purge   *)
(* came back after it: the device's row and data by a message since the      *)
(* first purge began, an invite by one sent, and a member by a request,      *)
(* since the plans were made.                                                *)
(***************************************************************************)
THEOREM ServicesPurged == ServicesSpec => []P!NothingLeft /\ P!KeepsOthers
<1>0. P!PurgeAssumption
  BY ServicesAssumption
<1>1. ServicesInit => PurgeInv
  BY <1>0, PurgeInit DEF ServicesInit
<1>2. PurgeInv /\ [ServicesNext]_servicesVars => PurgeInv'
  <2> SUFFICES ASSUME PurgeInv, [ServicesNext]_servicesVars PROVE PurgeInv'
    OBVIOUS
  <2>1. CASE P!Next
    BY <1>0, <2>1, PurgeNext
  <2>2. CASE UNCHANGED orgs
    BY <2>2, PurgeRests DEF orgs
  <2> QED
    BY <2>1, <2>2 DEF ServicesNext, servicesVars
<1>3. PurgeInv => P!NothingLeft
  BY PurgeHolds
<1>4. PurgeInv /\ [ServicesNext]_servicesVars =>
        [user.there /\ ~user'.there =>
           ~user.super /\ ("account" \in touched \/ (Other \notin member /\ user.orgId # Other))]_(P!vars)
  <2> SUFFICES ASSUME PurgeInv, [ServicesNext]_servicesVars, user.there, ~user'.there
               PROVE  ~user.super /\ ("account" \in touched \/ (Other \notin member /\ user.orgId # Other))
    OBVIOUS
  <2>1. CASE P!Next
    BY <1>0, <2>1, AccountGoes
  <2>2. CASE UNCHANGED orgs
    BY <2>2 DEF orgs
  <2> QED
    BY <2>1, <2>2 DEF ServicesNext, servicesVars
<1> QED
  BY <1>1, <1>2, <1>3, <1>4, PTL DEF ServicesSpec, P!KeepsOthers

---------------------------------------------------------------------------
(***************************************************************************)
(* The types of all services.  What their invariants above leave open are    *)
(* flags that only the histories need and the bounds of the counters; the    *)
(* process ends and failures are counted for all of them together.           *)
(***************************************************************************)
Counted == crashes \in 0..MaxCrashes /\ fails \in 0..MaxFails

LEMMA CountsAre == ASSUME ServicesAssumption PROVE MaxCrashes \in Nat /\ MaxFails \in Nat
BY DEF P!PurgeAssumption, E!ExportAssumption

\* One more process end, one more failure, or neither.
LEMMA CountedOn ==
  ASSUME ServicesAssumption, Counted,
         crashes' = crashes \/ (crashes < MaxCrashes /\ crashes' = crashes + 1),
         fails' = fails \/ (fails < MaxFails /\ fails' = fails + 1)
  PROVE  Counted'
BY CountsAre DEF Counted

QueueCounted == failing \in BOOLEAN /\ toggles \in 0..MaxToggles

LEMMA QueueIsTyped ==
  ASSUME WP!QueueInv, QueueCounted, Counted
  PROVE  W!TypeOK
<1>1. WP!Typed /\ \A s \in Dispatch : WP!AttemptSound(s)
  BY DEF WP!QueueInv
<1>2. W!Row = WP!Row
  BY DEF W!Row, WP!Row
<1>3. queue \in [Delivery -> W!Row] /\ sends \in [Delivery -> 0..WebhookAttempts]
  BY <1>1, <1>2 DEF WP!Typed
<1>4. ASSUME NEW s \in Dispatch
      PROVE  /\ DOMAIN dispatching[s].todo \subseteq Delivery
             /\ \A d \in DOMAIN dispatching[s].todo : dispatching[s].todo[d] \in 0..(WebhookAttempts - 1)
             /\ dispatching[s].at \in DOMAIN dispatching[s].todo \cup {None}
             /\ dispatching[s].answer \in {"2xx", "4xx", "later", None}
  <2>1. dispatching[s] \in WP!Snapshot
    BY <1>1 DEF WP!Typed
  <2>2. dispatching[s].todo \in WP!Todo /\ dispatching[s].answer \in {"2xx", "4xx", "later", None}
    BY <2>1 DEF WP!Snapshot
  <2>3. dispatching[s].at # None => dispatching[s].at \in DOMAIN dispatching[s].todo
    BY <1>1 DEF WP!AttemptSound
  <2> QED
    BY <2>2, <2>3, WP!TodoTyped
<1> QED
  BY <1>1, <1>3, <1>4 DEF WP!Typed, QueueCounted, Counted, W!TypeOK

LEMMA QueueCounts ==
  ASSUME ServicesAssumption, QueueCounted, Counted, W!Next, fails' = fails
  PROVE  QueueCounted' /\ Counted'
<1>1. MaxToggles \in Nat
  BY DEF W!WebhookAssumption
<1>2. ASSUME NEW d \in Delivery, W!Emit(d) \/ W!Due(d)
      PROVE  UNCHANGED <<failing, toggles, crashes>>
  BY <1>2 DEF W!Emit, W!Due
<1>3. ASSUME NEW s \in Dispatch, W!Work(s)
      PROVE  failing' \in BOOLEAN /\ UNCHANGED <<toggles, crashes>>
  <2>1. ASSUME NEW d \in Delivery, W!Send(s, d) PROVE UNCHANGED <<failing, toggles, crashes>>
    BY <2>1 DEF W!Send
  <2>2. CASE W!Select(s) \/ W!CloseDisabled(s)
    BY <2>2 DEF W!Select, W!CloseDisabled, QueueCounted
  <2>3. CASE W!Record(s)
    BY <2>3 DEF W!Record
  <2> QED
    BY <1>3, <2>1, <2>2, <2>3 DEF W!Work, QueueCounted
<1>4. CASE W!Toggle
  BY <1>1, <1>4 DEF W!Toggle, QueueCounted, Counted
<1>5. CASE W!Crash
  BY <1>5, CountedOn DEF W!Crash, QueueCounted
<1> QED
  BY <1>2, <1>3, <1>4, <1>5 DEF W!Next, QueueCounted, Counted

ReportCounted == late \in BOOLEAN /\ adhoc \in 0..MaxAdhoc

LEMMA ReportIsTyped == ASSUME ReportInv, ReportCounted, Counted PROVE R!TypeOK
BY DEF ReportInv, ReportTyped, ReportTick, ReportCounted, Counted, R!TypeOK

LEMMA ReportCounts ==
  ASSUME ServicesAssumption, ReportCounted, Counted, R!Next, fails' = fails
  PROVE  ReportCounted' /\ Counted'
<1>1. MaxAdhoc \in Nat
  BY DEF R!ReportAssumption
<1>2. ASSUME NEW r \in Server, R!Tick(r) \/ R!Claim(r) \/ R!Run(r)
      PROVE  UNCHANGED <<late, adhoc, crashes>>
  BY <1>2 DEF R!Tick, R!Claim, R!Run
<1>3. ASSUME NEW r \in Server, R!Fail(r) PROVE ReportCounted' /\ Counted'
  BY <1>3, CountedOn DEF R!Fail, ReportCounted
<1>4. CASE R!RunNow
  BY <1>1, <1>4 DEF R!RunNow, ReportCounted, Counted
<1>5. CASE R!Pass
  BY <1>5 DEF R!Pass, ReportCounted, Counted
<1> QED
  BY <1>2, <1>3, <1>4, <1>5 DEF R!Next, ReportCounted, Counted

\* A request that has not come to its end has an attempt left.
LimitCounted ==
  /\ admitted <= Burst + LastTime + 1
  /\ \A r \in Request : /\ call[r].left \in 0..MAX_CAS_ATTEMPTS
                        /\ call[r].pc # "idle" => call[r].left # 0

LEMMA LimitIsTyped ==
  ASSUME ServicesAssumption, LimitInv, LimitCounted, Counted
  PROVE  L!TypeOK
<1>1. Burst \in Nat /\ LastTime \in Nat
  BY DEF L!RateAssumption
<1>2. admitted \in 0..(Burst + LastTime + 1)
  BY <1>1 DEF LimitInv, LimitTyped, LimitCounted
<1>3. \A r \in Request : call[r] \in CallState
  BY DEF LimitInv, LimitTyped
<1> QED
  BY <1>2, <1>3 DEF LimitInv, LimitTyped, CallState, LimitCounted, Counted, L!TypeOK

LEMMA LimitCounts ==
  ASSUME ServicesAssumption, LimitInv, LimitCounted, Counted, L!Next, crashes' = crashes
  PROVE  LimitCounted' /\ Counted'
<1>1. Burst \in Nat /\ LastTime \in Nat /\ MAX_CAS_ATTEMPTS \in Nat \ {0} /\ admitted \in Nat
  BY DEF L!RateAssumption, LimitInv, LimitTyped
<1>2. ASSUME NEW r \in Request, L!Charge(r) PROVE admitted' <= Burst + LastTime + 1
  BY <1>1, <1>2 DEF L!Charge, LimitCounted
<1>3. call \in [Request -> CallState]
  BY DEF LimitInv, LimitTyped
<1> DEFINE Going(c) == c.left \in 0..MAX_CAS_ATTEMPTS /\ (c.pc # "idle" => c.left # 0)
<1>4. ASSUME NEW r \in Request, NEW c, L!Set(r, c), Going(c)
      PROVE  \A q \in Request : /\ call'[q].left \in 0..MAX_CAS_ATTEMPTS
                                /\ call'[q].pc # "idle" => call'[q].left # 0
  BY <1>3, <1>4 DEF L!Set, LimitCounted
<1>5. Going(L!NoCall)
  BY <1>1 DEF L!NoCall
<1>6. ASSUME NEW r \in Request, L!Arrive(r) PROVE LimitCounted' /\ Counted'
  <2>1. Going([pc |-> "read", now |-> time, seen |-> None, left |-> MAX_CAS_ATTEMPTS])
    BY <1>1
  <2> QED
    BY <1>4, <1>6, <2>1 DEF L!Arrive, LimitCounted, Counted
<1>7. ASSUME NEW r \in Request, L!Read(r) PROVE LimitCounted' /\ Counted'
  <2>1. Going([call[r] EXCEPT !.pc = "write", !.seen = bucket])
    BY <1>3, <1>7 DEF L!Read, LimitCounted, CallState
  <2> QED
    BY <1>4, <1>5, <1>7, <2>1 DEF L!Read, LimitCounted, Counted
<1>8. ASSUME NEW r \in Request, L!Write(r) PROVE LimitCounted' /\ Counted'
  <2>1. call[r].left # 1 => Going([call[r] EXCEPT !.pc = "read", !.left = @ - 1])
    BY <1>1, <1>3, <1>8 DEF L!Write, LimitCounted, CallState
  <2>2. \A q \in Request : /\ call'[q].left \in 0..MAX_CAS_ATTEMPTS
                           /\ call'[q].pc # "idle" => call'[q].left # 0
    BY <1>4, <1>5, <1>8, <2>1 DEF L!Write
  <2>3. admitted' <= Burst + LastTime + 1
    BY <1>2, <1>8 DEF L!Write, LimitCounted
  <2> QED
    BY <1>8, <2>2, <2>3 DEF L!Write, LimitCounted, Counted
<1>9. ASSUME NEW r \in Request, L!Error(r) PROVE LimitCounted' /\ Counted'
  <2>1. Counted'
    BY <1>9, CountedOn DEF L!Error
  <2>2. admitted' <= Burst + LastTime + 1
    BY <1>2, <1>9 DEF L!Error, LimitCounted
  <2> QED
    BY <1>4, <1>5, <1>9, <2>1, <2>2 DEF L!Error, LimitCounted
<1>10. CASE L!Elapse
  BY <1>10 DEF L!Elapse, LimitCounted, Counted
<1> QED
  BY <1>6, <1>7, <1>8, <1>9, <1>10 DEF L!Next

PurgeCounted == requests \in 0..MaxRequests

LEMMA PurgeIsTyped == ASSUME PurgeInv, PurgeCounted, Counted PROVE P!TypeOK
BY DEF PurgeInv, PurgeTyped, RequestState, PurgeState, PurgeCounted, Counted, P!TypeOK

LEMMA PurgeCounts ==
  ASSUME ServicesAssumption, PurgeCounted, Counted, P!Next, fails' = fails
  PROVE  PurgeCounted' /\ Counted'
<1>1. MaxRequests \in Nat
  BY DEF P!PurgeAssumption
<1>2. ASSUME NEW o \in P!Org, NEW op, P!Begin(op, o) PROVE PurgeCounted' /\ Counted'
  BY <1>1, <1>2 DEF P!Begin, PurgeCounted, Counted
<1>3. CASE P!Cancel \/ P!Ingest
  BY <1>1, <1>3 DEF P!Cancel, P!Ingest, PurgeCounted, Counted
<1>4. CASE P!Crash
  BY <1>4, CountedOn DEF P!Crash, PurgeCounted
<1>5. CASE P!Schedule \/ \E p \in Purger : P!DeletionSweep(p)
  BY <1>5 DEF P!Schedule, P!DeletionSweep, P!counts, PurgeCounted, Counted
<1>6. CASE P!Requesting
  BY <1>6 DEF P!Requesting, P!Invite, P!Accept, P!Join, P!Switch, P!RemoveMember, P!Resettle, P!counts,
       PurgeCounted, Counted
<1>7. ASSUME NEW p \in Purger, P!Purging(p) PROVE PurgeCounted' /\ Counted'
  BY <1>7 DEF P!Purging, P!Plan, P!Move, P!DeleteInvites, P!DeleteMemberships, P!DeleteMeters, P!DeleteUsers,
       P!DeleteOrg, P!counts, PurgeCounted, Counted
<1> QED
  BY <1>2, <1>3, <1>4, <1>5, <1>6, <1>7 DEF P!Next

LEMMA ExportIsTyped == ASSUME ExportInv, crossed \subseteq E!Export, Counted PROVE E!TypeOK
BY DEF ExportInv, ExportTyped, SweepOf, Counted, E!TypeOK

LEMMA ExportCounts ==
  ASSUME ServicesAssumption, ExportInv, crossed \subseteq E!Export, Counted, E!Next, crashes' = crashes
  PROVE  crossed' \subseteq E!Export /\ Counted'
<1>1. E!ExportAssumption /\ ExportTyped
  BY DEF ExportInv
<1>2. ASSUME NEW e \in E!Export, E!Ask(e) \/ E!Insert(e) \/ E!Age(e)
      PROVE  UNCHANGED <<crossed, fails, crashes>>
  BY <1>2 DEF E!Ask, E!Insert, E!Age
<1>3. ASSUME NEW b \in Builder, E!Begin(b) \/ E!Expire(b)
      PROVE  crossed' \subseteq E!Export /\ Counted'
  <2>1. builder[b].todo # {}
    BY <1>1, <1>3 DEF E!Begin, E!Expire, ExportTyped
  <2>2. E!First(builder[b].todo) \in E!Export
    BY <1>1, <2>1, FirstIsExport
  <2>3. crossed' \subseteq E!Export
    BY <1>3, <2>2 DEF E!Begin, E!Expire, E!Crossing
  <2>4. fails' = fails \/ (fails < MaxFails /\ fails' = fails + 1)
    BY <1>3 DEF E!Begin, E!Expire
  <2> QED
    BY <2>3, <2>4, CountedOn
<1>4. ASSUME NEW b \in Builder,
             E!ExportSweep(b) \/ E!Open(b) \/ E!Finish(b) \/ E!Publish(b) \/ E!MarkFailed(b) \/ E!ListStale(b)
      PROVE  UNCHANGED <<crossed, fails, crashes>>
  BY <1>4 DEF E!ExportSweep, E!Open, E!Finish, E!Publish, E!MarkFailed, E!ListStale
<1>5. ASSUME NEW b \in Builder, E!Throw(b) PROVE crossed' = crossed /\ Counted'
  BY <1>5, CountedOn DEF E!Throw
<1>6. CASE E!Crash
  BY <1>6, CountedOn DEF E!Crash
<1>7. ASSUME NEW b \in Builder, E!SweepEnds(b) PROVE crossed' \subseteq E!Export /\ Counted'
  <2>1. fails' = fails \/ (fails < MaxFails /\ fails' = fails + 1)
    BY <1>7 DEF E!SweepEnds
  <2>2. crossed' = crossed \/ (builder[b].todo # {} /\ crossed' = E!Crossing(E!First(builder[b].todo)))
    BY <1>1, <1>7 DEF E!SweepEnds, ExportTyped
  <2>3. builder[b].todo # {} => E!First(builder[b].todo) \in E!Export
    BY <1>1, FirstIsExport
  <2>4. crossed' \subseteq E!Export
    BY <2>2, <2>3 DEF E!Crossing
  <2> QED
    BY <2>1, <2>4, CountedOn
<1> QED
  BY <1>2, <1>3, <1>4, <1>5, <1>6, <1>7 DEF E!Next, E!Work, Counted

WatchdogCounted == lastPet \in 0..D!Cap(cfg) \cup {None}

LEMMA WatchdogIsTyped == ASSUME WatchdogInv, WatchdogCounted, Counted PROVE D!TypeOK
BY DEF WatchdogInv, WatchdogTyped, WatchdogCounted, Counted, D!TypeOK

LEMMA WatchdogCounts ==
  ASSUME ServicesAssumption, WatchdogInv, WatchdogCounted, Counted, D!Next
  PROVE  WatchdogCounted' /\ Counted'
<1>1. cfg' = cfg
  BY DEF D!Next, D!Step, D!Fire, D!Check, D!Lands, D!Returns, D!Throws, D!Crash, D!Restart, D!Pass
<1>2. D!Cap(cfg) \in Nat /\ None \notin Nat
  BY DEF WatchdogInv, WatchdogTyped, D!WatchdogAssumption, D!Cap
<1>3. D!Cap(cfg)' = D!Cap(cfg)
  BY <1>1 DEF D!Cap
<1>4. lastPet' \in 0..D!Cap(cfg) \cup {None}
  <2>1. CASE D!Pass
    BY <1>2, <2>1 DEF D!Pass, D!Age, D!Smaller, WatchdogCounted
  <2>2. CASE ~D!Pass
    BY <1>2, <2>2 DEF D!Next, D!Step, D!Fire, D!Check, D!Lands, D!Returns, D!Throws, D!Crash, D!Restart,
                     WatchdogCounted
  <2> QED
    BY <2>1, <2>2
<1>5. Counted'
  <2>1. CASE D!Throws \/ D!Crash
    BY <2>1, CountedOn DEF D!Throws, D!Crash
  <2>2. CASE D!Fire \/ D!Step \/ D!Restart \/ D!Pass
    BY <2>2 DEF D!Fire, D!Step, D!Check, D!Lands, D!Returns, D!Restart, D!Pass, Counted
  <2> QED
    BY <2>1, <2>2 DEF D!Next
<1> QED
  BY <1>3, <1>4, <1>5 DEF WatchdogCounted

---------------------------------------------------------------------------
(***************************************************************************)
(* The grid limit.  What is computed step by step along the assets - the     *)
(* plant's supply, what is still to be held back - is a function of the      *)
(* step: there is one, and only one.                                         *)
(***************************************************************************)
LEMMA SmallestNumber ==
  ASSUME NEW those, those \subseteq Nat, those # {}
  PROVE  \E x \in those : \A y \in those : x <= y
<1>1. E!First(those) \in those
  BY FirstListed
<1> DEFINE order == OpToRel(<, Nat)
<1>2. \A y \in Nat, x \in Nat : <<y, x>> \in order <=> y < x
  BY DEF OpToRel
<1>3. IsWellFoundedOn(order, Nat)
  BY NatLessThanWellFounded
<1> HIDE DEF order
<1>4. PICK x \in those : \A y \in those : ~ (<<y, x>> \in order)
  BY <1>3, WFMin
<1>5. ASSUME NEW y \in those PROVE x <= y
  <2>1. x \in Nat /\ y \in Nat /\ ~ (y < x)
    BY <1>2, <1>4
  <2> QED
    BY <2>1
<1> QED
  BY <1>5

Steps(f, n, zero, step) == f[0] = zero /\ \A i \in 1..n : f[i] = step[<<i, f[i - 1]>>]

LEMMA StepsExist ==
  ASSUME NEW n \in Nat, NEW V, NEW zero \in V, NEW step \in [(1..n) \X V -> V]
  PROVE  \E f \in [0..n -> V] : Steps(f, n, zero, step)
<1> DEFINE T == {m \in 0..n : ~ \E f \in [0..m -> V] : Steps(f, m, zero, step)}
<1>1. ASSUME T # {} PROVE FALSE
  <2>1. T \subseteq Nat
    OBVIOUS
  <2>2. PICK m \in T : \A k \in T : m <= k
    BY <1>1, <2>1, SmallestNumber
  <2>3. m # 0
    <3>1. [i \in 0..0 |-> zero] \in [0..0 -> V] /\ Steps([i \in 0..0 |-> zero], 0, zero, step)
      BY DEF Steps
    <3> QED
      BY <3>1
  <2>4. m \in 1..n /\ m - 1 \in 0..n /\ m - 1 \notin T
    BY <2>2, <2>3
  <2>5. PICK f \in [0..(m - 1) -> V] : Steps(f, m - 1, zero, step)
    BY <2>4
  <2> DEFINE g == [i \in 0..m |-> IF i = m THEN step[<<m, f[m - 1]>>] ELSE f[i]]
  <2>6. f[m - 1] \in V /\ step[<<m, f[m - 1]>>] \in V
    BY <2>4, <2>5
  <2>7. g \in [0..m -> V]
    BY <2>4, <2>5, <2>6
  <2>8. Steps(g, m, zero, step)
    <3>1. g[0] = zero
      BY <2>4, <2>5 DEF Steps
    <3>2. ASSUME NEW i \in 1..m PROVE g[i] = step[<<i, g[i - 1]>>]
      <4>1. i - 1 \in 0..m /\ i \in 0..m /\ i - 1 # m
        BY <2>4
      <4>2. g[i - 1] = f[i - 1]
        BY <4>1
      <4>3. CASE i = m
        BY <4>1, <4>2, <4>3
      <4>4. CASE i # m
        <5>1. i \in 1..(m - 1) /\ g[i] = f[i]
          BY <2>4, <4>1, <4>4
        <5>2. f[i] = step[<<i, f[i - 1]>>]
          BY <2>5, <5>1 DEF Steps
        <5> HIDE DEF g
        <5> QED
          BY <4>2, <5>1, <5>2
      <4> QED
        BY <4>3, <4>4
    <3> QED
      BY <3>1, <3>2 DEF Steps
  <2> QED
    BY <2>2, <2>7, <2>8
<1>2. n \in 0..n
  OBVIOUS
<1> QED
  BY <1>1, <1>2

Agree(f, g, n) == f[0] = g[0] /\ \A i \in 1..n : f[i - 1] = g[i - 1] => f[i] = g[i]

LEMMA StepsSame ==
  ASSUME NEW n \in Nat, NEW f, NEW g, Agree(f, g, n), NEW j \in 0..n
  PROVE  f[j] = g[j]
<1> DEFINE T == {i \in 0..n : f[i] # g[i]}
<1>1. ASSUME T # {} PROVE FALSE
  <2>1. T \subseteq Nat
    OBVIOUS
  <2>2. PICK m \in T : \A k \in T : m <= k
    BY <1>1, <2>1, SmallestNumber
  <2>3. m \in 1..n /\ m - 1 \in 0..n /\ m - 1 \notin T
    BY <2>2 DEF Agree
  <2> QED
    BY <2>2, <2>3 DEF Agree
<1> QED
  BY <1>1

---------------------------------------------------------------------------
ShareState == [id : G!Asset, rated : {Rated}, take : 0..Rated]
RoundState ==
  [on : BOOLEAN, read : 0..MaxTotal, next : 0..MaxTotal, shares : Seq(ShareState), dark : BOOLEAN]
GridTyped ==
  /\ weather \in Weather
  /\ limit \in [G!Asset -> G!Pct]
  /\ total \in 0..MaxTotal
  /\ cmd \in [G!Asset -> [value : G!Pct \cup {None}, fresh : BOOLEAN]]
  /\ round \in RoundState

LEMMA GridNumbers ==
  ASSUME G!GridAssumption
  PROVE  /\ AssetCount \in Nat /\ Rated \in Nat /\ Rated > 0 /\ MaxTotal \in Nat
         /\ Limits.deadband \in Nat /\ Limits.maxStep \in Nat
         /\ Limits.maxImport \in Nat \cup {None} /\ Limits.maxExport \in Nat \cup {None}
         /\ None \notin Int
         /\ \A w \in Weather : w.sun \in 0..Rated /\ w.load \in Nat
BY DEF G!GridAssumption

LEMMA WholeParts ==
  ASSUME NEW a \in Nat, NEW b \in Nat, b > 0, NEW q \in Nat, b * q <= a, a < b * q + b
  PROVE  a \div b = q
<1>1. a \div b \in Nat /\ b * (a \div b) <= a /\ a < b * (a \div b) + b
  OBVIOUS
<1>2. ASSUME NEW r \in Nat, b * r <= a, a < b * r + b, r < q PROVE FALSE
  <2>1. b * (r + 1) <= b * q
    BY <1>2
  <2>2. b * (r + 1) = b * r + b
    OBVIOUS
  <2> QED
    BY <1>2, <2>1, <2>2
<1>3. ASSUME NEW r \in Nat, b * r <= a, a < b * r + b, q < r PROVE FALSE
  <2>1. b * (q + 1) <= b * r
    BY <1>3
  <2>2. b * (q + 1) = b * q + b
    OBVIOUS
  <2> QED
    BY <1>3, <2>1, <2>2
<1> QED
  BY <1>1, <1>2, <1>3

\* A register holds a percentage of the rated power; 100 % among them.
LEMMA PctIs ==
  ASSUME G!GridAssumption
  PROVE  G!Pct \subseteq 0..1000 /\ 1000 \in G!Pct
<1>1. ASSUME NEW t \in 0..Rated PROVE G!LimitPct([rated |-> Rated, take |-> t]) \in 0..1000
  <2> DEFINE q == (2000 * (Rated - t) + Rated) \div (2 * Rated)
  <2>1. q \in Nat
    BY GridNumbers
  <2>2. G!LimitPct([rated |-> Rated, take |-> t]) = G!Lesser(1000, q)
    BY GridNumbers DEF G!LimitPct, G!Greater
  <2> HIDE DEF q
  <2> QED
    BY <2>1, <2>2 DEF G!Lesser
<1>2. G!LimitPct([rated |-> Rated, take |-> 0]) = 1000
  <2>1. (2000 * Rated + Rated) \div (2 * Rated) = 1000
    <3>1. 2000 * Rated + Rated \in Nat /\ 2 * Rated \in Nat /\ 2 * Rated > 0
          /\ (2 * Rated) * 1000 <= 2000 * Rated + Rated /\ 2000 * Rated + Rated < (2 * Rated) * 1000 + 2 * Rated
      BY GridNumbers
    <3> QED
      BY <3>1, WholeParts
  <2> QED
    BY <2>1, GridNumbers DEF G!LimitPct, G!Greater, G!Lesser
<1>3. 0 \in 0..Rated
  BY GridNumbers
<1>4. \A p \in G!Pct : \E t \in 0..Rated : p = G!LimitPct([rated |-> Rated, take |-> t])
  BY Zenon DEF G!Pct
<1>5. ASSUME NEW p \in G!Pct PROVE p \in 0..1000
  <2>1. PICK t \in 0..Rated : p = G!LimitPct([rated |-> Rated, take |-> t])
    BY <1>4
  <2> QED
    BY <1>1, <2>1
<1>6. 1000 \in G!Pct
  BY <1>2, <1>3, Zenon DEF G!Pct
<1> QED
  BY <1>5, <1>6

LEMMA Products == ASSUME NEW x \in Nat, NEW y \in Nat PROVE x * y \in Nat
OBVIOUS

LEMMA OutputIs ==
  ASSUME G!GridAssumption, GridTyped, NEW a \in G!Asset
  PROVE  G!Output(a) \in 0..Rated
<1>1. weather.sun \in 0..Rated /\ limit[a] \in 0..1000 /\ Rated \in Nat
  BY GridNumbers, PctIs DEF GridTyped
<1>2. Rated * limit[a] \in Nat
  <2>1. limit[a] \in Nat
    BY <1>1
  <2> QED
    BY <1>1, <2>1, Products
<1>3. (Rated * limit[a]) \div 1000 \in Nat
  BY <1>2
<1> QED
  BY <1>1, <1>3 DEF G!Output, G!Lesser

LEMMA GridIs == ASSUME G!GridAssumption, GridTyped PROVE G!Grid \in Int
<1> DEFINE step == [x \in (1..AssetCount) \X Int |-> x[2] + G!Output(x[1])]
<1>0. AssetCount \in Nat /\ \A a \in 1..AssetCount : G!Output(a) \in Int
  BY GridNumbers, OutputIs DEF G!Asset
<1>1. step \in [(1..AssetCount) \X Int -> Int]
  BY <1>0
<1>2. PICK f \in [0..AssetCount -> Int] : Steps(f, AssetCount, 0, step)
  <2> HIDE DEF step
  <2>1. 0 \in Int
    OBVIOUS
  <2> QED
    BY <1>0, <1>1, <2>1, StepsExist
<1>3. \A a \in 1..AssetCount : f[a] = f[a - 1] + G!Output(a)
  <2> SUFFICES ASSUME NEW a \in 1..AssetCount PROVE f[a] = f[a - 1] + G!Output(a)
    OBVIOUS
  <2>1. a - 1 \in 0..AssetCount
    BY <1>0
  <2>2. <<a, f[a - 1]>> \in (1..AssetCount) \X Int
    BY <1>2, <2>1
  <2>3. step[<<a, f[a - 1]>>] = f[a - 1] + G!Output(a)
    BY <2>2
  <2> QED
    BY <1>2, <2>3 DEF Steps
<1>4. f = [a \in 0..AssetCount |-> IF a = 0 THEN 0 ELSE f[a - 1] + G!Output(a)]
  BY <1>0, <1>2, <1>3 DEF Steps
<1>5. G!Supply = [a \in 0..AssetCount |-> IF a = 0 THEN 0 ELSE G!Supply[a - 1] + G!Output(a)]
  BY <1>4 DEF G!Supply
<1>6. \A i \in 0..AssetCount : G!Supply[i] = f[i]
  <2>1. G!Supply[0] = f[0]
    BY <1>0, <1>2, <1>5 DEF Steps
  <2>2. \A a \in 1..AssetCount : G!Supply[a] = G!Supply[a - 1] + G!Output(a)
    BY <1>0, <1>5
  <2>3. \A a \in 1..AssetCount : G!Supply[a - 1] = f[a - 1] => G!Supply[a] = f[a]
    BY <1>3, <2>2
  <2>0. PICK u : u = G!Supply
    OBVIOUS
  <2>4. Agree(u, f, AssetCount)
    BY <2>0, <2>1, <2>3 DEF Agree
  <2> QED
    BY <1>0, <2>0, <2>4, StepsSame
<1>7. AssetCount \in 0..AssetCount /\ weather.load \in Int
  BY <1>0, GridNumbers DEF GridTyped
<1> QED
  BY <1>2, <1>6, <1>7 DEF G!Grid

LEMMA NextTotalIs == ASSUME G!GridAssumption, GridTyped PROVE G!NextTotal \in 0..MaxTotal
<1>1. G!Grid \in Int /\ total \in Nat /\ MaxTotal \in Nat /\ total <= MaxTotal
  BY GridIs, GridNumbers DEF GridTyped
<1> DEFINE found == G!GridStatus(G!Grid, Limits)
<1>2. /\ found.state \in {"over-export", "over-import", "ok"}
      /\ found.excess \in Int /\ found.headroom \in Int
      /\ found.state = "over-export" => found.excess >= 0
  <2>1. CASE Limits.maxExport # None /\ -G!Grid > Limits.maxExport
    BY <1>1, <2>1, GridNumbers DEF G!GridStatus, G!Status
  <2>2. CASE ~(Limits.maxExport # None /\ -G!Grid > Limits.maxExport)
             /\ Limits.maxImport # None /\ G!Grid > Limits.maxImport
    BY <1>1, <2>2, GridNumbers DEF G!GridStatus, G!Status
  <2>3. CASE /\ ~(Limits.maxExport # None /\ -G!Grid > Limits.maxExport)
             /\ ~(Limits.maxImport # None /\ G!Grid > Limits.maxImport)
    <3> DEFINE rooms == G!Rooms(G!Grid, Limits)
               least == CHOOSE room \in rooms : \A other \in rooms : room <= other
    <3>1. found = G!Status("ok", 0, IF rooms = {} \/ \E room \in rooms : room < 0 THEN 0 ELSE least)
      BY <2>3 DEF G!GridStatus
    <3>2. rooms # {} => least \in Int
      <4>1. \E x \in Int, y \in Int : rooms \subseteq {x, y} /\ (rooms # {} => rooms = {x} \/ rooms = {y} \/ rooms = {x, y})
        <5> DEFINE x == IF Limits.maxExport = None THEN 0 ELSE Limits.maxExport + G!Grid - Limits.deadband
                   y == IF Limits.maxImport = None THEN 0 ELSE Limits.maxImport - G!Grid - Limits.deadband
        <5>1. x \in Int /\ y \in Int
          BY <1>1, GridNumbers
        <5>2. rooms \subseteq {x, y} /\ (rooms # {} => rooms = {x} \/ rooms = {y} \/ rooms = {x, y})
          BY DEF G!Rooms
        <5> HIDE DEF x, y, rooms
        <5> QED
          BY <5>1, <5>2
      <4>2. PICK x \in Int, y \in Int : rooms \subseteq {x, y} /\ (rooms # {} => rooms = {x} \/ rooms = {y} \/ rooms = {x, y})
        BY <4>1
      <4> HIDE DEF rooms
      <4>3. rooms # {} => \E room \in rooms : \A other \in rooms : room <= other
        BY <4>2
      <4>4. rooms \subseteq Int
        BY <4>2
      <4> QED
        BY <4>3, <4>4
    <3> HIDE DEF rooms, least
    <3> QED
      BY <3>1, <3>2 DEF G!Status
  <2> QED
    BY <2>1, <2>2, <2>3
<1> HIDE DEF found
<1>3. G!StepCurtailment(total, found, Limits) \in Nat
  BY <1>1, <1>2, GridNumbers DEF G!StepCurtailment, G!Lesser, G!Greater
<1> QED
  BY <1>1, <1>3 DEF G!NextTotal, found, G!Lesser

\* The assets are served one after the other, each from what those before it left.
LEMMA AllocateIs ==
  ASSUME G!GridAssumption, GridTyped, NEW held \in 0..MaxTotal
  PROVE  G!Allocate(held, G!Assets) \in Seq(ShareState)
<1>1. AssetCount \in Nat /\ Rated \in Nat /\ held \in Nat /\ G!Asset = 1..AssetCount
  BY GridNumbers DEF G!Asset
<1>2. PICK assets : assets = G!Assets
  OBVIOUS
<1>3. /\ DOMAIN assets = 1..AssetCount
      /\ \A a \in 1..AssetCount : assets[a].id = a /\ assets[a].priority = a /\ assets[a].rated = Rated
      /\ \A a \in 1..AssetCount : assets[a].output \in (0..Rated) \cup {None}
      /\ assets = [a \in 1..AssetCount |-> assets[a]]
  BY <1>1, <1>2, OutputIs DEF G!Assets
<1>4. Len(assets) = AssetCount
  BY <1>1, <1>3
<1> DEFINE order == G!Order(assets)
           ordered == [i \in DOMAIN assets |-> assets[order[i]]]
<1>5. order \in [1..AssetCount -> 1..AssetCount]
  <2> DEFINE sorted(p) == \A i \in DOMAIN p : \A j \in DOMAIN p :
               i < j => p[i] # p[j] /\ G!Before(assets[p[i]], assets[p[j]])
             same == [i \in 1..AssetCount |-> i]
  <2>1. same \in [1..AssetCount -> 1..AssetCount] /\ sorted(same)
    BY <1>1, <1>3 DEF G!Before
  <2>2. order = CHOOSE p \in [1..AssetCount -> 1..AssetCount] : sorted(p)
    BY <1>3 DEF G!Order
  <2> HIDE DEF order, sorted, same
  <2> QED
    BY <2>1, <2>2
<1> HIDE DEF order
<1>6. DOMAIN ordered = 1..AssetCount
  BY <1>3
<1>7. ASSUME NEW i \in 1..AssetCount
      PROVE  ordered[i].id \in G!Asset /\ ordered[i].rated = Rated /\ G!Available(ordered[i]) \in 0..Rated
  <2>1. order[i] \in 1..AssetCount /\ ordered[i] = assets[order[i]]
    BY <1>3, <1>5
  <2>2. None \notin Int
    BY GridNumbers
  <2> QED
    BY <1>1, <1>3, <2>1, <2>2 DEF G!Available, G!Greater
<1> HIDE DEF ordered
<1> DEFINE remaining[i \in 0..Len(assets)] ==
             IF i = 0 THEN G!Greater(0, held)
             ELSE remaining[i - 1] - G!Lesser(remaining[i - 1], G!Available(ordered[i]))
<1>8. G!Allocate(held, assets) =
        [i \in 1..AssetCount |-> [id |-> ordered[i].id, rated |-> ordered[i].rated,
                                  take |-> remaining[i - 1] - remaining[i]]]
  BY <1>6 DEF G!Allocate, ordered, order
<1> DEFINE step == [x \in (1..AssetCount) \X Nat |-> x[2] - G!Lesser(x[2], G!Available(ordered[x[1]]))]
<1>9. step \in [(1..AssetCount) \X Nat -> Nat]
  BY <1>1, <1>7 DEF G!Lesser
<1>10. PICK f \in [0..AssetCount -> Nat] : Steps(f, AssetCount, held, step)
  <2> HIDE DEF step
  <2> QED
    BY <1>1, <1>9, StepsExist
<1>11. \A i \in 1..AssetCount : f[i] = f[i - 1] - G!Lesser(f[i - 1], G!Available(ordered[i]))
  <2> SUFFICES ASSUME NEW i \in 1..AssetCount
               PROVE  f[i] = f[i - 1] - G!Lesser(f[i - 1], G!Available(ordered[i]))
    OBVIOUS
  <2>1. i - 1 \in 0..AssetCount
    BY <1>1
  <2>2. <<i, f[i - 1]>> \in (1..AssetCount) \X Nat
    BY <1>10, <2>1
  <2>3. step[<<i, f[i - 1]>>] = f[i - 1] - G!Lesser(f[i - 1], G!Available(ordered[i]))
    BY <2>2
  <2> QED
    BY <1>10, <2>3 DEF Steps
<1> HIDE DEF step
<1>12. f[0] = G!Greater(0, held)
  BY <1>1, <1>10 DEF Steps, G!Greater
<1>13. f = [i \in 0..Len(assets) |-> IF i = 0 THEN G!Greater(0, held)
                ELSE f[i - 1] - G!Lesser(f[i - 1], G!Available(ordered[i]))]
  BY <1>1, <1>4, <1>10, <1>11, <1>12
<1>14. remaining = [i \in 0..Len(assets) |-> IF i = 0 THEN G!Greater(0, held)
                ELSE remaining[i - 1] - G!Lesser(remaining[i - 1], G!Available(ordered[i]))]
  BY <1>13
<1> HIDE DEF remaining
<1>15. PICK u : u = remaining
  OBVIOUS
<1>16. u[0] = f[0]
  BY <1>1, <1>4, <1>12, <1>14, <1>15
<1>17. \A i \in 1..AssetCount : u[i] = u[i - 1] - G!Lesser(u[i - 1], G!Available(ordered[i]))
  BY <1>1, <1>4, <1>14, <1>15
<1>18. Agree(u, f, AssetCount)
  BY <1>11, <1>16, <1>17 DEF Agree
<1>19. \A i \in 0..AssetCount : remaining[i] = f[i]
  BY <1>1, <1>15, <1>18, StepsSame
<1>20. ASSUME NEW i \in 1..AssetCount PROVE remaining[i - 1] - remaining[i] \in 0..Rated
  <2>1. i - 1 \in 0..AssetCount /\ i \in 0..AssetCount
    BY <1>1
  <2>2. f[i - 1] \in Nat /\ G!Available(ordered[i]) \in 0..Rated
    BY <1>7, <1>10, <2>1
  <2>3. G!Lesser(f[i - 1], G!Available(ordered[i])) \in 0..Rated
    BY <1>1, <2>2 DEF G!Lesser
  <2> QED
    BY <1>1, <1>11, <1>19, <2>1, <2>2, <2>3
<1>21. G!Allocate(held, assets) \in [1..AssetCount -> ShareState]
  BY <1>7, <1>8, <1>20 DEF ShareState
<1> QED
  BY <1>1, <1>2, <1>21, SeqDef

LEMMA GridInit == ASSUME G!GridAssumption, G!Init PROVE GridTyped
<1>1. limit \in [G!Asset -> G!Pct]
  BY PctIs DEF G!Init
<1>2. G!Idle \in RoundState
  <2>1. <<>> \in Seq(ShareState)
    BY EmptySeq
  <2> QED
    BY <2>1, GridNumbers DEF G!Idle, RoundState
<1>3. cmd \in [G!Asset -> [value : G!Pct \cup {None}, fresh : BOOLEAN]]
  BY DEF G!Init, G!Unsent
<1> QED
  BY <1>1, <1>2, <1>3, GridNumbers DEF G!Init, GridTyped

\* The share at the head of the round.
LEMMA ShareIs ==
  ASSUME G!GridAssumption, GridTyped, round.shares # <<>>
  PROVE  /\ G!Share \in ShareState /\ G!Share.id \in G!Asset
         /\ G!LimitPct(G!Share) \in G!Pct
         /\ [round EXCEPT !.shares = Tail(@)] \in RoundState
<1>1. round.shares \in Seq(ShareState)
  BY DEF GridTyped, RoundState
<1>2. Head(round.shares) \in ShareState /\ Tail(round.shares) \in Seq(ShareState)
  BY <1>1, HeadTailProperties
<1>3. G!Share \in ShareState
  BY <1>2 DEF G!Share
<1>4. G!Share.take \in 0..Rated /\ G!Share = [id |-> G!Share.id, rated |-> Rated, take |-> G!Share.take]
      /\ G!Share.id \in G!Asset
  BY <1>3 DEF ShareState
<1>5. G!LimitPct(G!Share) = G!LimitPct([rated |-> Rated, take |-> G!Share.take])
  <2>1. G!Share.rated = Rated
    BY <1>3 DEF ShareState
  <2> QED
    BY <2>1 DEF G!LimitPct
<1>6. G!LimitPct(G!Share) \in G!Pct
  BY <1>4, <1>5, Zenon DEF G!Pct
<1>7. [round EXCEPT !.shares = Tail(@)] \in RoundState
  BY <1>2 DEF GridTyped, RoundState
<1> QED
  BY <1>3, <1>4, <1>6, <1>7

LEMMA NoLongerFresh ==
  ASSUME NEW V, NEW c \in [value : V, fresh : BOOLEAN]
  PROVE  [c EXCEPT !.fresh = FALSE] \in [value : V, fresh : BOOLEAN]
OBVIOUS

LEMMA GridNext ==
  ASSUME ServicesAssumption, GridTyped, Counted, G!Next
  PROVE  GridTyped' /\ Counted'
<1>1. G!GridAssumption /\ MaxTotal \in Nat
  BY GridNumbers
<1>2. G!Idle \in RoundState
  <2>1. <<>> \in Seq(ShareState)
    BY EmptySeq
  <2> QED
    BY <2>1, GridNumbers DEF G!Idle, RoundState
<1> DEFINE Answer == [value : G!Pct \cup {None}, fresh : BOOLEAN]
<1>3. ASSUME round.shares # <<>>
      PROVE  /\ [limit EXCEPT ![G!Share.id] = G!LimitPct(G!Share)] \in [G!Asset -> G!Pct]
             /\ G!Sent(G!LimitPct(G!Share)) => cmd' \in [G!Asset -> Answer]
             /\ G!NextShare => round' \in RoundState
  <2>1. G!Share.id \in G!Asset /\ G!LimitPct(G!Share) \in G!Pct /\ [round EXCEPT !.shares = Tail(@)] \in RoundState
    BY <1>1, <1>3, ShareIs
  <2>2. [limit EXCEPT ![G!Share.id] = G!LimitPct(G!Share)] \in [G!Asset -> G!Pct]
    BY <2>1 DEF GridTyped
  <2>3. ASSUME G!Sent(G!LimitPct(G!Share)) PROVE cmd' \in [G!Asset -> Answer]
    <3>1. [value |-> G!LimitPct(G!Share), fresh |-> TRUE] \in Answer
      BY <2>1
    <3>2. cmd' = [cmd EXCEPT ![G!Share.id] = [value |-> G!LimitPct(G!Share), fresh |-> TRUE]]
      BY <2>3 DEF G!Sent
    <3>3. cmd \in [G!Asset -> Answer]
      BY DEF GridTyped
    <3> HIDE DEF Answer
    <3> QED
      BY <2>1, <3>1, <3>2, <3>3
  <2> QED
    BY <2>1, <2>2, <2>3 DEF G!NextShare
<1>4. CASE G!Begin
  <2>1. G!NextTotal \in 0..MaxTotal /\ G!Allocate(G!NextTotal, G!Assets) \in Seq(ShareState)
    BY <1>1, NextTotalIs, AllocateIs
  <2>2. weather.pcc \in BOOLEAN /\ total \in 0..MaxTotal
    BY DEF GridTyped, G!GridAssumption
  <2>3. round' \in RoundState
    BY <1>4, <2>1, <2>2 DEF G!Begin, RoundState
  <2> QED
    BY <1>4, <2>3 DEF G!Begin, GridTyped, Counted
<1>5. CASE G!Skip
  BY <1>3, <1>5 DEF G!Skip, GridTyped, Counted
<1>6. CASE G!Send
  BY <1>3, <1>6 DEF G!Send, GridTyped, Counted
<1>7. CASE G!SendFails
  <2>1. limit' \in [G!Asset -> G!Pct] /\ cmd' \in [G!Asset -> Answer] /\ round' \in RoundState
    BY <1>3, <1>7 DEF G!SendFails, GridTyped
  <2>2. Counted'
    BY <1>7, CountedOn DEF G!SendFails
  <2> QED
    BY <1>7, <2>1, <2>2 DEF G!SendFails, GridTyped
<1>8. CASE G!Store
  <2>1. total' \in 0..MaxTotal
    BY <1>8 DEF G!Store, GridTyped, RoundState
  <2> QED
    BY <1>2, <1>8, <2>1 DEF G!Store, GridTyped, Counted
<1>9. CASE G!StoreFails
  <2>1. Counted'
    BY <1>9, CountedOn DEF G!StoreFails
  <2> QED
    BY <1>2, <1>9, <2>1 DEF G!StoreFails, GridTyped
<1>10. CASE G!Crash
  <2>1. Counted'
    BY <1>10, CountedOn DEF G!Crash
  <2>2. cmd' \in [G!Asset -> Answer]
    BY <1>10 DEF G!Crash, G!Unsent
  <2> QED
    BY <1>2, <1>10, <2>1, <2>2 DEF G!Crash, GridTyped
<1>11. CASE G!Change
  BY <1>11 DEF G!Change, GridTyped, Counted
<1>12. ASSUME NEW a \in G!Asset, G!Expire(a) PROVE GridTyped' /\ Counted'
  <2>1. cmd \in [G!Asset -> Answer] /\ cmd' = [cmd EXCEPT ![a].fresh = FALSE]
    BY <1>12 DEF G!Expire, GridTyped
  <2>2. [cmd[a] EXCEPT !.fresh = FALSE] \in Answer
    BY <2>1, NoLongerFresh
  <2>3. cmd' \in [G!Asset -> Answer]
    <3> HIDE DEF Answer
    <3> QED
      BY <2>1, <2>2
  <2> QED
    BY <1>12, <2>3 DEF G!Expire, GridTyped, Counted
<1> QED
  BY <1>4, <1>5, <1>6, <1>7, <1>8, <1>9, <1>10, <1>11, <1>12 DEF G!Next, G!Step

LEMMA GridIsTyped == ASSUME GridTyped, Counted PROVE G!TypeOK
BY DEF GridTyped, RoundState, Counted, G!TypeOK, G!CurtailKw

---------------------------------------------------------------------------
(***************************************************************************)
(* Peak shaving alone: its invariant is that of EmsController_proofs, for    *)
(* one replica, one configuration, no plans and no failures.                 *)
(***************************************************************************)
SP == INSTANCE EmsController_proofs WITH
        Replica <- {None}, Slot <- {None}, Config <- {None}, Threshold <- ShavingThreshold,
        Soc <- {"inside"}, Plan <- {None}, Schedule <- {None}, NoPlan <- None,
        MaxFails <- 0, MaxCrashes <- 0, tick <- emsTick

LEMMA SameCommand == S!Command = SP!Command /\ S!Setpoint = SP!Setpoint /\ S!Strategy = SP!Strategy
<1>1. S!Setpoint = SP!Setpoint
  BY DEF S!Setpoint, SP!Setpoint, S!Lesser, SP!Lesser
<1>2. S!Strategy = SP!Strategy
  BY DEF S!Strategy, SP!Strategy
<1>3. S!Event = SP!Event
  BY <1>1 DEF S!Event, SP!Event
<1> QED
  BY <1>1, <1>2, <1>3 DEF S!Command, SP!Command

LEMMA ShavingAssumed == ASSUME ServicesAssumption PROVE SP!EmsAssumption /\ SP!NoneAssumption
<1>1. SP!EmsAssumption
  BY DEF S!EmsAssumption, SP!EmsAssumption
<1>2. SP!NoneAssumption
  BY SameCommand DEF S!NoneAssumption, SP!NoneAssumption
<1> QED
  BY <1>1, <1>2

LEMMA ShavingInit == ASSUME ServicesAssumption, S!Init PROVE SP!OrderInv
<1>1. SP!Init
  BY DEF S!Init, SP!Init, S!NoEvent, SP!NoEvent, S!IdleTick, SP!IdleTick
<1> QED
  BY <1>1, ShavingAssumed, SP!OwnerInit DEF SP!OwnerInv

LEMMA ShavingIsTyped == ASSUME SP!OrderInv PROVE S!TypeOK
BY DEF SP!OrderInv, S!TypeOK, SP!TypeOK, S!Setpoint, SP!Setpoint, S!Event, SP!Event, S!TickState, SP!TickState,
       S!Command, SP!Command, S!Strategy, SP!Strategy, S!Lesser, SP!Lesser

\* The decisions and the actions are the same ones.
LEMMA SamePeak ==
  ASSUME NEW st, NEW import, NEW limited
  PROVE  S!PeakOutcome(st, import, limited) = SP!PeakOutcome(st, import, limited)
<1>1. S!Cut(st) = SP!Cut(st) /\ S!Leave(st) = SP!Leave(st) /\ S!Rest(import, st) = SP!Rest(import, st)
  BY DEF S!Cut, SP!Cut, S!Leave, SP!Leave, S!Outcome, SP!Outcome, S!NoEvent, SP!NoEvent,
         S!Rest, SP!Rest, S!StartPower, SP!StartPower, S!Lesser, SP!Lesser
<1>2. S!Ride(import, st) = SP!Ride(import, st)
  BY <1>1 DEF S!Ride, SP!Ride, S!HoldPower, SP!HoldPower, S!Lesser, SP!Lesser, S!Greater, SP!Greater,
         S!StopDue, SP!StopDue, S!RetrimDue, SP!RetrimDue, S!Outcome, SP!Outcome
<1> QED
  BY <1>1, <1>2 DEF S!PeakOutcome, SP!PeakOutcome, S!Blocked, SP!Blocked

LEMMA SameSends ==
  ASSUME NEW r, NEW k, NEW t, NEW by, NEW out
  PROVE  S!Sends(r, k, t, by, out) <=> SP!Sends(r, k, t, by, out)
BY DEF S!Sends, SP!Sends, S!SetTick, SP!SetTick, S!Duplicate, SP!Duplicate

LEMMA ShavingNext ==
  ASSUME ServicesAssumption, SP!OrderInv, [S!Next]_(S!vars)
  PROVE  SP!OrderInv'
<1>1. ASSUME NEW r \in {None}, NEW k \in {None}, S!TickStep(r, k)
      PROVE  SP!TickStep(r, k)
  <2>1. ASSUME NEW c \in {None}, S!EvalPeak(r, k, c) PROVE SP!EvalPeak(r, k, c)
    <3> DEFINE t == emsTick[r][k]
               out == SP!PeakOutcome(peak[r][c], reading[c], t.limited)
               after == [t EXCEPT !.todo = @ \ {c}, !.drove = @ \/ out.drives]
    <3>1. S!PeakOutcome(peak[r][c], reading[c], t.limited) = out
      BY SamePeak
    <3>2. S!Sends(r, k, after, c, out) <=> SP!Sends(r, k, after, c, out)
      BY SameSends
    <3> QED
      BY <2>1, <3>1, <3>2 DEF S!EvalPeak, SP!EvalPeak, S!env, SP!env
  <2>2. S!EvalPlan(r, k) => SP!EvalPlan(r, k)
    BY SameSends DEF S!EvalPlan, SP!EvalPlan, S!env, SP!env, S!PlanValue, SP!PlanValue, S!Blocked, SP!Blocked,
           S!Outcome, SP!Outcome, S!NoEvent, SP!NoEvent
  <2>3. S!EvalSchedule(r, k) => SP!EvalSchedule(r, k)
    BY SameSends DEF S!EvalSchedule, SP!EvalSchedule, S!env, SP!env, S!ScheduleValue, SP!ScheduleValue,
           S!Blocked, SP!Blocked, S!Outcome, SP!Outcome, S!NoEvent, SP!NoEvent
  <2>4. S!End(r, k) => SP!End(r, k)
    BY DEF S!End, SP!End, S!SetTick, SP!SetTick, S!env, SP!env, S!IdleTick, SP!IdleTick
  <2>5. S!Lands(r, k) => SP!Lands(r, k)
    BY DEF S!Lands, SP!Lands, S!SetTick, SP!SetTick, S!env, SP!env
  <2>6. S!SendOk(r, k) => SP!SendOk(r, k)
    BY DEF S!SendOk, SP!SendOk, S!Returns, SP!Returns, S!Remember, SP!Remember, S!SetTick, SP!SetTick, S!env, SP!env
  <2> QED
    BY <1>1, <2>1, <2>2, <2>3, <2>4, <2>5, <2>6 DEF S!TickStep, SP!TickStep
<1>2. ASSUME NEW r \in {None}, NEW k \in {None}
      PROVE  /\ S!Begin(r, k) => SP!Begin(r, k)
             /\ S!SendFails(r, k) => SP!SendFails(r, k)
             /\ S!EvalFails(r, k) => SP!EvalFails(r, k)
  <2>1. S!Begin(r, k) => SP!Begin(r, k)
    BY DEF S!Begin, SP!Begin, S!Busy, SP!Busy, S!SetTick, SP!SetTick, S!env, SP!env, S!IdleTick, SP!IdleTick,
           S!Lesser, SP!Lesser
  <2>2. S!SendFails(r, k) => SP!SendFails(r, k)
    BY DEF S!SendFails, SP!SendFails, S!Returns, SP!Returns, S!Remember, SP!Remember, S!SetTick, SP!SetTick,
           S!env, SP!env
  <2>3. S!EvalFails(r, k) => SP!EvalFails(r, k)
    BY DEF S!EvalFails, SP!EvalFails, S!SetTick, SP!SetTick, S!env, SP!env
  <2> QED
    BY <2>1, <2>2, <2>3
<1>3. ASSUME NEW r \in {None}, S!Crash(r) PROVE SP!Crash(r)
  BY <1>3 DEF S!Crash, SP!Crash, S!NoEvent, SP!NoEvent, S!IdleTick, SP!IdleTick, S!env, SP!env
<1>4. S!Change => SP!Change
  BY DEF S!Change, SP!Change
<1>5. S!vars = SP!vars /\ S!vars' = SP!vars'
  BY DEF S!vars, SP!vars
<1>6. S!Next => SP!Next
  BY <1>1, <1>2, <1>3, <1>4 DEF S!Next, SP!Next
<1>7. [SP!Next]_(SP!vars)
  BY <1>5, <1>6
<1> QED
  BY <1>7, ShavingAssumed, SP!OrderNext

---------------------------------------------------------------------------
\* All services at once.
ServicesInv ==
  /\ part \in Part /\ Counted
  /\ WP!QueueInv /\ QueueCounted
  /\ ReportInv /\ ReportCounted
  /\ LimitInv /\ LimitCounted
  /\ PurgeInv /\ PurgeCounted
  /\ ExportInv /\ crossed \subseteq E!Export
  /\ GridTyped
  /\ WatchdogInv /\ WatchdogCounted
  /\ part = "shaving" => SP!OrderInv

LEMMA ServicesInvInit == ServicesInit => ServicesInv
<1> SUFFICES ASSUME ServicesInit PROVE ServicesInv
  OBVIOUS
<1>1. WP!QueueInv /\ ReportInv /\ LimitInv /\ PurgeInv /\ ExportInv /\ GridTyped /\ WatchdogInv
  <2>1. WP!QueueInv
    BY ServicesAssumption, SameWebhooks, WP!QueueInit DEF ServicesInit
  <2>2. ReportInv /\ PurgeInv /\ ExportInv
    BY ServicesAssumption, ReportInit, PurgeInit, ExportInit DEF ServicesInit
  <2>3. LimitInv /\ GridTyped /\ WatchdogInv
    BY ServicesAssumption, LimitInit, GridInit, WatchdogInit DEF ServicesInit, LimitAssumption
  <2> QED
    BY <2>1, <2>2, <2>3
<1>2. Counted
  BY ServicesAssumption, CountsAre DEF ServicesInit, W!Init, G!Init, Counted
<1>3. QueueCounted
  <2>1. failing = FALSE /\ toggles = 0
    BY DEF ServicesInit, W!Init
  <2>2. MaxToggles \in Nat
    BY ServicesAssumption DEF W!WebhookAssumption
  <2>3. failing \in BOOLEAN
    BY <2>1
  <2>4. toggles \in 0..MaxToggles
    BY <2>1, <2>2
  <2> QED
    BY <2>3, <2>4 DEF QueueCounted
<1>4. ReportCounted
  <2>1. late = FALSE /\ adhoc = 0
    BY DEF ServicesInit, R!Init
  <2>2. MaxAdhoc \in Nat
    BY ServicesAssumption DEF R!ReportAssumption
  <2>3. late \in BOOLEAN
    BY <2>1
  <2>4. adhoc \in 0..MaxAdhoc
    BY <2>1, <2>2
  <2> QED
    BY <2>3, <2>4 DEF ReportCounted
<1>5. LimitCounted
  BY ServicesAssumption DEF ServicesInit, L!Init, L!RateAssumption, L!NoCall, LimitCounted
<1>6. PurgeCounted
  BY ServicesAssumption DEF ServicesInit, P!Init, P!PurgeAssumption, PurgeCounted
<1>7. crossed \subseteq E!Export
  BY DEF ServicesInit, E!Init
<1>8. WatchdogCounted
  BY DEF ServicesInit, D!Init, WatchdogCounted
<1>9. SP!OrderInv
  BY ServicesAssumption, ShavingInit DEF ServicesInit
<1>10. part \in Part
  BY DEF ServicesInit
<1> QED
  BY <1>1, <1>2, <1>3, <1>4, <1>5, <1>6, <1>7, <1>8, <1>9, <1>10 DEF ServicesInv

LEMMA ServicesInvStep == ServicesInv /\ [ServicesNext]_servicesVars => ServicesInv'
<1> SUFFICES ASSUME ServicesInv, [ServicesNext]_servicesVars PROVE ServicesInv'
  OBVIOUS
<1> USE ServicesAssumption
<1>1. Counted /\ part' = part /\ part \in Part
  BY DEF ServicesInv, ServicesNext, servicesVars
<1>2. /\ WP!QueueInv' /\ QueueCounted'
      /\ part = "webhooks" => Counted'
  <2>1. WP!QueueInv'
    BY QueueStands DEF ServicesInv
  <2>2. CASE part = "webhooks" /\ W!Next /\ UNCHANGED fails
    BY <2>1, <2>2, QueueCounts DEF ServicesInv
  <2>3. CASE UNCHANGED webhooks /\ (part = "webhooks" => UNCHANGED <<crashes, fails>>)
    BY <2>1, <2>3 DEF ServicesInv, webhooks, QueueCounted, Counted
  <2> QED
    BY <2>2, <2>3 DEF ServicesNext, servicesVars
<1>3. /\ ReportInv' /\ ReportCounted'
      /\ part = "reports" => Counted'
  <2>1. CASE part = "reports" /\ R!Next /\ UNCHANGED fails
    BY <2>1, ReportNext, ReportCounts DEF ServicesInv
  <2>2. CASE UNCHANGED reports /\ (part = "reports" => UNCHANGED <<crashes, fails>>)
    BY <2>2, ReportRests DEF ServicesInv, reports, ReportCounted, Counted
  <2> QED
    BY <2>1, <2>2 DEF ServicesNext, servicesVars
<1>4. /\ LimitInv' /\ LimitCounted'
      /\ part = "limiter" => Counted'
  <2>1. CASE part = "limiter" /\ L!Next /\ UNCHANGED crashes
    BY <2>1, LimitNext, LimitCounts DEF ServicesInv, LimitAssumption
  <2>2. CASE UNCHANGED limiter /\ (part = "limiter" => UNCHANGED <<crashes, fails>>)
    BY <2>2, LimitRests DEF ServicesInv, limiter, LimitCounted, Counted
  <2> QED
    BY <2>1, <2>2 DEF ServicesNext, servicesVars
<1>5. /\ PurgeInv' /\ PurgeCounted'
      /\ part = "orgs" => Counted'
  <2>1. CASE part = "orgs" /\ P!Next /\ UNCHANGED fails
    BY <2>1, PurgeNext, PurgeCounts DEF ServicesInv
  <2>2. CASE UNCHANGED orgs /\ (part = "orgs" => UNCHANGED <<crashes, fails>>)
    BY <2>2, PurgeRests DEF ServicesInv, orgs, PurgeCounted, Counted
  <2> QED
    BY <2>1, <2>2 DEF ServicesNext, servicesVars
<1>6. /\ ExportInv' /\ crossed' \subseteq E!Export
      /\ part = "exports" => Counted'
  <2>1. CASE part = "exports" /\ E!Next /\ UNCHANGED crashes
    BY <2>1, ExportNext, ExportCounts DEF ServicesInv
  <2>2. CASE UNCHANGED exports /\ (part = "exports" => UNCHANGED <<crashes, fails>>)
    BY <2>2, ExportRests DEF ServicesInv, exports, Counted
  <2> QED
    BY <2>1, <2>2 DEF ServicesNext, servicesVars
<1>7. /\ GridTyped'
      /\ part = "grid" => Counted'
  <2>1. CASE part = "grid" /\ G!Next
    BY <2>1, GridNext DEF ServicesInv
  <2>2. CASE UNCHANGED grid /\ (part = "grid" => UNCHANGED <<crashes, fails>>)
    BY <2>2 DEF ServicesInv, grid, GridTyped, Counted
  <2> QED
    BY <2>1, <2>2 DEF ServicesNext, servicesVars
<1>8. /\ WatchdogInv' /\ WatchdogCounted'
      /\ part = "watchdog" => Counted'
  <2>1. CASE part = "watchdog" /\ D!Next
    BY <2>1, WatchdogNext, WatchdogCounts DEF ServicesInv
  <2>2. CASE UNCHANGED watchdog /\ (part = "watchdog" => UNCHANGED <<crashes, fails>>)
    BY <2>2, WatchdogRests DEF ServicesInv, watchdog, WatchdogCounted, Counted, D!Cap
  <2> QED
    BY <2>1, <2>2 DEF ServicesNext, servicesVars
<1>9. part = "shaving" => SP!OrderInv' /\ Counted'
  <2> SUFFICES ASSUME part = "shaving" PROVE SP!OrderInv' /\ Counted'
    OBVIOUS
  <2>1. [S!Next]_(S!vars)
    BY DEF ServicesNext, servicesVars, S!vars, shaving
  <2>2. SP!OrderInv'
    BY <2>1, ShavingNext DEF ServicesInv
  <2>3. fails' = 0 /\ crashes' = 0
    BY <2>2 DEF SP!OrderInv, SP!TypeOK
  <2> QED
    BY <2>2, <2>3, CountsAre DEF Counted
<1>10. part = "rollouts" => Counted'
  BY DEF ServicesInv, ServicesNext, servicesVars, Counted
<1>11. Counted'
  BY <1>1, <1>2, <1>3, <1>4, <1>5, <1>6, <1>7, <1>8, <1>9, <1>10 DEF Part
<1> QED
  BY <1>1, <1>2, <1>3, <1>4, <1>5, <1>6, <1>7, <1>8, <1>9, <1>11 DEF ServicesInv

(***************************************************************************)
(* All services are typed, whichever of them moves: the plant answers with   *)
(* what its registers allow, the shares handed out are of the site's assets  *)
(* and within their ratings, and process ends and failures are counted for   *)
(* all of them together.                                                     *)
(***************************************************************************)
THEOREM ServicesTypeCorrect == ServicesSpec => []ServicesTypeOK
<1>1. ServicesInv /\ TypeOK => ServicesTypeOK
  <2> SUFFICES ASSUME ServicesInv, TypeOK PROVE ServicesTypeOK
    OBVIOUS
  <2>1. W!TypeOK /\ R!TypeOK /\ P!TypeOK /\ E!TypeOK
    BY QueueIsTyped, ReportIsTyped, PurgeIsTyped, ExportIsTyped DEF ServicesInv
  <2>2. L!TypeOK /\ G!TypeOK /\ D!TypeOK
    BY ServicesAssumption, LimitIsTyped, GridIsTyped, WatchdogIsTyped DEF ServicesInv
  <2>3. part = "shaving" => S!TypeOK
    BY ShavingIsTyped DEF ServicesInv
  <2> QED
    BY <2>1, <2>2, <2>3 DEF ServicesInv, ServicesTypeOK
<1> QED
  BY <1>1, ServicesInvInit, ServicesInvStep, ServicesRollOut, RolloutTypeCorrect, PTL DEF ServicesSpec

=============================================================================
