--------------------------- MODULE OtaJob_proofs ---------------------------
(***************************************************************************)
(* Theorems about OtaJob: whatever workers and handlers overlap, frames are  *)
(* lost, statements fail and processes end, the row claims no attempt that   *)
(* was not made and no configuration that was not executed.                  *)
(***************************************************************************)
EXTENDS OtaJob, FiniteSetTheorems, TLAPS

\* The handlers under way at once are finitely many.
JobAssumption == OtaJobAssumption /\ IsFiniteSet(Handler)

---------------------------------------------------------------------------
(***************************************************************************)
(* What makes the attempts honest: the row, and every copy of it a worker    *)
(* goes on with, counts no attempt that was not published, a worker that     *)
(* published counted one less, and the limit is looked at before.            *)
(***************************************************************************)
Selected(w) ==
  /\ worker[w].pc = "selected" => worker[w].attempts <= published
  /\ worker[w].pc = "published" =>
       worker[w].attempts < MAX_ATTEMPTS /\ worker[w].attempts + 1 <= published
  /\ worker[w].seen = "pending" => worker[w].attempts = 0

AttemptsMade ==
  /\ attempts <= published
  /\ status = "pending" => attempts = 0
  /\ \A w \in Worker : Selected(w)
  /\ TimeoutHonest

(***************************************************************************)
(* What makes the version honest: an execution is behind every version, every *)
(* ack a handler holds, and every ack on its way.                            *)
(***************************************************************************)
Carrying == {h \in Handler : handler[h] \in {"ack", "bump"}}

Backed == configVersion + Cardinality(Carrying) + replies["ack"] <= applied

Acked ==
  /\ \A h \in Handler : handler[h] \in {"ack", "bump"} => applied > 0
  /\ status = "ack" => applied > 0

JobInv == TypeOK /\ AttemptsMade /\ Backed /\ Acked

---------------------------------------------------------------------------
LEMMA CarryingType ==
  ASSUME JobAssumption
  PROVE  IsFiniteSet(Carrying) /\ Cardinality(Carrying) \in Nat
<1>1. Carrying \subseteq Handler
  BY DEF Carrying
<1>2. IsFiniteSet(Carrying)
  BY <1>1, FS_Subset DEF JobAssumption
<1> QED
  BY <1>2, FS_CardinalityType

LEMMA JobInit ==
  ASSUME JobAssumption, Init
  PROVE  JobInv
<1>1. MAX_ATTEMPTS \in Nat \ {0} /\ MaxFails \in Nat /\ MaxCrashes \in Nat
  BY DEF JobAssumption, OtaJobAssumption
<1>2. TypeOK
  <2>1. worker \in [Worker -> [pc : {"idle", "selected", "published"},
                              seen : {"pending", "sent"}, attempts : 0..MAX_ATTEMPTS]]
    BY <1>1 DEF Init, Idle, Worker
  <2>2. replies \in [Reply -> Nat] /\ handler \in [Handler -> {"idle", "ack", "failed", "bump"}]
    BY DEF Init
  <2>3. /\ status = "pending" /\ attempts = 0 /\ error = "none" /\ overdue = FALSE
        /\ configVersion = 0 /\ published = 0 /\ applied = 0 /\ fails = 0 /\ crashes = 0
    BY DEF Init
  <2>4. status \in Status /\ error \in Error /\ overdue \in BOOLEAN
    BY <2>3 DEF Status, Error
  <2>5. /\ attempts \in 0..MAX_ATTEMPTS /\ published \in 0..MAX_ATTEMPTS
        /\ configVersion \in Nat /\ applied \in Nat
        /\ fails \in 0..MaxFails /\ crashes \in 0..MaxCrashes
    BY <1>1, <2>3
  <2> QED
    BY <2>1, <2>2, <2>4, <2>5 DEF TypeOK
<1>3. AttemptsMade
  BY <1>1 DEF Init, AttemptsMade, Selected, TimeoutHonest, Idle, Worker
<1>4. Carrying = {} /\ replies["ack"] = 0
  BY DEF Init, Carrying, Reply
<1>5. Backed
  BY <1>4, FS_EmptySet DEF Init, Backed
<1>6. Acked
  BY <1>4 DEF Init, Acked, Carrying
<1> QED
  BY <1>2, <1>3, <1>5, <1>6 DEF JobInv

---------------------------------------------------------------------------
\* An action of a worker that leaves the handlers and answers alone, and does
\* not claim an ack, keeps the version honest.
LEMMA VersionKept ==
  ASSUME JobInv, UNCHANGED <<handler, replies, configVersion, applied>>,
         status' = "ack" => status = "ack"
  PROVE  Backed' /\ Acked'
<1>1. Carrying' = Carrying
  BY DEF Carrying
<1> QED
  BY <1>1 DEF JobInv, Backed, Acked

\* One that leaves the workers and the count alone keeps the attempts honest.
LEMMA AttemptsKept ==
  ASSUME JobInv, UNCHANGED <<worker, attempts, published>>,
         status' = "pending" => status = "pending",
         error' = "timeout" => error = "timeout"
  PROVE  AttemptsMade'
BY DEF JobInv, AttemptsMade, Selected, TimeoutHonest

LEMMA SelectKeeps ==
  ASSUME JobAssumption, JobInv, NEW w \in Sweep, Select(w)
  PROVE  JobInv'
<1>1. w \in Worker
  BY DEF Worker
<1>2. worker' = [worker EXCEPT ![w] = [pc |-> "selected", seen |-> status, attempts |-> attempts]]
  BY DEF Select, Becomes
<1>3. TypeOK'
  BY <1>1, <1>2 DEF JobInv, TypeOK, Select, row
<1>4. AttemptsMade'
  BY <1>1, <1>2 DEF JobInv, TypeOK, AttemptsMade, Selected, TimeoutHonest, Select, row
<1>5. Backed' /\ Acked'
  BY VersionKept DEF Select, row
<1> QED
  BY <1>3, <1>4, <1>5 DEF JobInv

LEMMA GiveUpKeeps ==
  ASSUME JobAssumption, JobInv, NEW w \in Worker, GiveUp(w)
  PROVE  JobInv'
<1>0. MAX_ATTEMPTS \in Nat \ {0}
  BY DEF JobAssumption, OtaJobAssumption
<1>1. worker' = [worker EXCEPT ![w] = Idle]
  BY DEF GiveUp, Becomes
<1>2. TypeOK'
  BY <1>0, <1>1 DEF JobInv, TypeOK, GiveUp, FailJob, Idle, Status, Error
<1>3. published >= MAX_ATTEMPTS
  BY <1>0 DEF JobInv, TypeOK, AttemptsMade, Selected, GiveUp, OutOfAttempts
<1>4. AttemptsMade'
  BY <1>1, <1>3 DEF JobInv, TypeOK, AttemptsMade, Selected, TimeoutHonest, GiveUp, FailJob, Idle
<1>5. Backed' /\ Acked'
  BY VersionKept DEF GiveUp, FailJob
<1> QED
  BY <1>2, <1>4, <1>5 DEF JobInv

LEMMA PublishKeeps ==
  ASSUME JobAssumption, JobInv, NEW w \in Worker, Publish(w)
  PROVE  JobInv'
<1>0. MAX_ATTEMPTS \in Nat \ {0}
  BY DEF JobAssumption, OtaJobAssumption
<1>1. worker' = [worker EXCEPT ![w] = [worker[w] EXCEPT !.pc = "published"]]
  BY DEF Publish, Becomes
<1>2. /\ published' \in 0..MAX_ATTEMPTS
      /\ published' >= published
      /\ worker[w].attempts + 1 <= published' /\ worker[w].attempts < MAX_ATTEMPTS
  <2>1. worker[w].attempts \in Nat /\ worker[w].attempts <= published /\ published \in 0..MAX_ATTEMPTS
    BY <1>0 DEF JobInv, TypeOK, AttemptsMade, Selected, Publish
  <2>2. worker[w].attempts < MAX_ATTEMPTS
    BY <1>0, <2>1 DEF JobInv, TypeOK, AttemptsMade, Selected, Publish, OutOfAttempts
  <2>3. published' = IF published < MAX_ATTEMPTS THEN published + 1 ELSE published
    BY DEF Publish
  <2> QED
    BY <1>0, <2>1, <2>2, <2>3
<1>3. /\ applied' \in Nat /\ applied' >= applied
      /\ replies' \in [Reply -> Nat]
      /\ replies'["ack"] - replies["ack"] <= applied' - applied
  <2>1. "ack" \in Reply /\ "failed" \in Reply /\ applied \in Nat /\ replies \in [Reply -> Nat]
    BY DEF Reply, JobInv, TypeOK
  <2>2. CASE applied' = applied + 1 /\ replies' = [replies EXCEPT !["ack"] = @ + 1]
    BY <2>1, <2>2
  <2>3. CASE applied' = applied + 1 /\ UNCHANGED replies
    BY <2>1, <2>3
  <2>4. CASE UNCHANGED applied /\ replies' = [replies EXCEPT !["failed"] = @ + 1]
    BY <2>1, <2>4
  <2>5. CASE UNCHANGED <<applied, replies>>
    BY <2>1, <2>5
  <2> QED
    BY <2>2, <2>3, <2>4, <2>5 DEF Publish
<1>4. UNCHANGED <<status, attempts, error, overdue, handler, configVersion, fails, crashes>>
  BY DEF Publish, row
<1>5. TypeOK'
  BY <1>1, <1>2, <1>3, <1>4 DEF JobInv, TypeOK
<1>6. AttemptsMade'
  BY <1>0, <1>1, <1>2, <1>4 DEF JobInv, TypeOK, AttemptsMade, Selected, TimeoutHonest
<1>7. Carrying' = Carrying
  BY <1>4 DEF Carrying
<1>8. Backed'
  <2>1. /\ Cardinality(Carrying) \in Nat /\ configVersion \in Nat /\ applied \in Nat
        /\ replies["ack"] \in Nat /\ replies'["ack"] \in Nat
    BY <1>3, CarryingType DEF JobInv, TypeOK, Reply
  <2> QED
    BY <1>3, <1>4, <1>7, <2>1 DEF JobInv, Backed
<1>9. Acked'
  BY <1>3, <1>4 DEF JobInv, TypeOK, Acked
<1> QED
  BY <1>5, <1>6, <1>8, <1>9 DEF JobInv

LEMMA MarkSentKeeps ==
  ASSUME JobAssumption, JobInv, NEW w \in Worker, MarkSent(w)
  PROVE  JobInv'
<1>0. MAX_ATTEMPTS \in Nat \ {0}
  BY DEF JobAssumption, OtaJobAssumption
<1>1. worker' = [worker EXCEPT ![w] = Idle]
  BY DEF MarkSent, Becomes
<1>2. attempts' = worker[w].attempts + 1 /\ worker[w].attempts \in Nat
      /\ worker[w].attempts < MAX_ATTEMPTS /\ worker[w].attempts + 1 <= published
  BY <1>0 DEF MarkSent, Bumped, JobInv, TypeOK, AttemptsMade, Selected
<1>3. TypeOK'
  <2>1. attempts' \in 0..MAX_ATTEMPTS
    BY <1>0, <1>2
  <2>2. Idle \in [pc : {"idle", "selected", "published"}, seen : {"pending", "sent"},
                  attempts : 0..MAX_ATTEMPTS]
    BY <1>0 DEF Idle
  <2> QED
    BY <1>1, <2>1, <2>2 DEF JobInv, TypeOK, MarkSent, Status, Error
<1>4. AttemptsMade'
  BY <1>0, <1>1, <1>2 DEF JobInv, TypeOK, AttemptsMade, Selected, TimeoutHonest, MarkSent, Idle
<1>5. Backed' /\ Acked'
  BY VersionKept DEF MarkSent
<1> QED
  BY <1>3, <1>4, <1>5 DEF JobInv

LEMMA DispatchFailsKeeps ==
  ASSUME JobAssumption, JobInv, NEW w \in Worker, DispatchFails(w)
  PROVE  JobInv'
<1>0. MAX_ATTEMPTS \in Nat \ {0} /\ MaxFails \in Nat
  BY DEF JobAssumption, OtaJobAssumption
<1>1. worker' = [worker EXCEPT ![w] = Idle]
  BY DEF DispatchFails, Becomes
<1>2. /\ status' \in {status, "failed"} /\ error' \in {error, "publish"}
      /\ UNCHANGED <<attempts, overdue>>
  BY DEF DispatchFails, FailJob, row
<1>3. TypeOK'
  BY <1>0, <1>1, <1>2 DEF JobInv, TypeOK, DispatchFails, Idle, Status, Error
<1>4. AttemptsMade'
  BY <1>1, <1>2 DEF JobInv, TypeOK, AttemptsMade, Selected, TimeoutHonest, DispatchFails, Idle
<1>5. Backed' /\ Acked'
  BY <1>2, VersionKept DEF DispatchFails
<1> QED
  BY <1>3, <1>4, <1>5 DEF JobInv

LEMMA ReadReplyKeeps ==
  ASSUME JobAssumption, JobInv, NEW h \in Handler, ReadReply(h)
  PROVE  JobInv'
<1>1. PICK r \in Reply : /\ replies[r] > 0
                         /\ replies' = [replies EXCEPT ![r] = @ - 1]
                         /\ handler' = [handler EXCEPT ![h] = IF Accepts THEN r ELSE "idle"]
  BY DEF ReadReply
<1>2. /\ "ack" \in Reply /\ replies \in [Reply -> Nat] /\ replies' \in [Reply -> Nat]
      /\ handler \in [Handler -> {"idle", "ack", "failed", "bump"}]
      /\ handler' \in [Handler -> {"idle", "ack", "failed", "bump"}]
      /\ handler[h] = "idle"
  BY <1>1 DEF JobInv, TypeOK, Reply, ReadReply
<1>3. TypeOK'
  BY <1>2 DEF JobInv, TypeOK, ReadReply, row
<1>4. AttemptsMade'
  BY AttemptsKept DEF ReadReply, row
<1>5. /\ Cardinality(Carrying) \in Nat /\ IsFiniteSet(Carrying) /\ h \notin Carrying
      /\ configVersion \in Nat /\ applied \in Nat
      /\ configVersion' = configVersion /\ applied' = applied /\ status' = status
  BY <1>2, CarryingType DEF JobInv, TypeOK, Carrying, ReadReply, row
<1>6. CASE r = "ack" /\ Accepts
  <2>1. Carrying' = Carrying \cup {h}
    BY <1>1, <1>2, <1>6 DEF Carrying
  <2>2. Cardinality(Carrying') = Cardinality(Carrying) + 1
    BY <1>5, <2>1, FS_AddElement
  <2>3. replies'["ack"] = replies["ack"] - 1 /\ replies["ack"] > 0 /\ replies["ack"] \in Nat
    BY <1>1, <1>2, <1>6
  <2>4. Backed'
    BY <1>5, <2>2, <2>3 DEF JobInv, Backed
  <2>5. applied > 0
    BY <1>5, <2>3 DEF JobInv, Backed
  <2> QED
    BY <1>3, <1>4, <1>5, <2>4, <2>5 DEF JobInv, Acked
<1>7. CASE ~(r = "ack" /\ Accepts)
  <2>1. Carrying' = Carrying
    BY <1>1, <1>2, <1>7 DEF Carrying, Reply
  <2>2. replies'["ack"] <= replies["ack"] /\ replies'["ack"] \in Nat /\ replies["ack"] \in Nat
    BY <1>1, <1>2
  <2>3. Backed'
    BY <1>5, <2>1, <2>2 DEF JobInv, Backed
  <2>4. Acked'
    BY <1>1, <1>2, <1>5, <1>7 DEF JobInv, Acked, Reply
  <2> QED
    BY <1>3, <1>4, <2>3, <2>4 DEF JobInv
<1> QED
  BY <1>6, <1>7

LEMMA WriteReplyKeeps ==
  ASSUME JobAssumption, JobInv, NEW h \in Handler, WriteReply(h)
  PROVE  JobInv'
<1>1. TypeOK'
  BY DEF JobInv, TypeOK, WriteReply, Positive, FailJob, Status, Error
<1>2. AttemptsMade'
  BY AttemptsKept DEF WriteReply, FailJob
<1>3. Carrying' = Carrying
  BY DEF JobInv, TypeOK, Carrying, WriteReply, Positive, Reply
<1>4. Backed'
  BY <1>3 DEF JobInv, Backed, WriteReply
<1>5. Acked'
  BY DEF JobInv, TypeOK, Acked, WriteReply, Positive, FailJob, Reply
<1> QED
  BY <1>1, <1>2, <1>4, <1>5 DEF JobInv

LEMMA BumpVersionKeeps ==
  ASSUME JobAssumption, JobInv, NEW h \in Handler, BumpVersion(h)
  PROVE  JobInv'
<1>1. TypeOK'
  BY DEF JobInv, TypeOK, BumpVersion, row
<1>2. AttemptsMade'
  BY AttemptsKept DEF BumpVersion, row
<1>3. /\ h \in Carrying /\ Carrying' = Carrying \ {h}
      /\ IsFiniteSet(Carrying) /\ Cardinality(Carrying) \in Nat
  BY CarryingType DEF JobInv, TypeOK, Carrying, BumpVersion
<1>4. Cardinality(Carrying') = Cardinality(Carrying) - 1
  BY <1>3, FS_RemoveElement
<1>5. Backed'
  <2>1. configVersion \in Nat /\ applied \in Nat /\ replies["ack"] \in Nat
    BY DEF JobInv, TypeOK, Reply
  <2> QED
    BY <1>3, <1>4, <2>1 DEF JobInv, Backed, BumpVersion
<1>6. Acked'
  BY DEF JobInv, TypeOK, Acked, BumpVersion, row
<1> QED
  BY <1>1, <1>2, <1>5, <1>6 DEF JobInv

LEMMA CrashKeeps ==
  ASSUME JobAssumption, JobInv, Crash
  PROVE  JobInv'
<1>0. MAX_ATTEMPTS \in Nat \ {0} /\ MaxCrashes \in Nat
  BY DEF JobAssumption, OtaJobAssumption
<1>1. TypeOK'
  BY <1>0 DEF JobInv, TypeOK, Crash, row, Idle
<1>2. AttemptsMade'
  BY <1>0 DEF JobInv, TypeOK, AttemptsMade, Selected, TimeoutHonest, Crash, row, Idle
<1>3. Carrying' = {} /\ replies'["ack"] = 0
  BY DEF Carrying, Crash, Reply
<1>4. Backed'
  <2>1. /\ Cardinality(Carrying) \in Nat /\ configVersion \in Nat /\ applied \in Nat
        /\ replies["ack"] \in Nat
    BY CarryingType DEF JobInv, TypeOK, Reply
  <2>2. Cardinality(Carrying') = 0
    BY <1>3, FS_EmptySet
  <2> QED
    BY <1>3, <2>1, <2>2 DEF JobInv, Backed, Crash
<1>5. Acked'
  BY DEF JobInv, Acked, Crash, row
<1> QED
  BY <1>1, <1>2, <1>4, <1>5 DEF JobInv

LEMMA JobNext ==
  ASSUME JobAssumption, JobInv, [Next]_vars
  PROVE  JobInv'
<1>1. ASSUME Timeout PROVE JobInv'
  <2>1. TypeOK'
    BY <1>1 DEF JobInv, TypeOK, Timeout
  <2>2. AttemptsMade'
    BY <1>1, AttemptsKept DEF Timeout
  <2>3. Backed' /\ Acked'
    BY <1>1, VersionKept DEF Timeout
  <2> QED
    BY <2>1, <2>2, <2>3 DEF JobInv
<1>2. ASSUME Cancel PROVE JobInv'
  <2>1. TypeOK'
    BY <1>2 DEF JobInv, TypeOK, Cancel, FailJob, Status, Error
  <2>2. AttemptsMade'
    BY <1>2, AttemptsKept DEF Cancel, FailJob
  <2>3. Backed' /\ Acked'
    BY <1>2, VersionKept DEF Cancel, FailJob
  <2> QED
    BY <2>1, <2>2, <2>3 DEF JobInv
<1>3. CASE UNCHANGED vars
  <2>1. TypeOK'
    BY <1>3 DEF JobInv, TypeOK, vars, row
  <2>2. AttemptsMade'
    BY <1>3, AttemptsKept DEF vars, row
  <2>3. Backed' /\ Acked'
    BY <1>3, VersionKept DEF vars, row
  <2> QED
    BY <2>1, <2>2, <2>3 DEF JobInv
<1> QED
  BY <1>1, <1>2, <1>3, SelectKeeps, GiveUpKeeps, PublishKeeps, MarkSentKeeps,
     DispatchFailsKeeps, ReadReplyKeeps, WriteReplyKeeps, BumpVersionKeeps, CrashKeeps
  DEF Next

---------------------------------------------------------------------------
(***************************************************************************)
(* Every reachable state is well typed; above all no job is dispatched more  *)
(* often than MAX_ATTEMPTS, however sweeps overlap (dispatch, otaSweep).     *)
(***************************************************************************)
THEOREM OtaTypeCorrect == ASSUME JobAssumption PROVE Spec => []TypeOK
<1>1. Init => JobInv
  BY JobInit
<1>2. JobInv /\ [Next]_vars => JobInv'
  BY JobNext
<1>3. JobInv => TypeOK
  BY DEF JobInv
<1> QED
  BY <1>1, <1>2, <1>3, PTL DEF Spec

(***************************************************************************)
(* What a settled job says is true: given up for want of an ack only after   *)
(* MAX_ATTEMPTS frames were published, acked only when the gateway executed  *)
(* one, and configVersion counts no configuration it did not execute         *)
(* (otaSweep, handleOtaAck).                                                 *)
(***************************************************************************)
THEOREM OtaReportsHonest == ASSUME JobAssumption PROVE Spec => []ReportsHonest
<1>1. Init => JobInv
  BY JobInit
<1>2. JobInv /\ [Next]_vars => JobInv'
  BY JobNext
<1>3. ASSUME JobInv PROVE ReportsHonest
  <2>1. /\ Cardinality(Carrying) \in Nat /\ configVersion \in Nat /\ applied \in Nat
        /\ replies["ack"] \in Nat
    BY <1>3, CarryingType DEF JobInv, TypeOK, Reply
  <2>2. configVersion <= applied
    BY <1>3, <2>1 DEF JobInv, Backed
  <2> QED
    BY <1>3, <2>2 DEF JobInv, AttemptsMade, Acked, ReportsHonest, VersionHonest
<1> QED
  BY <1>1, <1>2, <1>3, PTL DEF Spec

=============================================================================
