------------------------------- MODULE OtaJob -------------------------------
(***************************************************************************)
(* One OTA config job for an MQTT gateway (api/ota/manager.ts): the row of   *)
(* ota_jobs, the dispatch at creation, the sweeps that dispatch pending jobs *)
(* and retry the ones whose ack is overdue, the ack handlers, and the        *)
(* operator's cancel.                                                        *)
(*                                                                           *)
(* Every reader takes a snapshot of the row and writes it back after awaits, *)
(* most of the time without looking at the row again, so the steps of a      *)
(* dispatch - row selected, frame published, row updated - are actions of    *)
(* their own.  Sweeps overlap when one takes longer than the interval.       *)
(***************************************************************************)
EXTENDS Naturals

CONSTANTS
  MAX_ATTEMPTS,
  Creator,       \* the request that created the job
  Sweep,         \* sweeps that can be under way at once
  Handler,       \* ack frames that can be handled at once
  MaxFails,      \* bound: failed publishes and updates
  MaxCrashes     \* bound: process ends

ASSUME OtaJobAssumption ==
  /\ MAX_ATTEMPTS \in Nat \ {0}
  /\ Creator \notin Sweep
  /\ MaxFails \in Nat /\ MaxCrashes \in Nat

VARIABLES
  status, attempts, error,   \* the row
  overdue,                   \* sentAt is older than ACK_TIMEOUT_MS
  worker,                    \* what the creator and each sweep is doing
  handler,                   \* what each ack handler is doing
  replies,                   \* the gateway's frames on their way, by status
  configVersion,             \* of the gateway's row
  published, applied,        \* history: frames published (up to the limit), executed
  fails, crashes             \* bound counters

row == <<status, attempts, error, overdue>>
vars == <<row, worker, handler, replies, configVersion, published, applied, fails, crashes>>

Worker == Sweep \cup {Creator}
Reply == {"ack", "failed"}
Status == {"pending", "sent", "ack", "failed"}
Settled == {"ack", "failed"}
Error == {"none", "timeout", "publish", "negative", "cancelled"}

Idle == [pc |-> "idle", seen |-> "pending", attempts |-> 0]

TypeOK ==
  /\ status \in Status /\ attempts \in 0..MAX_ATTEMPTS /\ error \in Error
  /\ overdue \in BOOLEAN
  /\ worker \in [Worker -> [pc : {"idle", "selected", "published"},
                            seen : {"pending", "sent"}, attempts : 0..MAX_ATTEMPTS]]
  /\ handler \in [Handler -> {"idle", "ack", "failed", "bump"}]
  /\ replies \in [Reply -> Nat]
  /\ configVersion \in Nat /\ published \in 0..MAX_ATTEMPTS /\ applied \in Nat
  /\ fails \in 0..MaxFails /\ crashes \in 0..MaxCrashes

---------------------------------------------------------------------------
\* createOtaJob has inserted the row and read it back.
Init ==
  /\ status = "pending" /\ attempts = 0 /\ error = "none" /\ overdue = FALSE
  /\ worker = [w \in Worker |-> IF w = Creator THEN [Idle EXCEPT !.pc = "selected"] ELSE Idle]
  /\ handler = [h \in Handler |-> "idle"]
  /\ replies = [r \in Reply |-> 0]
  /\ configVersion = 0 /\ published = 0 /\ applied = 0
  /\ fails = 0 /\ crashes = 0

\* failJob: unconditional.
FailJob(cause) ==
  /\ status' = "failed" /\ error' = cause
  /\ UNCHANGED <<attempts, overdue>>

Becomes(w, state) == worker' = [worker EXCEPT ![w] = state]

\* The sweep's two selects.
Select(w) ==
  /\ worker[w].pc = "idle"
  /\ status = "pending" \/ (status = "sent" /\ overdue)
  /\ Becomes(w, [pc |-> "selected", seen |-> status, attempts |-> attempts])
  /\ UNCHANGED <<row, handler, replies, configVersion, published, applied, fails, crashes>>

\* Mutant: off by one.
OutOfAttemptsEarly(w) == worker[w].seen = "sent" /\ worker[w].attempts >= MAX_ATTEMPTS - 1
\* Mutant: a job on its last attempt is dispatched once more.
OutOfAttemptsLate(w) == worker[w].seen = "sent" /\ worker[w].attempts > MAX_ATTEMPTS
OutOfAttempts(w) == worker[w].seen = "sent" /\ worker[w].attempts >= MAX_ATTEMPTS

\* The sweep gives an overdue job up.
GiveUp(w) ==
  /\ worker[w].pc = "selected"
  /\ OutOfAttempts(w)
  /\ FailJob("timeout")
  /\ Becomes(w, Idle)
  /\ UNCHANGED <<handler, replies, configVersion, published, applied, fails, crashes>>

(***************************************************************************)
(* dispatch: publishOtaCmd.  The gateway executes the frame and acks it,     *)
(* refuses it, or the frame or its answer is lost; when the answer arrives   *)
(* is up to ReadReply.                                                       *)
(***************************************************************************)
Publish(w) ==
  /\ worker[w].pc = "selected"
  /\ ~OutOfAttempts(w)
  /\ published' = IF published < MAX_ATTEMPTS THEN published + 1 ELSE published
  /\ \/ applied' = applied + 1 /\ replies' = [replies EXCEPT !["ack"] = @ + 1]
     \/ applied' = applied + 1 /\ UNCHANGED replies
     \/ UNCHANGED applied /\ replies' = [replies EXCEPT !["failed"] = @ + 1]
     \/ UNCHANGED <<applied, replies>>
  /\ Becomes(w, [worker[w] EXCEPT !.pc = "published"])
  /\ UNCHANGED <<row, handler, configVersion, fails, crashes>>

\* Mutant: the counter is not bumped.
BumpedNot(w) == worker[w].attempts
Bumped(w) == worker[w].attempts + 1

\* dispatch: the unconditional update to "sent".
MarkSent(w) ==
  /\ worker[w].pc = "published"
  /\ status' = "sent" /\ attempts' = Bumped(w) /\ error' = "none"
  /\ overdue' = FALSE
  /\ Becomes(w, Idle)
  /\ UNCHANGED <<handler, replies, configVersion, published, applied, fails, crashes>>

\* dispatch: the publish or the update throws, and the job is failed - unless
\* that update throws as well and ends the sweep.
DispatchFails(w) ==
  /\ fails < MaxFails
  /\ fails' = fails + 1
  /\ worker[w].pc \in {"selected", "published"}
  /\ ~OutOfAttempts(w)
  /\ FailJob("publish") \/ UNCHANGED row
  /\ Becomes(w, Idle)
  /\ UNCHANGED <<handler, replies, configVersion, published, applied, crashes>>

\* ACK_TIMEOUT_MS passes.
Timeout ==
  /\ status = "sent" /\ ~overdue
  /\ overdue' = TRUE
  /\ UNCHANGED <<status, attempts, error, worker, handler, replies, configVersion,
                 published, applied, fails, crashes>>

\* handleOtaAck ignores frames about a job that is not "sent".
Accepts == status = "sent"

ReadReply(h) ==
  /\ handler[h] = "idle"
  /\ \E r \in Reply :
       /\ replies[r] > 0
       /\ replies' = [replies EXCEPT ![r] = @ - 1]
       /\ handler' = [handler EXCEPT ![h] = IF Accepts THEN r ELSE "idle"]
  /\ UNCHANGED <<row, worker, configVersion, published, applied, fails, crashes>>

\* Mutant: every answer counts as an ack.
PositiveAny(h) == handler[h] \in Reply
Positive(h) == handler[h] = "ack"

\* Its update, as unconditional as the others.
WriteReply(h) ==
  /\ handler[h] \in Reply
  /\ IF Positive(h)
     THEN /\ status' = "ack" /\ error' = "none"
          /\ handler' = [handler EXCEPT ![h] = "bump"]
          /\ UNCHANGED <<attempts, overdue>>
     ELSE /\ FailJob("negative")
          /\ handler' = [handler EXCEPT ![h] = "idle"]
  /\ UNCHANGED <<worker, replies, configVersion, published, applied, fails, crashes>>

BumpVersion(h) ==
  /\ handler[h] = "bump"
  /\ configVersion' = configVersion + 1
  /\ handler' = [handler EXCEPT ![h] = "idle"]
  /\ UNCHANGED <<row, worker, replies, published, applied, fails, crashes>>

\* cancelOtaJob: a conditional update.
Cancel ==
  /\ status = "pending"
  /\ FailJob("cancelled")
  /\ UNCHANGED <<worker, handler, replies, configVersion, published, applied, fails, crashes>>

\* The process ends with whatever it was doing; frames it had not read are lost.
Crash ==
  /\ crashes < MaxCrashes
  /\ crashes' = crashes + 1
  /\ worker' = [w \in Worker |-> Idle]
  /\ handler' = [h \in Handler |-> "idle"]
  /\ replies' = [r \in Reply |-> 0]
  /\ UNCHANGED <<row, configVersion, published, applied, fails>>

Next ==
  \/ \E w \in Sweep : Select(w)
  \/ \E w \in Worker :
       \/ GiveUp(w)
       \/ Publish(w)
       \/ MarkSent(w)
       \/ DispatchFails(w)
  \/ Timeout
  \/ \E h \in Handler :
       \/ ReadReply(h)
       \/ WriteReply(h)
       \/ BumpVersion(h)
  \/ Cancel
  \/ Crash

Spec == Init /\ [][Next]_vars

\* Sweeps run, dispatches and handlers come back, the clock goes on.  The
\* gateway need not answer.
FairSpec ==
  /\ Spec
  /\ WF_vars(Timeout)
  /\ WF_vars(\E w \in Sweep : Select(w))
  /\ \A w \in Worker : WF_vars(GiveUp(w) \/ Publish(w)) /\ WF_vars(MarkSent(w))
  /\ \A h \in Handler : WF_vars(WriteReply(h)) /\ WF_vars(BumpVersion(h))

---------------------------------------------------------------------------
(***************************************************************************)
(* The job is delivered or given up for good, whatever is lost, fails or     *)
(* overlaps.                                                                 *)
(***************************************************************************)
Settles == <>[](status \in Settled)

(***************************************************************************)
(* "failed = ack timeout ..." (manager.ts:10-11): a job given up for want of *)
(* an ack was really published as often as the limit says.                   *)
(***************************************************************************)
TimeoutHonest == error = "timeout" => published >= MAX_ATTEMPTS

(***************************************************************************)
(* What the platform reports as applied was applied: an acked job was        *)
(* executed, and the gateway's configVersion counts no more configurations   *)
(* than it executed - across resends, stale answers and restarts.            *)
(***************************************************************************)
VersionHonest == configVersion <= applied /\ (status = "ack" => applied > 0)

\* What a settled job says is true, of the failure and of the success.
ReportsHonest == TimeoutHonest /\ VersionHonest

(***************************************************************************)
(* "Status machine: pending -> sent -> ack | failed" (manager.ts:9-10): an   *)
(* acked job stays acked.                                                    *)
(***************************************************************************)
AckFinal == [][status = "ack" => status' = "ack"]_vars

=============================================================================
