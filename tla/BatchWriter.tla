---------------------------- MODULE BatchWriter ----------------------------
(***************************************************************************)
(* The telemetry ingestion writer (api/telemetry/index.ts): rows pushed by  *)
(* the MQTT handlers and the Modbus poller are appended to a write-ahead    *)
(* log, queued in memory, and written to the store in batches that retry    *)
(* with backoff.  The process may crash at any point and replays its WAL    *)
(* segments at the next boot.                                               *)
(*                                                                          *)
(* Node runs one callback at a time, so everything between two awaits is a  *)
(* single action.  The only awaits are the two store.writeBatch calls: the  *)
(* one in flush (flushing = TRUE while it is pending) and the one in        *)
(* replayWal (pending while replay # {}).                                   *)
(*                                                                          *)
(* A row is its arrival number; a WAL segment f-<ts>-<seq>.jsonl is its     *)
(* creation number, which is also the order replayWal sorts the names in.   *)
(***************************************************************************)
EXTENDS Naturals, Sequences, FiniteSets, Functions

CONSTANTS
  QUEUE_MAX,       \* TELEMETRY_QUEUE_MAX: rows queued before backpressure
  BATCH_MAX,       \* TELEMETRY_BATCH_MAX: rows of one insert
  RETRY_MAX,       \* TELEMETRY_RETRY_MAX: retries of the head batch
  MaxRows,         \* bound: rows ever pushed
  MaxCrashes,      \* bound: process ends (crash, kill, shutdown)
  MaxStoreFails,   \* bound: failed store writes
  MaxWalFails      \* bound: failed WAL appends and renames

ASSUME BatchWriterAssumption ==
  /\ QUEUE_MAX \in Nat \ {0}
  /\ BATCH_MAX \in Nat \ {0}
  /\ RETRY_MAX \in Nat
  /\ MaxRows \in Nat
  /\ MaxCrashes \in Nat
  /\ MaxStoreFails \in Nat
  /\ MaxWalFails \in Nat

VARIABLES
  up,              \* is the process running?
  draining,        \* has SIGTERM/SIGINT been received?
  pendingRows,     \* rows not yet rotated into the queue
  queue,           \* WalBatch objects: [rows, walFile]
  flushing,        \* a writeBatch of the head batch is awaited
  inflight,        \* the slice of rows that writeBatch was given
  headAttempts,    \* failed attempts on the head batch
  backoff,         \* Date.now() < nextFlushAt
  pendingFile,     \* lines of pending.jsonl (<<>>: no such file)
  segments,        \* WAL segment -> its lines, for the files that exist
  walSeq,          \* segments created so far
  replay,          \* segments replayWal still has to write
  db,              \* rows in the telemetry table
  dropped,         \* stats.dropped, summed over process lives
  pushed,          \* history: rows 1..pushed have arrived
  displaced,       \* history: rows backpressure removed from memory
  crashes,         \* bound counter
  storeFails,      \* bound counter
  walFails         \* bound counter

memory == <<pendingRows, queue, flushing, inflight, headAttempts, backoff>>
files == <<pendingFile, segments, walSeq, walFails>>
bounds == <<crashes, storeFails>>
vars == <<up, draining, memory, files, replay, db, dropped, pushed, displaced, bounds>>

Row == 1..MaxRows

\* A batch without a WAL segment (walFile: null).
NoFile == 0

Batch == [rows : Seq(Row), walFile : Nat]

TypeOK ==
  /\ up \in BOOLEAN
  /\ draining \in BOOLEAN
  /\ pendingRows \in Seq(Row)
  /\ queue \in Seq(Batch)
  /\ flushing \in BOOLEAN
  /\ inflight \in Seq(Row)
  /\ headAttempts \in 0..RETRY_MAX
  /\ backoff \in BOOLEAN
  /\ pendingFile \in Seq(Row)
  /\ DOMAIN segments \subseteq 1..walSeq
  /\ \A s \in DOMAIN segments : segments[s] \in Seq(Row)
  /\ walSeq \in Nat
  /\ replay \subseteq DOMAIN segments
  /\ db \subseteq Row
  /\ dropped \in Nat
  /\ pushed \in 0..MaxRows
  /\ displaced \subseteq Row
  /\ crashes \in 0..MaxCrashes
  /\ storeFails \in 0..MaxStoreFails
  /\ walFails \in 0..MaxWalFails

---------------------------------------------------------------------------
\* Where a row can be.
QueuedRows(q) == UNION {Range(q[i].rows) : i \in DOMAIN q}
InMemory == Range(pendingRows) \cup QueuedRows(queue)
OnDisk == Range(pendingFile) \cup UNION {Range(segments[s]) : s \in DOMAIN segments}

\* totalQueued(): rows in memory, whatever they are.
TotalQueued ==
  LET upTo[i \in 0..Len(queue)] ==
        IF i = 0 THEN Len(pendingRows) ELSE upTo[i - 1] + Len(queue[i].rows)
  IN upTo[Len(queue)]

\* File operations of one callback work, or fail with errors the code swallows.
Faults(outcomes) ==
  LET n == Cardinality({i \in DOMAIN outcomes : ~outcomes[i]})
  IN walFails + n <= MaxWalFails /\ walFails' = walFails + n

Smaller(a, b) == IF a <= b THEN a ELSE b
Oldest(S) == CHOOSE s \in S : \A t \in S : s <= t

AddSegment(lines) ==
  [s \in DOMAIN segments \cup {walSeq + 1} |->
     IF s = walSeq + 1 THEN lines ELSE segments[s]]
Unlink(s) == Restrict(segments, DOMAIN segments \ {s})

\* Mutant: the self-healing branch recreates the directory and returns.
WalAppendForgets(row, appended) == pendingFile
\* pending.jsonl after walAppend(row).
WalAppend(row, appended) == IF appended THEN Append(pendingFile, row) ELSE pendingFile

\* Mutant: the backoff test with || for &&.
StartsWriteForced(force, q) == q # <<>> /\ force /\ ~backoff
\* Does flush, with queue q, get to its writeBatch?
StartsWrite(force, q) == q # <<>> /\ (force \/ ~backoff)

\* The rows of the head batch one writeBatch takes.
Slice(q) == SubSeq(q[1].rows, 1, Smaller(BATCH_MAX, Len(q[1].rows)))

\* Mutant: a batch counts as written after its first slice.
UnwrittenNone(batch) == <<>>
\* What a successful writeBatch leaves of the head batch, as it is by then.
Unwritten(batch) == SubSeq(batch.rows, Len(inflight) + 1, Len(batch.rows))

\* Mutant: off by one, and the counter passes its limit.
GivesUpLate == headAttempts > RETRY_MAX
\* Has the head batch used up its retries with this failure?
GivesUp == headAttempts + 1 > RETRY_MAX

\* Mutant: pending.jsonl is copied into the segment.
AfterCopy(f) == f
\* What is left of pending.jsonl once it has been renamed.
AfterRename(f) == <<>>

(***************************************************************************)
(* rotatePending on rows p, queue q and pending.jsonl f: p and its segment   *)
(* go to the end of the queue.  A missing pending.jsonl, or a rename that    *)
(* fails, leaves the batch without a segment; after a failed rename the      *)
(* lines stay in pending.jsonl.                                              *)
(***************************************************************************)
RotatePending(p, q, f, renamed) ==
  IF p = <<>>
  THEN /\ queue' = q
       /\ pendingFile' = f
       /\ UNCHANGED <<segments, walSeq>>
  ELSE IF f # <<>> /\ renamed
  THEN /\ segments' = AddSegment(f)
       /\ walSeq' = walSeq + 1
       /\ pendingFile' = AfterRename(f)
       /\ queue' = Append(q, [rows |-> p, walFile |-> walSeq + 1])
  ELSE /\ queue' = Append(q, [rows |-> p, walFile |-> NoFile])
       /\ pendingFile' = f
       /\ UNCHANGED <<segments, walSeq>>

(***************************************************************************)
(* flush(force) up to its await.                                             *)
(***************************************************************************)
BeginFlush(force, p, q, f, renamed) ==
  /\ UNCHANGED <<headAttempts, backoff>>
  /\ IF flushing
     THEN /\ pendingRows' = p
          /\ queue' = q
          /\ pendingFile' = f
          /\ UNCHANGED <<segments, walSeq, flushing, inflight>>
     ELSE /\ RotatePending(p, q, f, renamed)
          /\ pendingRows' = <<>>
          /\ IF StartsWrite(force, queue')
             THEN /\ flushing' = TRUE
                  /\ inflight' = Slice(queue')
             ELSE UNCHANGED <<flushing, inflight>>

---------------------------------------------------------------------------
Init ==
  /\ up = TRUE
  /\ draining = FALSE
  /\ pendingRows = <<>>
  /\ queue = <<>>
  /\ flushing = FALSE
  /\ inflight = <<>>
  /\ headAttempts = 0
  /\ backoff = FALSE
  /\ pendingFile = <<>>
  /\ segments = [s \in {} |-> <<>>]
  /\ walSeq = 0
  /\ replay = {}
  /\ db = {}
  /\ dropped = 0
  /\ pushed = 0
  /\ displaced = {}
  /\ crashes = 0
  /\ storeFails = 0
  /\ walFails = 0

(***************************************************************************)
(* push(row).  At QUEUE_MAX one row is displaced: the first of pendingRows,  *)
(* or when there is none the first of the head batch - which may be empty,   *)
(* and may be the batch a writeBatch is pending for.  A full pendingRows     *)
(* starts a flush in the same call.                                          *)
(***************************************************************************)
Push ==
  /\ up
  /\ pushed < MaxRows
  /\ \E appended, renamed \in BOOLEAN :
       LET row == pushed + 1
           full == TotalQueued >= QUEUE_MAX
           fromPending == full /\ pendingRows # <<>>
           fromHead == /\ full
                       /\ pendingRows = <<>>
                       /\ queue # <<>>
                       /\ queue[1].rows # <<>>
           kept == IF fromPending THEN Tail(pendingRows) ELSE pendingRows
           q == IF fromHead THEN [queue EXCEPT ![1].rows = Tail(@)] ELSE queue
           p == Append(kept, row)
           f == WalAppend(row, appended)
       IN /\ dropped' = IF full THEN dropped + 1 ELSE dropped
          /\ displaced' = CASE fromPending -> displaced \cup {Head(pendingRows)}
                            [] fromHead -> displaced \cup {Head(queue[1].rows)}
                            [] OTHER -> displaced
          /\ IF Len(p) >= BATCH_MAX
             THEN BeginFlush(FALSE, p, q, f, renamed)
             ELSE /\ pendingRows' = p
                  /\ queue' = q
                  /\ pendingFile' = f
                  /\ UNCHANGED <<segments, walSeq, flushing, inflight, headAttempts, backoff>>
          /\ pushed' = row
          /\ Faults(<<appended, renamed>>)
  /\ UNCHANGED <<up, draining, replay, db, bounds>>

\* setInterval(flush, FLUSH_MS).
FlushTimer ==
  /\ up
  /\ ~flushing
  /\ \E renamed \in BOOLEAN :
       /\ BeginFlush(FALSE, pendingRows, queue, pendingFile, renamed)
       /\ Faults(<<renamed>>)
  /\ UNCHANGED <<up, draining, replay, db, dropped, pushed, displaced, bounds>>

\* The clock passes nextFlushAt.
BackoffOver ==
  /\ up
  /\ backoff
  /\ backoff' = FALSE
  /\ UNCHANGED <<up, draining, pendingRows, queue, flushing, inflight, headAttempts,
                 files, replay, db, dropped, pushed, displaced, bounds>>

(***************************************************************************)
(* writeBatch resolves: as many rows as were written leave the front of the *)
(* head batch AS IT IS NOW, and an emptied batch takes its segment along.   *)
(***************************************************************************)
WriteOk ==
  /\ up
  /\ flushing
  /\ LET rest == Unwritten(queue[1])
     IN IF rest # <<>>
        THEN /\ queue' = [queue EXCEPT ![1].rows = rest]
             /\ UNCHANGED segments
        ELSE /\ queue' = Tail(queue)
             /\ segments' = Unlink(queue[1].walFile)
  /\ db' = db \cup Range(inflight)
  /\ flushing' = FALSE
  /\ inflight' = <<>>
  /\ headAttempts' = 0
  /\ backoff' = FALSE
  /\ UNCHANGED <<up, draining, pendingRows, pendingFile, walSeq, walFails, replay,
                 dropped, pushed, displaced, bounds>>

(***************************************************************************)
(* writeBatch rejects.  The insert may have been committed all the same (a   *)
(* connection lost before the reply).  After RETRY_MAX retries the batch     *)
(* leaves the queue and its segment stays on disk.                           *)
(***************************************************************************)
WriteFails ==
  /\ up
  /\ flushing
  /\ storeFails < MaxStoreFails
  /\ storeFails' = storeFails + 1
  /\ \E committed \in BOOLEAN : db' = IF committed THEN db \cup Range(inflight) ELSE db
  /\ IF GivesUp
     THEN /\ headAttempts' = 0
          /\ queue' = Tail(queue)
          /\ UNCHANGED backoff
     ELSE /\ headAttempts' = headAttempts + 1
          /\ backoff' = TRUE
          /\ UNCHANGED queue
  /\ flushing' = FALSE
  /\ inflight' = <<>>
  /\ UNCHANGED <<up, draining, pendingRows, files, replay, dropped, pushed, displaced, crashes>>

---------------------------------------------------------------------------
\* replayWal: the oldest listed segment is written, then unlinked.
ReplayOk ==
  /\ up
  /\ replay # {}
  /\ LET s == Oldest(replay)
     IN /\ db' = db \cup Range(segments[s])
        /\ segments' = Unlink(s)
        /\ replay' = replay \ {s}
  /\ UNCHANGED <<up, draining, memory, pendingFile, walSeq, walFails, dropped, pushed,
                 displaced, bounds>>

\* replayWal: a failed write breaks the loop; the rest waits for the next boot.
ReplayFails ==
  /\ up
  /\ replay # {}
  /\ storeFails < MaxStoreFails
  /\ storeFails' = storeFails + 1
  /\ \E committed \in BOOLEAN :
       db' = IF committed THEN db \cup Range(segments[Oldest(replay)]) ELSE db
  /\ replay' = {}
  /\ UNCHANGED <<up, draining, memory, files, dropped, pushed, displaced, crashes>>

---------------------------------------------------------------------------
\* SIGTERM or SIGINT: drain() starts.
Signal ==
  /\ up
  /\ ~draining
  /\ draining' = TRUE
  /\ UNCHANGED <<up, memory, files, replay, db, dropped, pushed, displaced, bounds>>

\* One round of drain(): flush(true) ignores the backoff.
DrainFlush ==
  /\ up
  /\ draining
  /\ TotalQueued > 0
  /\ \E renamed \in BOOLEAN :
       /\ BeginFlush(TRUE, pendingRows, queue, pendingFile, renamed)
       /\ Faults(<<renamed>>)
  /\ UNCHANGED <<up, draining, replay, db, dropped, pushed, displaced, bounds>>

(***************************************************************************)
(* The process ends: killed, out of memory, or process.exit after a drain    *)
(* (whose deadline may leave rows queued).  Memory is gone; an insert under  *)
(* way may still be committed.                                               *)
(***************************************************************************)
Stop ==
  /\ up
  /\ crashes < MaxCrashes
  /\ crashes' = crashes + 1
  /\ up' = FALSE
  /\ draining' = FALSE
  /\ pendingRows' = <<>>
  /\ queue' = <<>>
  /\ flushing' = FALSE
  /\ inflight' = <<>>
  /\ headAttempts' = 0
  /\ backoff' = FALSE
  /\ replay' = {}
  /\ \E committed \in SUBSET {"flush", "replay"} :
       db' = db \cup (IF "flush" \in committed THEN Range(inflight) ELSE {})
                \cup (IF "replay" \in committed /\ replay # {}
                      THEN Range(segments[Oldest(replay)]) ELSE {})
  /\ UNCHANGED <<files, dropped, pushed, displaced, storeFails>>

\* Boot: the constructor rotates a leftover pending.jsonl, then replayWal
\* lists the segments.
Boot ==
  /\ ~up
  /\ up' = TRUE
  /\ IF pendingFile # <<>>
     THEN /\ segments' = AddSegment(pendingFile)
          /\ walSeq' = walSeq + 1
          /\ pendingFile' = <<>>
          /\ UNCHANGED walFails
     ELSE UNCHANGED files
  /\ replay' = DOMAIN segments'
  /\ UNCHANGED <<draining, memory, db, dropped, pushed, displaced, bounds>>

Next ==
  \/ Push
  \/ FlushTimer
  \/ BackoffOver
  \/ WriteOk
  \/ WriteFails
  \/ ReplayOk
  \/ ReplayFails
  \/ Signal
  \/ DrainFlush
  \/ Stop
  \/ Boot

Spec == Init /\ [][Next]_vars

(***************************************************************************)
(* Timers fire, awaited inserts settle one way or the other, and the         *)
(* supervisor restarts the process.  Nothing makes a row arrive or a process *)
(* stop.                                                                     *)
(***************************************************************************)
Fairness ==
  /\ WF_vars(FlushTimer)
  /\ WF_vars(BackoffOver)
  /\ WF_vars(WriteOk \/ WriteFails)
  /\ WF_vars(ReplayOk \/ ReplayFails)
  /\ WF_vars(Boot)

FairSpec == Spec /\ Fairness

---------------------------------------------------------------------------
(***************************************************************************)
(* "A crash/restart loses nothing queued" (index.ts:59): as long as the disk *)
(* works, every row in memory is in the file of its own batch - pending.jsonl *)
(* for pendingRows, the batch's segment for the queue - and no two batches   *)
(* share a segment, so unlinking one never takes the rows of another.        *)
(***************************************************************************)
CrashSafe ==
  walFails = 0 =>
    /\ Range(pendingRows) \subseteq Range(pendingFile)
    /\ \A i \in DOMAIN queue :
         /\ queue[i].walFile \in DOMAIN segments
         /\ Range(queue[i].rows) \subseteq Range(segments[queue[i].walFile])
         /\ queue[i].walFile \notin replay
         /\ \A j \in DOMAIN queue : queue[i].walFile = queue[j].walFile => i = j

(***************************************************************************)
(* "Count them so the loss is observable" (index.ts:140): as long as the     *)
(* disk works, at least as many drops are counted as rows have vanished from *)
(* the table, memory and disk.                                               *)
(***************************************************************************)
LossCounted ==
  walFails = 0 =>
    Cardinality((1..pushed) \ (db \cup InMemory \cup OnDisk)) <= dropped

(***************************************************************************)
(* Duplicates are "bounded to one segment" (index.ts:59-61): as long as no   *)
(* insert and no file operation failed, only the head batch's segment holds  *)
(* rows that are already in the table, so a crash makes the next boot        *)
(* rewrite nothing of the rest.                                              *)
(***************************************************************************)
OnlyHeadOverlaps ==
  storeFails = 0 /\ walFails = 0 =>
    /\ Range(pendingFile) \cap db = {}
    /\ \A i \in DOMAIN queue \ {1} : Range(segments[queue[i].walFile]) \cap db = {}

(***************************************************************************)
(* "A crash/restart loses nothing queued ... Worst case is a duplicate-row   *)
(* overlap bounded to one segment" (index.ts:59-61), both halves.            *)
(***************************************************************************)
Recoverable == CrashSafe /\ OnlyHeadOverlaps

\* Rows only in segments that neither the queue nor the running replay covers:
\* they wait for the next boot.
Stranded ==
  UNION {Range(segments[s]) :
           s \in DOMAIN segments \ (replay \cup {queue[i].walFile : i \in DOMAIN queue})}

(***************************************************************************)
(* Ingestion makes progress: in the end every row pushed is in the table or  *)
(* left in a segment for the next boot, unless backpressure dropped rows, or *)
(* the disk failed and so did the process or an insert with all its retries. *)
(***************************************************************************)
Lossy == dropped > 0 \/ (walFails > 0 /\ (crashes > 0 \/ storeFails > RETRY_MAX))
Settles == <>[](1..pushed \subseteq db \cup Stranded \/ Lossy)

(***************************************************************************)
(* A segment is "only deleted after the DB insert succeeds" (index.ts:57-58): *)
(* its rows are in the table by then, but for those backpressure displaced.  *)
(***************************************************************************)
DeletedOnlyAfterInsert ==
  [][\A s \in DOMAIN segments \ DOMAIN segments' :
       Range(segments[s]) \subseteq db' \cup displaced']_vars

=============================================================================
