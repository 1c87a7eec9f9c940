-------------------------- MODULE Telemetry_proofs --------------------------
(***************************************************************************)
(* Theorems about telemetry.  The writer: whatever crashes, fails and        *)
(* overlaps, every row in memory is in the file of its own batch as long as  *)
(* the disk works, what a crash rewrites is bounded to the head's segment,   *)
(* and no row is lost that stats.dropped does not count.  Retention: no      *)
(* sample goes that no aggregate counted, or that its owner keeps.  Battery  *)
(* health: a row has booked each stretch once, from pages of any size.       *)
(***************************************************************************)
EXTENDS Telemetry, SequenceTheorems, FiniteSetTheorems, WellFoundedInduction, TLAPS

(***************************************************************************)
(* The writer between its steps, for rows p, queue q and pending.jsonl f     *)
(* that a callback is about to leave: a pending insert has a head batch, the *)
(* replay writes no segment of the queue, and a process that is down has     *)
(* nothing in memory.                                                        *)
(***************************************************************************)
Shaped(q) ==
  /\ IF flushing THEN q # <<>> ELSE inflight = <<>>
  /\ \A i \in DOMAIN q : q[i].walFile \notin replay
  /\ ~up => pendingRows = <<>> /\ q = <<>> /\ replay = {}

\* Each row in memory is in the file of its batch, and no file is two batches'.
Filed(p, q, f) ==
  /\ Range(p) \subseteq Range(f)
  /\ \A i \in DOMAIN q :
       /\ q[i].walFile \in DOMAIN segments
       /\ Range(q[i].rows) \subseteq Range(segments[q[i].walFile])
       /\ \A j \in DOMAIN q : q[i].walFile = q[j].walFile => i = j

(***************************************************************************)
(* What makes the bound on rewriting inductive: a row is in one file, an     *)
(* insert under way takes its rows from the head's, and no row comes twice.  *)
(***************************************************************************)
Apart(q, f, n) ==
  /\ Range(f) \cup db \subseteq 1..n
  /\ \A s \in DOMAIN segments :
       /\ Range(segments[s]) \subseteq 1..n
       /\ Range(segments[s]) \cap Range(f) = {}
       /\ \A t \in DOMAIN segments :
            s # t => Range(segments[s]) \cap Range(segments[t]) = {}
  /\ flushing => Range(inflight) \subseteq Range(segments[q[1].walFile])

\* Only the head's segment holds rows of the table.
Ahead(q, f) ==
  storeFails = 0 =>
    /\ Range(f) \cap db = {}
    /\ \A i \in DOMAIN q \ {1} : Range(segments[q[i].walFile]) \cap db = {}

Kept(p, q, f, n) == Filed(p, q, f) /\ Apart(q, f, n) /\ Ahead(q, f)

WriterInv ==
  /\ TypeOK
  /\ Shaped(queue)
  /\ walFails = 0 => Kept(pendingRows, queue, pendingFile, pushed)

---------------------------------------------------------------------------
\* Sequences, as far as the writer takes them apart.
LEMMA RangeOfAppend ==
  ASSUME NEW S, NEW s \in Seq(S), NEW e \in S
  PROVE  /\ Append(s, e) \in Seq(S) /\ Append(s, e) # <<>>
         /\ Range(Append(s, e)) = Range(s) \cup {e}
<1>1. /\ Append(s, e) \in Seq(S) /\ Append(s, e) # <<>> /\ Len(Append(s, e)) = Len(s) + 1
      /\ \A i \in 1..Len(s) : Append(s, e)[i] = s[i]
      /\ Append(s, e)[Len(s) + 1] = e
  BY AppendProperties
<1>2. Range(Append(s, e)) = {Append(s, e)[i] : i \in 1..Len(s) + 1}
  BY <1>1, RangeEquality
<1>3. Range(s) = {s[i] : i \in 1..Len(s)} /\ Len(s) \in Nat
  BY RangeEquality, LenProperties
<1>4. 1..Len(s) + 1 = 1..Len(s) \cup {Len(s) + 1}
  BY <1>3
<1> QED
  BY <1>1, <1>2, <1>3, <1>4

LEMMA RangeOfTail ==
  ASSUME NEW S, NEW s \in Seq(S), s # <<>>
  PROVE  Tail(s) \in Seq(S) /\ Range(Tail(s)) \subseteq Range(s)
<1>1. /\ Tail(s) \in Seq(S) /\ Len(Tail(s)) = Len(s) - 1
      /\ \A i \in 1..Len(Tail(s)) : Tail(s)[i] = s[i + 1]
  BY HeadTailProperties
<1>2. Range(Tail(s)) = {Tail(s)[i] : i \in 1..Len(Tail(s))} /\ Range(s) = {s[i] : i \in 1..Len(s)}
  BY <1>1, RangeEquality
<1>3. Len(s) \in Nat
  BY LenProperties
<1> QED
  BY <1>1, <1>2, <1>3

LEMMA RangeOfSubSeq ==
  ASSUME NEW S, NEW s \in Seq(S), NEW m \in Nat \ {0}, NEW n \in 0..Len(s)
  PROVE  SubSeq(s, m, n) \in Seq(S) /\ Range(SubSeq(s, m, n)) \subseteq Range(s)
<1>1. Len(s) \in Nat /\ s \in [1..Len(s) -> S]
  BY LenProperties
<1>2. \A i \in m..n : i \in 1..Len(s) /\ s[i] \in S
  BY <1>1
<1>3. m \in Int /\ n \in Int
  BY <1>1
<1>4. /\ SubSeq(s, m, n) \in Seq(S)
      /\ Len(SubSeq(s, m, n)) = IF m <= n THEN n - m + 1 ELSE 0
      /\ \A i \in 1..(n - m + 1) : SubSeq(s, m, n)[i] = s[m + i - 1]
  BY <1>2, <1>3, SubSeqProperties
<1>5. /\ Range(SubSeq(s, m, n)) = {SubSeq(s, m, n)[i] : i \in 1..Len(SubSeq(s, m, n))}
      /\ Range(s) = {s[i] : i \in 1..Len(s)}
  BY <1>4, RangeEquality
<1>6. ASSUME NEW i \in 1..Len(SubSeq(s, m, n)) PROVE SubSeq(s, m, n)[i] \in Range(s)
  <2>1. i \in 1..(n - m + 1) /\ m + i - 1 \in m..n
    BY <1>1, <1>4, <1>6
  <2> QED
    BY <1>2, <1>4, <1>5, <2>1
<1> QED
  BY <1>4, <1>5, <1>6

---------------------------------------------------------------------------
\* A file operation that did not fail worked.
LEMMA OneFault ==
  ASSUME walFails \in Nat, NEW a \in BOOLEAN, Faults(<<a>>)
  PROVE  walFails' \in 0..MaxWalFails /\ (walFails' = 0 => walFails = 0 /\ a)
<1> DEFINE failed == {i \in DOMAIN <<a>> : ~<<a>>[i]}
<1>1. failed \subseteq 1..1 /\ (~a => 1 \in failed)
  OBVIOUS
<1>2. IsFiniteSet(failed)
  BY <1>1, FS_Interval, FS_Subset
<1>3. Cardinality(failed) \in Nat /\ (Cardinality(failed) = 0 <=> failed = {})
  BY <1>2, FS_CardinalityType, FS_EmptySet
<1>4. walFails + Cardinality(failed) <= MaxWalFails /\ walFails' = walFails + Cardinality(failed)
  BY DEF Faults
<1> HIDE DEF failed
<1> QED
  BY <1>1, <1>3, <1>4, BatchWriterAssumption DEF BatchWriterAssumption

LEMMA TwoFaults ==
  ASSUME walFails \in Nat, NEW a \in BOOLEAN, NEW b \in BOOLEAN, Faults(<<a, b>>)
  PROVE  walFails' \in 0..MaxWalFails /\ (walFails' = 0 => walFails = 0 /\ a /\ b)
<1> DEFINE failed == {i \in DOMAIN <<a, b>> : ~<<a, b>>[i]}
<1>1. failed \subseteq 1..2 /\ (~a => 1 \in failed) /\ (~b => 2 \in failed)
  OBVIOUS
<1>2. IsFiniteSet(failed)
  BY <1>1, FS_Interval, FS_Subset
<1>3. Cardinality(failed) \in Nat /\ (Cardinality(failed) = 0 <=> failed = {})
  BY <1>2, FS_CardinalityType, FS_EmptySet
<1>4. walFails + Cardinality(failed) <= MaxWalFails /\ walFails' = walFails + Cardinality(failed)
  BY DEF Faults
<1> HIDE DEF failed
<1> QED
  BY <1>1, <1>3, <1>4, BatchWriterAssumption DEF BatchWriterAssumption

\* The segments, as functions.
LEMMA AddedSegment ==
  ASSUME TypeOK, NEW lines \in Seq(Row)
  PROVE  /\ walSeq + 1 \notin DOMAIN segments
         /\ DOMAIN AddSegment(lines) = DOMAIN segments \cup {walSeq + 1}
         /\ DOMAIN AddSegment(lines) \subseteq 1..walSeq + 1
         /\ AddSegment(lines)[walSeq + 1] = lines
         /\ \A s \in DOMAIN segments : AddSegment(lines)[s] = segments[s]
<1>1. walSeq \in Nat /\ DOMAIN segments \subseteq 1..walSeq
  BY DEF TypeOK
<1>2. walSeq + 1 \notin DOMAIN segments
  BY <1>1
<1>3. DOMAIN AddSegment(lines) = DOMAIN segments \cup {walSeq + 1}
  BY DEF AddSegment
<1>4. AddSegment(lines)[walSeq + 1] = lines
  BY DEF AddSegment
<1>5. \A s \in DOMAIN segments : AddSegment(lines)[s] = segments[s]
  BY <1>2 DEF AddSegment
<1> QED
  BY <1>1, <1>2, <1>3, <1>4, <1>5

LEMMA Unlinked ==
  ASSUME NEW s
  PROVE  /\ DOMAIN Unlink(s) = DOMAIN segments \ {s}
         /\ \A t \in DOMAIN Unlink(s) : Unlink(s)[t] = segments[t]
BY DEF Unlink, Restrict

---------------------------------------------------------------------------
\* A batch at the end of a queue.
LEMMA Queued ==
  ASSUME NEW q \in Seq(Batch), NEW b \in Batch
  PROVE  /\ Append(q, b) \in Seq(Batch) /\ Append(q, b) # <<>>
         /\ DOMAIN Append(q, b) = DOMAIN q \cup {Len(q) + 1}
         /\ Len(q) + 1 \notin DOMAIN q
         /\ Append(q, b)[Len(q) + 1] = b
         /\ \A i \in DOMAIN q : Append(q, b)[i] = q[i]
<1>1. /\ Append(q, b) \in Seq(Batch) /\ Append(q, b) # <<>> /\ Len(Append(q, b)) = Len(q) + 1
      /\ \A i \in 1..Len(q) : Append(q, b)[i] = q[i]
      /\ Append(q, b)[Len(q) + 1] = b
  BY AppendProperties
<1>2. DOMAIN q = 1..Len(q) /\ Len(q) \in Nat
  BY LenProperties
<1>3. DOMAIN Append(q, b) = 1..Len(q) + 1
  BY <1>1, LenProperties
<1> QED
  BY <1>1, <1>2, <1>3

LEMMA SliceType ==
  ASSUME NEW q \in Seq(Batch), q # <<>>
  PROVE  /\ 1 \in DOMAIN q /\ q[1] \in Batch
         /\ Slice(q) \in Seq(Row) /\ Range(Slice(q)) \subseteq Range(q[1].rows)
<1>1. Len(q) \in Nat \ {0} /\ DOMAIN q = 1..Len(q)
  BY EmptySeq, LenProperties
<1>2. 1 \in DOMAIN q /\ q[1] \in Batch
  BY <1>1, ElementOfSeq
<1>3. q[1].rows \in Seq(Row)
  BY <1>2 DEF Batch
<1>4. Smaller(BATCH_MAX, Len(q[1].rows)) \in 0..Len(q[1].rows)
  BY <1>3, LenProperties, BatchWriterAssumption DEF Smaller, BatchWriterAssumption
<1>5. 1 \in Nat \ {0}
  OBVIOUS
<1> QED
  BY <1>2, <1>3, <1>4, <1>5, RangeOfSubSeq DEF Slice

\* What a flush leaves, typed.
LEMMA FlushType ==
  ASSUME TypeOK, NEW p \in Seq(Row), NEW q \in Seq(Batch), NEW f \in Seq(Row),
         NEW force, NEW renamed, IF flushing THEN q # <<>> ELSE inflight = <<>>,
         \A i \in DOMAIN q : q[i].walFile \notin replay,
         BeginFlush(force, p, q, f, renamed)
  PROVE  /\ pendingRows' \in Seq(Row) /\ queue' \in Seq(Batch) /\ pendingFile' \in Seq(Row)
         /\ walSeq' \in Nat /\ DOMAIN segments' \subseteq 1..walSeq'
         /\ \A s \in DOMAIN segments' : segments'[s] \in Seq(Row)
         /\ DOMAIN segments \subseteq DOMAIN segments'
         /\ flushing' \in BOOLEAN /\ inflight' \in Seq(Row)
         /\ UNCHANGED <<headAttempts, backoff>>
         /\ IF flushing' THEN queue' # <<>> ELSE inflight' = <<>>
         /\ \A i \in DOMAIN queue' : queue'[i].walFile \notin replay
<1>1. /\ walSeq \in Nat /\ DOMAIN segments \subseteq 1..walSeq
      /\ \A s \in DOMAIN segments : segments[s] \in Seq(Row)
      /\ flushing \in BOOLEAN /\ inflight \in Seq(Row)
      /\ 0 \notin replay /\ walSeq + 1 \notin replay
  BY DEF TypeOK
<1>2. UNCHANGED <<headAttempts, backoff>>
  BY DEF BeginFlush
<1>3. CASE flushing
  <2>1. /\ pendingRows' = p /\ queue' = q /\ pendingFile' = f
        /\ UNCHANGED <<segments, walSeq, flushing, inflight>>
    BY <1>3 DEF BeginFlush
  <2> QED
    BY <1>1, <1>2, <1>3, <2>1
<1>4. CASE ~flushing
  <2>1. /\ pendingRows' = <<>> /\ RotatePending(p, q, f, renamed)
        /\ IF StartsWrite(force, queue')
           THEN flushing' = TRUE /\ inflight' = Slice(queue')
           ELSE UNCHANGED <<flushing, inflight>>
    BY <1>4 DEF BeginFlush
  <2>2. /\ queue' \in Seq(Batch) /\ pendingFile' \in Seq(Row) /\ walSeq' \in Nat
        /\ DOMAIN segments' \subseteq 1..walSeq'
        /\ \A s \in DOMAIN segments' : segments'[s] \in Seq(Row)
        /\ DOMAIN segments \subseteq DOMAIN segments'
        /\ \A i \in DOMAIN queue' : queue'[i].walFile \notin replay
    <3>1. CASE p = <<>>
      BY <1>1, <2>1, <3>1 DEF RotatePending
    <3>2. CASE p # <<>> /\ f # <<>> /\ renamed
      <4>1. /\ segments' = AddSegment(f) /\ walSeq' = walSeq + 1 /\ pendingFile' = <<>>
            /\ queue' = Append(q, [rows |-> p, walFile |-> walSeq + 1])
        BY <2>1, <3>2 DEF RotatePending, AfterRename
      <4>2. [rows |-> p, walFile |-> walSeq + 1] \in Batch
        BY <1>1 DEF Batch
      <4>3. /\ queue' \in Seq(Batch)
            /\ \A i \in DOMAIN queue' : queue'[i].walFile \notin replay
        BY <1>1, <4>1, <4>2, Queued
      <4>4. <<>> \in Seq(Row)
        BY EmptySeq
      <4>5. /\ DOMAIN segments' = DOMAIN segments \cup {walSeq + 1}
            /\ DOMAIN segments' \subseteq 1..walSeq'
            /\ segments'[walSeq + 1] = f
            /\ \A s \in DOMAIN segments : segments'[s] = segments[s]
        BY <4>1, AddedSegment
      <4>6. \A s \in DOMAIN segments' : segments'[s] \in Seq(Row)
        BY <1>1, <4>5
      <4> QED
        BY <1>1, <4>1, <4>3, <4>4, <4>5, <4>6
    <3>3. CASE p # <<>> /\ ~(f # <<>> /\ renamed)
      <4>1. /\ queue' = Append(q, [rows |-> p, walFile |-> NoFile]) /\ pendingFile' = f
            /\ UNCHANGED <<segments, walSeq>>
        BY <2>1, <3>3 DEF RotatePending
      <4>2. [rows |-> p, walFile |-> NoFile] \in Batch
        BY DEF Batch, NoFile
      <4>3. /\ queue' \in Seq(Batch)
            /\ \A i \in DOMAIN queue' : queue'[i].walFile \notin replay
        BY <1>1, <4>1, <4>2, Queued DEF NoFile
      <4> QED
        BY <1>1, <4>1, <4>3
    <3> QED
      BY <3>1, <3>2, <3>3
  <2>3. IF flushing' THEN queue' # <<>> ELSE inflight' = <<>>
    BY <1>4, <2>1 DEF StartsWrite
  <2>4. flushing' \in BOOLEAN /\ inflight' \in Seq(Row)
    BY <1>1, <2>1, <2>2, SliceType DEF StartsWrite
  <2>5. pendingRows' \in Seq(Row)
    BY <2>1, EmptySeq
  <2> QED
    BY <1>2, <2>2, <2>3, <2>4, <2>5
<1> QED
  BY <1>3, <1>4

(***************************************************************************)
(* A flush on a disk that works moves rows p and their file to the end of    *)
(* the queue together, and takes what it inserts from the head.              *)
(***************************************************************************)
LEMMA FlushKeeps ==
  ASSUME TypeOK, NEW p \in Seq(Row), NEW q \in Seq(Batch), NEW f \in Seq(Row), NEW n \in Nat,
         NEW force, flushing => q # <<>>, replay \subseteq DOMAIN segments,
         Kept(p, q, f, n), BeginFlush(force, p, q, f, TRUE),
         UNCHANGED <<replay, db, storeFails>>
  PROVE  Kept(pendingRows, queue, pendingFile, n)'
<1>1. /\ walSeq \in Nat /\ DOMAIN segments \subseteq 1..walSeq
      /\ flushing \in BOOLEAN /\ db \subseteq Row
  BY DEF TypeOK
<1>2. CASE flushing
  <2>1. /\ pendingRows' = p /\ queue' = q /\ pendingFile' = f
        /\ UNCHANGED <<segments, walSeq, flushing, inflight>>
    BY <1>2 DEF BeginFlush
  <2> QED
    BY <2>1 DEF Kept, Filed, Apart, Ahead
<1>3. CASE ~flushing
  <2>1. /\ pendingRows' = <<>> /\ RotatePending(p, q, f, TRUE)
        /\ IF StartsWrite(force, queue')
           THEN flushing' = TRUE /\ inflight' = Slice(queue')
           ELSE UNCHANGED <<flushing, inflight>>
    BY <1>3 DEF BeginFlush
  <2>2. Range(pendingRows') = {}
    BY <2>1 DEF Range
  <2>3. CASE p = <<>>
    <3>1. queue' = q /\ pendingFile' = f /\ UNCHANGED <<segments, walSeq>>
      BY <2>1, <2>3 DEF RotatePending
    <3>2. Filed(pendingRows, queue, pendingFile)'
      BY <2>2, <3>1 DEF Kept, Filed
    <3>3. flushing' => Range(inflight') \subseteq Range(segments'[queue'[1].walFile])
      BY <1>3, <2>1, <3>1, <3>2, SliceType DEF StartsWrite, Filed
    <3>4. Apart(queue, pendingFile, n)' /\ Ahead(queue, pendingFile)'
      BY <3>1, <3>3 DEF Kept, Apart, Ahead
    <3> QED
      BY <3>2, <3>4 DEF Kept
  <2>4. CASE p # <<>>
    <3> DEFINE b == [rows |-> p, walFile |-> walSeq + 1]
    <3>1. f # <<>>
      <4>1. Range(p) # {}
        <5>1. Len(p) \in Nat \ {0} /\ DOMAIN p = 1..Len(p)
          BY <2>4, EmptySeq, LenProperties
        <5>2. 1 \in DOMAIN p
          BY <5>1
        <5> QED
          BY <5>2 DEF Range
      <4>2. Range(f) # {}
        BY <4>1 DEF Kept, Filed
      <4> QED
        BY <4>2 DEF Range
    <3>2. /\ segments' = AddSegment(f) /\ walSeq' = walSeq + 1 /\ pendingFile' = <<>>
          /\ queue' = Append(q, b)
      BY <2>1, <2>4, <3>1 DEF RotatePending, AfterRename
    <3>3. /\ walSeq + 1 \notin DOMAIN segments
          /\ DOMAIN segments' = DOMAIN segments \cup {walSeq + 1}
          /\ segments'[walSeq + 1] = f
          /\ \A s \in DOMAIN segments : segments'[s] = segments[s]
      BY <3>2, AddedSegment
    <3>4. b \in Batch /\ b.rows = p /\ b.walFile = walSeq + 1
      BY <1>1 DEF Batch
    <3> HIDE DEF b
    <3>5. /\ queue' \in Seq(Batch) /\ DOMAIN queue' = DOMAIN q \cup {Len(q) + 1}
          /\ Len(q) + 1 \notin DOMAIN q
          /\ queue'[Len(q) + 1] = b /\ \A i \in DOMAIN q : queue'[i] = q[i]
      BY <3>2, <3>4, Queued
    <3>6. Range(pendingFile') = {}
      BY <3>2 DEF Range
    <3>7. Filed(pendingRows, queue, pendingFile)'
      <4>1. \A i \in DOMAIN queue' : /\ queue'[i].walFile \in DOMAIN segments'
                                     /\ Range(queue'[i].rows) \subseteq Range(segments'[queue'[i].walFile])
        BY <3>3, <3>4, <3>5 DEF Kept, Filed
      <4>2. \A i, j \in DOMAIN queue' : queue'[i].walFile = queue'[j].walFile => i = j
        BY <3>3, <3>4, <3>5 DEF Kept, Filed
      <4> QED
        BY <2>2, <4>1, <4>2 DEF Filed
    <3>8. flushing' => Range(inflight') \subseteq Range(segments'[queue'[1].walFile])
      BY <1>3, <2>1, <3>5, <3>7, SliceType DEF StartsWrite, Filed
    <3>9. Apart(queue, pendingFile, n)'
      <4>1. Range(pendingFile') \cup db' \subseteq 1..n
        BY <3>6 DEF Kept, Apart
      <4>2. ASSUME NEW s \in DOMAIN segments'
            PROVE  /\ Range(segments'[s]) \subseteq 1..n
                   /\ Range(segments'[s]) \cap Range(pendingFile') = {}
        BY <3>3, <3>6 DEF Kept, Apart
      <4>3. ASSUME NEW s \in DOMAIN segments', NEW t \in DOMAIN segments', s # t
            PROVE  Range(segments'[s]) \cap Range(segments'[t]) = {}
        BY <3>3, <4>3 DEF Kept, Apart
      <4> QED
        BY <3>8, <4>1, <4>2, <4>3 DEF Apart
    <3>10. Ahead(queue, pendingFile)'
      BY <3>3, <3>4, <3>5, <3>6 DEF Kept, Filed, Ahead
    <3> QED
      BY <3>7, <3>9, <3>10 DEF Kept
  <2> QED
    BY <2>3, <2>4
<1> QED
  BY <1>2, <1>3

---------------------------------------------------------------------------
LEMMA WriterInit ==
  ASSUME Init
  PROVE  WriterInv
<1>1. /\ MaxRows \in Nat /\ MaxCrashes \in Nat /\ MaxStoreFails \in Nat /\ MaxWalFails \in Nat
      /\ RETRY_MAX \in Nat
  BY BatchWriterAssumption DEF BatchWriterAssumption
<1>2. DOMAIN segments = {} /\ <<>> \in Seq(Row) /\ <<>> \in Seq(Batch)
  BY EmptySeq DEF Init
<1>3. TypeOK
  <2>1. /\ pendingRows \in Seq(Row) /\ queue \in Seq(Batch) /\ inflight \in Seq(Row)
        /\ pendingFile \in Seq(Row)
    BY <1>2 DEF Init
  <2>2. /\ up \in BOOLEAN /\ draining \in BOOLEAN /\ flushing \in BOOLEAN /\ backoff \in BOOLEAN
    BY DEF Init
  <2>3. /\ walSeq \in Nat /\ dropped \in Nat /\ headAttempts \in 0..RETRY_MAX
        /\ pushed \in 0..MaxRows /\ crashes \in 0..MaxCrashes
        /\ storeFails \in 0..MaxStoreFails /\ walFails \in 0..MaxWalFails
    BY <1>1 DEF Init
  <2>4. /\ DOMAIN segments \subseteq 1..walSeq /\ \A s \in DOMAIN segments : segments[s] \in Seq(Row)
        /\ replay \subseteq DOMAIN segments /\ db \subseteq Row /\ displaced \subseteq Row
    BY <1>2 DEF Init
  <2> QED
    BY <2>1, <2>2, <2>3, <2>4 DEF TypeOK
<1>4. Range(<<>>) = {} /\ DOMAIN queue = {}
  BY DEF Init, Range
<1>5. Kept(pendingRows, queue, pendingFile, pushed)
  BY <1>2, <1>4 DEF Init, Kept, Filed, Apart, Ahead
<1> QED
  BY <1>3, <1>5 DEF Init, WriterInv, Shaped

\* Backpressure takes a row from the head batch.
LEMMA HeadDisplaced ==
  ASSUME NEW q \in Seq(Batch), q # <<>>, q[1].rows # <<>>,
         NEW left, left = [q EXCEPT ![1].rows = Tail(@)]
  PROVE  /\ left \in Seq(Batch) /\ left # <<>> /\ DOMAIN left = DOMAIN q
         /\ Head(q[1].rows) \in Row
         /\ \A i \in DOMAIN q : /\ left[i].walFile = q[i].walFile
                                /\ Range(left[i].rows) \subseteq Range(q[i].rows)
<1>1. 1 \in DOMAIN q /\ q[1] \in Batch /\ DOMAIN q = 1..Len(q) /\ Len(q) \in Nat
  BY SliceType, LenProperties
<1>2. q[1].rows \in Seq(Row)
  BY <1>1 DEF Batch
<1>3. /\ Tail(q[1].rows) \in Seq(Row) /\ Range(Tail(q[1].rows)) \subseteq Range(q[1].rows)
      /\ Head(q[1].rows) \in Row
  BY <1>2, RangeOfTail, HeadTailProperties
<1> DEFINE b == [q[1] EXCEPT !.rows = Tail(q[1].rows)]
<1>4. b \in Batch /\ b.rows = Tail(q[1].rows) /\ b.walFile = q[1].walFile
  BY <1>1, <1>3 DEF Batch
<1>5. left = [q EXCEPT ![1] = b]
  OBVIOUS
<1> HIDE DEF b
<1>6. /\ left \in Seq(Batch) /\ Len(left) = Len(q)
      /\ \A i \in 1..Len(q) : left[i] = IF i = 1 THEN b ELSE q[i]
  <2>1. /\ [q EXCEPT ![1] = b] \in Seq(Batch) /\ Len([q EXCEPT ![1] = b]) = Len(q)
        /\ \A i \in 1..Len(q) : [q EXCEPT ![1] = b][i] = IF i = 1 THEN b ELSE q[i]
    BY <1>1, <1>4, ExceptSeq
  <2> QED
    BY <1>5, <2>1
<1>7. DOMAIN left = 1..Len(left)
  BY <1>6, LenProperties
<1>8. left # <<>>
  BY <1>1, <1>7, <1>6, EmptySeq
<1> QED
  BY <1>1, <1>3, <1>4, <1>6, <1>7, <1>8

\* Kept survives losing rows from memory.
LEMMA FewerRows ==
  ASSUME NEW p, NEW q, NEW f, NEW n, Kept(p, q, f, n),
         NEW p2, NEW q2, Range(p2) \subseteq Range(p), DOMAIN q2 = DOMAIN q,
         \A i \in DOMAIN q : q2[i].walFile = q[i].walFile /\ Range(q2[i].rows) \subseteq Range(q[i].rows),
         flushing => 1 \in DOMAIN q
  PROVE  Kept(p2, q2, f, n)
<1>1. Filed(p2, q2, f)
  BY DEF Kept, Filed
<1>2. Apart(q2, f, n)
  BY DEF Kept, Apart
<1>3. Ahead(q2, f)
  BY DEF Kept, Ahead
<1> QED
  BY <1>1, <1>2, <1>3 DEF Kept

\* A new row goes to pending.jsonl and to the rows it is the file of.
LEMMA RowAppended ==
  ASSUME TypeOK, NEW p \in Seq(Row), NEW q, NEW n \in Nat, n + 1 \in Row,
         Kept(p, q, pendingFile, n), flushing => q[1].walFile \in DOMAIN segments,
         \A i \in DOMAIN q : q[i].walFile \in DOMAIN segments
  PROVE  Kept(Append(p, n + 1), q, Append(pendingFile, n + 1), n + 1)
<1>1. /\ Range(Append(p, n + 1)) = Range(p) \cup {n + 1}
      /\ Range(Append(pendingFile, n + 1)) = Range(pendingFile) \cup {n + 1}
  BY RangeOfAppend DEF TypeOK
<1>2. Filed(Append(p, n + 1), q, Append(pendingFile, n + 1))
  BY <1>1 DEF Kept, Filed
<1>3. 1..n \subseteq 1..(n + 1) /\ n + 1 \in 1..(n + 1) /\ n + 1 \notin 1..n
  OBVIOUS
<1>4. Apart(q, Append(pendingFile, n + 1), n + 1)
  BY <1>1, <1>3 DEF Kept, Apart
<1>5. Ahead(q, Append(pendingFile, n + 1))
  BY <1>1, <1>3 DEF Kept, Apart, Ahead
<1> QED
  BY <1>2, <1>4, <1>5 DEF Kept

LEMMA PushKeeps ==
  ASSUME WriterInv, Push
  PROVE  WriterInv'
<1> DEFINE full == TotalQueued >= QUEUE_MAX
           fromPending == full /\ pendingRows # <<>>
           fromHead == full /\ pendingRows = <<>> /\ queue # <<>> /\ queue[1].rows # <<>>
<1>1. PICK appended, renamed, row, kept, q, p, f :
        /\ appended \in BOOLEAN /\ renamed \in BOOLEAN
        /\ row = pushed + 1
        /\ kept = IF fromPending THEN Tail(pendingRows) ELSE pendingRows
        /\ q = IF fromHead THEN [queue EXCEPT ![1].rows = Tail(@)] ELSE queue
        /\ p = Append(kept, row)
        /\ f = WalAppend(row, appended)
        /\ dropped' = IF full THEN dropped + 1 ELSE dropped
        /\ displaced' = CASE fromPending -> displaced \cup {Head(pendingRows)}
                          [] fromHead -> displaced \cup {Head(queue[1].rows)}
                          [] OTHER -> displaced
        /\ IF Len(p) >= BATCH_MAX
           THEN BeginFlush(FALSE, p, q, f, renamed)
           ELSE /\ pendingRows' = p /\ queue' = q /\ pendingFile' = f
                /\ UNCHANGED <<segments, walSeq, flushing, inflight, headAttempts, backoff>>
        /\ pushed' = row
        /\ Faults(<<appended, renamed>>)
  BY DEF Push
<1>2. /\ up /\ up' = up /\ UNCHANGED <<draining, replay, db, crashes, storeFails>>
      /\ row \in Row /\ pushed \in Nat /\ pushed' \in 0..MaxRows
  <2>1. /\ up /\ up' = up /\ UNCHANGED <<draining, replay, db, crashes, storeFails>>
        /\ pushed < MaxRows
    BY DEF Push, bounds
  <2>2. pushed \in 0..MaxRows /\ MaxRows \in Nat
    BY BatchWriterAssumption DEF WriterInv, TypeOK, BatchWriterAssumption
  <2>3. row = pushed + 1 /\ pushed' = row
    BY <1>1
  <2> QED
    BY <2>1, <2>2, <2>3 DEF Row
<1>3. walFails' \in 0..MaxWalFails /\ (walFails' = 0 => walFails = 0 /\ appended /\ renamed)
  <2>1. walFails \in Nat /\ Faults(<<appended, renamed>>) /\ appended \in BOOLEAN /\ renamed \in BOOLEAN
    BY <1>1 DEF WriterInv, TypeOK
  <2> QED
    BY <2>1, TwoFaults
<1>4. TypeOK /\ queue \in Seq(Batch) /\ pendingRows \in Seq(Row) /\ pendingFile \in Seq(Row)
  BY DEF WriterInv, TypeOK
<1>5. kept \in Seq(Row) /\ Range(kept) \subseteq Range(pendingRows)
  BY <1>1, <1>4, RangeOfTail
<1>6. /\ q \in Seq(Batch) /\ DOMAIN q = DOMAIN queue /\ (queue # <<>> => q # <<>>)
      /\ \A i \in DOMAIN queue : /\ q[i].walFile = queue[i].walFile
                                 /\ Range(q[i].rows) \subseteq Range(queue[i].rows)
  <2>1. CASE fromHead
    <3>1. q = [queue EXCEPT ![1].rows = Tail(@)] /\ queue # <<>> /\ queue[1].rows # <<>>
      BY <1>1, <2>1
    <3>2. /\ q \in Seq(Batch) /\ q # <<>> /\ DOMAIN q = DOMAIN queue
          /\ \A i \in DOMAIN queue : /\ q[i].walFile = queue[i].walFile
                                     /\ Range(q[i].rows) \subseteq Range(queue[i].rows)
      BY <1>4, <3>1, HeadDisplaced
    <3> QED
      BY <3>2
  <2>2. CASE ~fromHead
    BY <1>1, <1>4, <2>2
  <2> QED
    BY <2>1, <2>2
<1>7. p \in Seq(Row) /\ f \in Seq(Row)
  BY <1>1, <1>2, <1>4, <1>5, RangeOfAppend DEF WalAppend
<1>8. /\ IF flushing THEN q # <<>> /\ 1 \in DOMAIN q ELSE inflight = <<>>
      /\ \A i \in DOMAIN q : q[i].walFile \notin replay
  BY <1>4, <1>6, SliceType DEF WriterInv, Shaped
<1>9. dropped' \in Nat /\ displaced' \subseteq Row
  <2>1. dropped \in Nat /\ displaced \subseteq Row
    BY DEF WriterInv, TypeOK
  <2>2. fromPending => Head(pendingRows) \in Row
    BY <1>4, HeadTailProperties
  <2>3. fromHead => Head(queue[1].rows) \in Row
    <3>1. ASSUME fromHead PROVE queue[1].rows \in Seq(Row)
      BY <1>4, <3>1, SliceType DEF Batch
    <3> QED
      BY <3>1, HeadTailProperties
  <2>4. displaced' \subseteq Row
    BY <1>1, <2>1, <2>2, <2>3
  <2>5. dropped' \in Nat
    BY <1>1, <2>1
  <2> QED
    BY <2>4, <2>5
<1>10. ASSUME walFails' = 0 PROVE Kept(p, q, f, row)
  <2>1. Kept(pendingRows, queue, pendingFile, pushed)
    BY <1>3, <1>10 DEF WriterInv
  <2>2. Kept(kept, q, pendingFile, pushed)
    BY <1>5, <1>6, <1>8, <2>1, FewerRows
  <2>3. f = Append(pendingFile, row)
    BY <1>1, <1>3, <1>10 DEF WalAppend
  <2>4. \A i \in DOMAIN q : q[i].walFile \in DOMAIN segments
    BY <2>2 DEF Kept, Filed
  <2>5. row = pushed + 1 /\ p = Append(kept, row)
    BY <1>1
  <2>6. flushing => q[1].walFile \in DOMAIN segments
    BY <1>8, <2>4
  <2>7. Kept(Append(kept, pushed + 1), q, Append(pendingFile, pushed + 1), pushed + 1)
    BY <1>2, <1>4, <1>5, <2>2, <2>4, <2>5, <2>6, RowAppended
  <2> QED
    BY <2>3, <2>5, <2>7
<1> HIDE DEF full, fromPending, fromHead
<1>11. CASE Len(p) >= BATCH_MAX
  <2>1. BeginFlush(FALSE, p, q, f, renamed)
    BY <1>1, <1>11
  <2>2. /\ pendingRows' \in Seq(Row) /\ queue' \in Seq(Batch) /\ pendingFile' \in Seq(Row)
        /\ walSeq' \in Nat /\ DOMAIN segments' \subseteq 1..walSeq'
        /\ \A s \in DOMAIN segments' : segments'[s] \in Seq(Row)
        /\ DOMAIN segments \subseteq DOMAIN segments'
        /\ flushing' \in BOOLEAN /\ inflight' \in Seq(Row)
        /\ UNCHANGED <<headAttempts, backoff>>
        /\ IF flushing' THEN queue' # <<>> ELSE inflight' = <<>>
        /\ \A i \in DOMAIN queue' : queue'[i].walFile \notin replay
    BY <1>4, <1>6, <1>7, <1>8, <2>1, FlushType
  <2>3. TypeOK'
    BY <1>2, <1>3, <1>9, <2>2 DEF WriterInv, TypeOK
  <2>4. Shaped(queue)'
    BY <1>2, <2>2 DEF Shaped
  <2>5. ASSUME walFails' = 0 PROVE Kept(pendingRows, queue, pendingFile, pushed)'
    <3>1. Kept(p, q, f, row) /\ row \in Nat /\ replay \subseteq DOMAIN segments
      BY <1>2, <1>4, <1>10, <2>5 DEF TypeOK, Row
    <3>4. BeginFlush(FALSE, p, q, f, TRUE)
      <4>1. renamed = TRUE
        BY <1>3, <2>5
      <4> QED
        BY <2>1, <4>1
    <3>2. Kept(pendingRows, queue, pendingFile, row)'
      BY <1>2, <1>4, <1>6, <1>7, <1>8, <3>1, <3>4, FlushKeeps
    <3>3. pushed' = row
      BY <1>1
    <3> QED
      BY <3>2, <3>3 DEF Kept, Apart
  <2> QED
    BY <2>3, <2>4, <2>5 DEF WriterInv
<1>12. CASE ~(Len(p) >= BATCH_MAX)
  <2>1. /\ pendingRows' = p /\ queue' = q /\ pendingFile' = f /\ pushed' = row
        /\ UNCHANGED <<segments, walSeq, flushing, inflight, headAttempts, backoff>>
    BY <1>1, <1>12
  <2>2. TypeOK'
    BY <1>2, <1>3, <1>6, <1>7, <1>9, <2>1 DEF WriterInv, TypeOK
  <2>3. Shaped(queue)'
    BY <1>2, <1>8, <2>1 DEF Shaped
  <2>4. ASSUME walFails' = 0 PROVE Kept(pendingRows, queue, pendingFile, pushed)'
    BY <1>2, <1>10, <2>1, <2>4 DEF Kept, Filed, Apart, Ahead
  <2> QED
    BY <2>2, <2>3, <2>4 DEF WriterInv
<1> QED
  BY <1>11, <1>12

---------------------------------------------------------------------------
\* flush on its own: the timer's, and each round of drain.
LEMMA FlushAlone ==
  ASSUME WriterInv, up, NEW force, NEW renamed \in BOOLEAN,
         BeginFlush(force, pendingRows, queue, pendingFile, renamed), Faults(<<renamed>>),
         UNCHANGED <<up, draining, replay, db, dropped, pushed, displaced, bounds>>
  PROVE  WriterInv'
<1>1. walFails' \in 0..MaxWalFails /\ (walFails' = 0 => walFails = 0 /\ renamed)
  BY OneFault DEF WriterInv, TypeOK
<1>2. /\ TypeOK /\ queue \in Seq(Batch) /\ pendingRows \in Seq(Row) /\ pendingFile \in Seq(Row)
      /\ pushed \in Nat /\ replay \subseteq DOMAIN segments
      /\ IF flushing THEN queue # <<>> ELSE inflight = <<>>
      /\ \A i \in DOMAIN queue : queue[i].walFile \notin replay
  BY DEF WriterInv, TypeOK, Shaped
<1>3. /\ pendingRows' \in Seq(Row) /\ queue' \in Seq(Batch) /\ pendingFile' \in Seq(Row)
      /\ walSeq' \in Nat /\ DOMAIN segments' \subseteq 1..walSeq'
      /\ \A s \in DOMAIN segments' : segments'[s] \in Seq(Row)
      /\ DOMAIN segments \subseteq DOMAIN segments'
      /\ flushing' \in BOOLEAN /\ inflight' \in Seq(Row)
      /\ UNCHANGED <<headAttempts, backoff>>
      /\ IF flushing' THEN queue' # <<>> ELSE inflight' = <<>>
      /\ \A i \in DOMAIN queue' : queue'[i].walFile \notin replay
  BY <1>2, FlushType
<1>4. TypeOK'
  BY <1>1, <1>3 DEF WriterInv, TypeOK, bounds
<1>5. Shaped(queue)'
  BY <1>3 DEF Shaped
<1>6. ASSUME walFails' = 0 PROVE Kept(pendingRows, queue, pendingFile, pushed)'
  <2>1. renamed = TRUE
    BY <1>1, <1>6
  <2>2. BeginFlush(force, pendingRows, queue, pendingFile, TRUE)
    BY <2>1
  <2>3. Kept(pendingRows, queue, pendingFile, pushed)
    BY <1>1, <1>6 DEF WriterInv
  <2> QED
    BY <1>2, <2>2, <2>3, FlushKeeps DEF bounds, Kept, Apart
<1> QED
  BY <1>4, <1>5, <1>6 DEF WriterInv

LEMMA FlushTimerKeeps ==
  ASSUME WriterInv, FlushTimer
  PROVE  WriterInv'
BY FlushAlone DEF FlushTimer

LEMMA DrainFlushKeeps ==
  ASSUME WriterInv, DrainFlush
  PROVE  WriterInv'
BY FlushAlone DEF DrainFlush

\* The queue without its head.
LEMMA HeadTaken ==
  ASSUME NEW q \in Seq(Batch), q # <<>>
  PROVE  /\ Tail(q) \in Seq(Batch)
         /\ \A i \in DOMAIN Tail(q) : i + 1 \in DOMAIN q \ {1} /\ Tail(q)[i] = q[i + 1]
         /\ \A i \in DOMAIN Tail(q), j \in DOMAIN Tail(q) : i + 1 = j + 1 => i = j
<1>1. /\ Tail(q) \in Seq(Batch) /\ Len(Tail(q)) = Len(q) - 1
      /\ \A i \in 1..Len(Tail(q)) : Tail(q)[i] = q[i + 1]
  BY HeadTailProperties
<1>2. DOMAIN q = 1..Len(q) /\ DOMAIN Tail(q) = 1..Len(Tail(q)) /\ Len(q) \in Nat \ {0}
  BY <1>1, LenProperties, EmptySeq
<1> QED
  BY <1>1, <1>2

LEMMA WriteOkKeeps ==
  ASSUME WriterInv, WriteOk
  PROVE  WriterInv'
<1>1. /\ up /\ flushing /\ queue \in Seq(Batch) /\ queue # <<>> /\ inflight \in Seq(Row)
      /\ 1 \in DOMAIN queue /\ queue[1] \in Batch
  BY SliceType DEF WriteOk, WriterInv, TypeOK, Shaped
<1>2. /\ db' = db \cup Range(inflight) /\ flushing' = FALSE /\ inflight' = <<>>
      /\ headAttempts' = 0 /\ backoff' = FALSE
      /\ UNCHANGED <<up, draining, pendingRows, pendingFile, walSeq, walFails, replay,
                     dropped, pushed, displaced, crashes, storeFails>>
  BY DEF WriteOk, bounds
<1>3. Range(inflight) \subseteq Row
  BY <1>1, RangeOfSeq
<1>4. /\ headAttempts' \in 0..RETRY_MAX /\ inflight' \in Seq(Row) /\ db' \subseteq Row
      /\ flushing' \in BOOLEAN /\ backoff' \in BOOLEAN
  <2>1. RETRY_MAX \in Nat /\ <<>> \in Seq(Row) /\ db \subseteq Row
    BY BatchWriterAssumption, EmptySeq DEF BatchWriterAssumption, WriterInv, TypeOK
  <2>2. headAttempts' \in 0..RETRY_MAX
    BY <1>2, <2>1
  <2>3. inflight' \in Seq(Row)
    BY <1>2, <2>1
  <2>4. db' \subseteq Row
    BY <1>2, <1>3, <2>1
  <2>5. flushing' \in BOOLEAN /\ backoff' \in BOOLEAN
    BY <1>2
  <2> QED
    BY <2>2, <2>3, <2>4, <2>5
<1>5. CASE Unwritten(queue[1]) # <<>>
  <2> DEFINE rest == Unwritten(queue[1])
             b == [queue[1] EXCEPT !.rows = rest]
  <2>1. queue' = [queue EXCEPT ![1] = b] /\ segments' = segments
    BY <1>5 DEF WriteOk
  <2>2. rest \in Seq(Row) /\ Range(rest) \subseteq Range(queue[1].rows)
    <3>1. queue[1].rows \in Seq(Row)
      BY <1>1 DEF Batch
    <3>2. Len(inflight) + 1 \in Nat \ {0} /\ Len(queue[1].rows) \in 0..Len(queue[1].rows)
      BY <1>1, <3>1, LenProperties
    <3> QED
      BY <3>1, <3>2, RangeOfSubSeq DEF Unwritten
  <2>3. b \in Batch /\ b.rows = rest /\ b.walFile = queue[1].walFile
    BY <1>1, <2>2 DEF Batch
  <2> HIDE DEF rest, b
  <2>4. /\ queue' \in Seq(Batch) /\ DOMAIN queue' = DOMAIN queue
        /\ \A i \in DOMAIN queue : queue'[i] = IF i = 1 THEN b ELSE queue[i]
    <3>1. DOMAIN queue = 1..Len(queue)
      BY <1>1, LenProperties
    <3>2. /\ [queue EXCEPT ![1] = b] \in Seq(Batch)
          /\ Len([queue EXCEPT ![1] = b]) = Len(queue)
          /\ \A i \in 1..Len(queue) : [queue EXCEPT ![1] = b][i] = IF i = 1 THEN b ELSE queue[i]
      BY <1>1, <2>3, <3>1, ExceptSeq
    <3>3. DOMAIN [queue EXCEPT ![1] = b] = 1..Len(queue)
      BY <3>2, LenProperties
    <3> QED
      BY <2>1, <3>1, <3>2, <3>3
  <2>5. TypeOK'
    BY <1>2, <1>4, <2>1, <2>4 DEF WriterInv, TypeOK
  <2>6. Shaped(queue)'
    BY <1>1, <1>2, <2>3, <2>4 DEF WriterInv, Shaped
  <2>7. ASSUME walFails = 0 PROVE Kept(pendingRows, queue, pendingFile, pushed)'
    <3>1. Kept(pendingRows, queue, pendingFile, pushed)
      BY <2>7 DEF WriterInv
    <3>2. /\ \A i \in DOMAIN queue : queue'[i].walFile = queue[i].walFile
          /\ \A i \in DOMAIN queue : Range(queue'[i].rows) \subseteq Range(queue[i].rows)
      BY <2>2, <2>3, <2>4
    <3>3. Filed(pendingRows, queue, pendingFile)'
      <4>1. Filed(pendingRows, queue, pendingFile)
        BY <3>1 DEF Kept
      <4>2. ASSUME NEW i \in DOMAIN queue'
            PROVE  /\ queue'[i].walFile \in DOMAIN segments'
                   /\ Range(queue'[i].rows) \subseteq Range(segments'[queue'[i].walFile])
                   /\ \A j \in DOMAIN queue' : queue'[i].walFile = queue'[j].walFile => i = j
        <5>1. i \in DOMAIN queue /\ DOMAIN queue' = DOMAIN queue /\ queue'[i].walFile = queue[i].walFile
          BY <2>4, <3>2
        <5> QED
          BY <2>1, <3>2, <4>1, <5>1 DEF Filed
      <4> QED
        BY <1>2, <4>1, <4>2 DEF Filed
    <3>4. queue[1].walFile \in DOMAIN segments /\ Range(inflight) \subseteq Range(segments[queue[1].walFile])
      BY <1>1, <3>1 DEF Kept, Filed, Apart
    <3>5. Apart(queue, pendingFile, pushed)'
      BY <1>2, <2>1, <3>1, <3>4 DEF Kept, Apart
    <3>6. Ahead(queue, pendingFile)'
      BY <1>1, <1>2, <2>1, <2>4, <3>1, <3>2, <3>4 DEF Kept, Filed, Apart, Ahead
    <3> QED
      BY <3>3, <3>5, <3>6 DEF Kept
  <2> QED
    BY <1>2, <2>5, <2>6, <2>7 DEF WriterInv
<1>6. CASE Unwritten(queue[1]) = <<>>
  <2>1. queue' = Tail(queue) /\ segments' = Unlink(queue[1].walFile)
    BY <1>6 DEF WriteOk
  <2>2. /\ DOMAIN segments' = DOMAIN segments \ {queue[1].walFile}
        /\ \A t \in DOMAIN segments' : segments'[t] = segments[t]
    BY <2>1, Unlinked
  <2>3. /\ queue' \in Seq(Batch)
        /\ \A i \in DOMAIN queue' : i + 1 \in DOMAIN queue \ {1} /\ queue'[i] = queue[i + 1]
        /\ \A i \in DOMAIN queue', j \in DOMAIN queue' : i + 1 = j + 1 => i = j
    BY <1>1, <2>1, HeadTaken
  <2>4. TypeOK'
    <3>1. replay \subseteq DOMAIN segments'
      BY <1>1, <2>2 DEF WriterInv, TypeOK, Shaped
    <3>2. \A t \in DOMAIN segments' : segments'[t] \in Seq(Row)
      BY <2>2 DEF WriterInv, TypeOK
    <3>3. DOMAIN segments' \subseteq 1..walSeq
      BY <2>2 DEF WriterInv, TypeOK
    <3> QED
      BY <1>2, <1>4, <2>3, <3>1, <3>2, <3>3 DEF WriterInv, TypeOK
  <2>5. Shaped(queue)'
    BY <1>1, <1>2, <2>3 DEF WriterInv, Shaped
  <2>6. ASSUME walFails = 0 PROVE Kept(pendingRows, queue, pendingFile, pushed)'
    <3>1. Kept(pendingRows, queue, pendingFile, pushed)
      BY <2>6 DEF WriterInv
    <3>2. ASSUME NEW i \in DOMAIN queue'
          PROVE  /\ queue'[i].walFile \in DOMAIN segments'
                 /\ Range(queue'[i].rows) \subseteq Range(segments'[queue'[i].walFile])
                 /\ \A j \in DOMAIN queue' : queue'[i].walFile = queue'[j].walFile => i = j
      <4>1. i + 1 \in DOMAIN queue \ {1} /\ queue'[i] = queue[i + 1]
        BY <2>3
      <4>2. /\ queue[i + 1].walFile \in DOMAIN segments
            /\ queue[i + 1].walFile # queue[1].walFile
            /\ Range(queue[i + 1].rows) \subseteq Range(segments[queue[i + 1].walFile])
        BY <1>1, <3>1, <4>1 DEF Kept, Filed
      <4>3. ASSUME NEW j \in DOMAIN queue', queue'[i].walFile = queue'[j].walFile PROVE i = j
        <5>1. j + 1 \in DOMAIN queue /\ queue'[j] = queue[j + 1]
          BY <2>3
        <5>2. i + 1 = j + 1
          BY <3>1, <4>1, <4>3, <5>1 DEF Kept, Filed
        <5> QED
          BY <2>3, <5>2
      <4> QED
        BY <2>2, <4>1, <4>2, <4>3
    <3>3. Filed(pendingRows, queue, pendingFile)'
      BY <1>2, <3>1, <3>2 DEF Kept, Filed
    <3>4. /\ queue[1].walFile \in DOMAIN segments
          /\ Range(inflight) \subseteq Range(segments[queue[1].walFile])
      BY <1>1, <3>1 DEF Kept, Filed, Apart
    <3>5. Apart(queue, pendingFile, pushed)'
      BY <1>2, <2>2, <3>1, <3>4 DEF Kept, Apart
    <3>6. Ahead(queue, pendingFile)'
      <4>1. ASSUME storeFails = 0 PROVE Range(pendingFile) \cap db' = {}
        BY <1>2, <3>1, <3>4, <4>1 DEF Kept, Apart, Ahead
      <4>2. ASSUME storeFails = 0, NEW i \in DOMAIN queue' \ {1}
            PROVE  Range(segments'[queue'[i].walFile]) \cap db' = {}
        <5>1. i + 1 \in DOMAIN queue \ {1} /\ queue'[i] = queue[i + 1]
          BY <2>3
        <5>2. /\ queue[i + 1].walFile \in DOMAIN segments
              /\ queue[i + 1].walFile # queue[1].walFile
              /\ Range(segments[queue[i + 1].walFile]) \cap db = {}
          BY <1>1, <3>1, <4>2, <5>1 DEF Kept, Filed, Ahead
        <5>3. Range(segments[queue[i + 1].walFile]) \cap Range(inflight) = {}
          BY <3>1, <3>4, <5>2 DEF Kept, Apart
        <5> QED
          BY <1>2, <2>2, <5>1, <5>2, <5>3
      <4> QED
        BY <1>2, <4>1, <4>2 DEF Ahead
    <3> QED
      BY <3>3, <3>5, <3>6 DEF Kept
  <2> QED
    BY <1>2, <2>4, <2>5, <2>6 DEF WriterInv
<1> QED
  BY <1>5, <1>6

LEMMA WriteFailsKeeps ==
  ASSUME WriterInv, WriteFails
  PROVE  WriterInv'
<1>1. /\ up /\ flushing /\ queue \in Seq(Batch) /\ queue # <<>> /\ inflight \in Seq(Row)
      /\ 1 \in DOMAIN queue /\ db \subseteq Row
  BY SliceType DEF WriteFails, WriterInv, TypeOK, Shaped
<1>2. /\ flushing' = FALSE /\ inflight' = <<>> /\ storeFails' = storeFails + 1
      /\ UNCHANGED <<up, draining, pendingRows, pendingFile, segments, walSeq, walFails, replay,
                     dropped, pushed, displaced, crashes>>
  BY DEF WriteFails, files
<1>3. db' \in {db, db \cup Range(inflight)}
  BY DEF WriteFails
<1>4. db' \subseteq Row /\ inflight' \in Seq(Row)
  BY <1>1, <1>2, <1>3, RangeOfSeq, EmptySeq
<1>5. storeFails \in Nat /\ storeFails' \in 0..MaxStoreFails
  BY BatchWriterAssumption DEF WriteFails, WriterInv, TypeOK, BatchWriterAssumption
<1>6. headAttempts' \in 0..RETRY_MAX /\ backoff' \in BOOLEAN
  <2>1. headAttempts \in 0..RETRY_MAX /\ RETRY_MAX \in Nat
    BY BatchWriterAssumption DEF WriterInv, TypeOK, BatchWriterAssumption
  <2>2. headAttempts' \in 0..RETRY_MAX
    BY <2>1 DEF WriteFails, GivesUp
  <2>3. backoff' \in BOOLEAN
    BY DEF WriteFails, WriterInv, TypeOK
  <2> QED
    BY <2>2, <2>3
<1>7. /\ queue' \in Seq(Batch)
      /\ \/ queue' = queue
         \/ /\ \A i \in DOMAIN queue' : i + 1 \in DOMAIN queue \ {1} /\ queue'[i] = queue[i + 1]
            /\ \A i \in DOMAIN queue', j \in DOMAIN queue' : i + 1 = j + 1 => i = j
  BY <1>1, HeadTaken DEF WriteFails
<1>8. TypeOK'
  BY <1>2, <1>4, <1>5, <1>6, <1>7 DEF WriterInv, TypeOK
<1>9. Shaped(queue)'
  BY <1>1, <1>2, <1>7 DEF WriterInv, Shaped
<1>10. ASSUME walFails = 0 PROVE Kept(pendingRows, queue, pendingFile, pushed)'
  <2>1. Kept(pendingRows, queue, pendingFile, pushed)
    BY <1>10 DEF WriterInv
  <2>2. Filed(pendingRows, queue, pendingFile)'
    <3>1. CASE queue' = queue
      BY <1>2, <2>1, <3>1 DEF Kept, Filed
    <3>2. CASE /\ \A i \in DOMAIN queue' : i + 1 \in DOMAIN queue \ {1} /\ queue'[i] = queue[i + 1]
               /\ \A i \in DOMAIN queue', j \in DOMAIN queue' : i + 1 = j + 1 => i = j
      BY <1>2, <2>1, <3>2 DEF Kept, Filed
    <3> QED
      BY <1>7, <3>1, <3>2
  <2>3. Range(inflight) \subseteq 1..pushed
    BY <1>1, <2>1 DEF Kept, Filed, Apart
  <2>4. Apart(queue, pendingFile, pushed)'
    BY <1>2, <1>3, <2>1, <2>3 DEF Kept, Apart
  <2>5. Ahead(queue, pendingFile)'
    BY <1>2, <1>5 DEF Ahead
  <2> QED
    BY <2>2, <2>4, <2>5 DEF Kept
<1> QED
  BY <1>2, <1>8, <1>9, <1>10 DEF WriterInv

---------------------------------------------------------------------------
\* Some number of a set is its least.
LEMMA LeastNumber ==
  ASSUME NEW S, S \subseteq Nat, S # {}
  PROVE  \E x \in S : \A y \in S : x <= y
<1> DEFINE order == OpToRel(<, Nat)
<1>1. \A y \in Nat, x \in Nat : <<y, x>> \in order <=> y < x
  BY DEF OpToRel
<1>2. IsWellFoundedOn(order, Nat)
  BY NatLessThanWellFounded
<1> HIDE DEF order
<1>3. PICK x \in S : \A y \in S : ~ (<<y, x>> \in order)
  BY <1>2, WFMin
<1>4. ASSUME NEW y \in S PROVE x <= y
  <2>1. x \in Nat /\ y \in Nat
    OBVIOUS
  <2>2. ~ (y < x)
    BY <1>1, <1>3, <2>1
  <2> QED
    BY <2>1, <2>2
<1> QED
  BY <1>4

LEMMA OldestIsOne ==
  ASSUME NEW S, S \subseteq Nat, S # {}
  PROVE  Oldest(S) \in S
<1>1. PICK x \in S : \A y \in S : x <= y
  BY LeastNumber
<1> QED
  BY <1>1 DEF Oldest

\* The segment a replay writes is in nobody's hands.
LEMMA Replayed ==
  ASSUME WriterInv, replay # {}
  PROVE  /\ Oldest(replay) \in replay /\ Oldest(replay) \in DOMAIN segments
         /\ Range(segments[Oldest(replay)]) \subseteq Row
         /\ \A i \in DOMAIN queue : queue[i].walFile # Oldest(replay)
<1>1. replay \subseteq DOMAIN segments /\ replay \subseteq Nat
  BY DEF WriterInv, TypeOK
<1>2. Oldest(replay) \in replay
  BY <1>1, OldestIsOne
<1>3. segments[Oldest(replay)] \in Seq(Row)
  BY <1>1, <1>2 DEF WriterInv, TypeOK
<1> QED
  BY <1>1, <1>2, <1>3, RangeOfSeq DEF WriterInv, Shaped

LEMMA ReplayOkKeeps ==
  ASSUME WriterInv, ReplayOk
  PROVE  WriterInv'
<1> DEFINE s == Oldest(replay)
<1>1. /\ s \in replay /\ s \in DOMAIN segments /\ Range(segments[s]) \subseteq Row
      /\ \A i \in DOMAIN queue : queue[i].walFile # s
  BY Replayed DEF ReplayOk
<1>2. /\ db' = db \cup Range(segments[s]) /\ segments' = Unlink(s) /\ replay' = replay \ {s}
      /\ UNCHANGED <<up, draining, pendingRows, queue, flushing, inflight, headAttempts, backoff,
                     pendingFile, walSeq, walFails, dropped, pushed, displaced, crashes, storeFails>>
  BY DEF ReplayOk, memory, bounds
<1> HIDE DEF s
<1>3. /\ DOMAIN segments' = DOMAIN segments \ {s}
      /\ \A t \in DOMAIN segments' : segments'[t] = segments[t]
  BY <1>2, Unlinked
<1>4. TypeOK'
  BY <1>1, <1>2, <1>3 DEF WriterInv, TypeOK
<1>5. Shaped(queue)'
  BY <1>2 DEF WriterInv, Shaped
<1>6. ASSUME walFails = 0 PROVE Kept(pendingRows, queue, pendingFile, pushed)'
  <2>1. Kept(pendingRows, queue, pendingFile, pushed)
    BY <1>6 DEF WriterInv
  <2>2. Filed(pendingRows, queue, pendingFile)'
    BY <1>1, <1>2, <1>3, <2>1 DEF Kept, Filed
  <2>3. flushing => queue[1].walFile \in DOMAIN segments'
    BY <1>1, <1>3, <2>1, SliceType DEF WriterInv, TypeOK, Shaped, Kept, Filed
  <2>4. Apart(queue, pendingFile, pushed)'
    BY <1>1, <1>2, <1>3, <2>1, <2>3 DEF Kept, Apart
  <2>5. Ahead(queue, pendingFile)'
    <3>1. Range(segments[s]) \cap Range(pendingFile) = {}
      BY <1>1, <2>1 DEF Kept, Apart
    <3>2. \A i \in DOMAIN queue : /\ queue[i].walFile \in DOMAIN segments'
                                  /\ Range(segments[queue[i].walFile]) \cap Range(segments[s]) = {}
      BY <1>1, <1>3, <2>1 DEF Kept, Filed, Apart
    <3> QED
      BY <1>2, <1>3, <2>1, <3>1, <3>2 DEF Kept, Ahead
  <2> QED
    BY <2>2, <2>4, <2>5 DEF Kept
<1> QED
  BY <1>2, <1>4, <1>5, <1>6 DEF WriterInv

LEMMA ReplayFailsKeeps ==
  ASSUME WriterInv, ReplayFails
  PROVE  WriterInv'
<1> DEFINE s == Oldest(replay)
<1>1. s \in DOMAIN segments /\ Range(segments[s]) \subseteq Row
  BY Replayed DEF ReplayFails
<1>2. /\ replay' = {} /\ storeFails' = storeFails + 1
      /\ db' \in {db, db \cup Range(segments[s])}
      /\ UNCHANGED <<up, draining, pendingRows, queue, flushing, inflight, headAttempts, backoff,
                     pendingFile, segments, walSeq, walFails, dropped, pushed, displaced, crashes>>
  BY DEF ReplayFails, memory, files
<1> HIDE DEF s
<1>3. storeFails \in Nat /\ storeFails' \in 0..MaxStoreFails
  BY BatchWriterAssumption DEF ReplayFails, WriterInv, TypeOK, BatchWriterAssumption
<1>4. TypeOK'
  BY <1>1, <1>2, <1>3 DEF WriterInv, TypeOK
<1>5. Shaped(queue)'
  BY <1>2 DEF WriterInv, Shaped
<1>6. ASSUME walFails = 0 PROVE Kept(pendingRows, queue, pendingFile, pushed)'
  <2>1. Kept(pendingRows, queue, pendingFile, pushed)
    BY <1>6 DEF WriterInv
  <2>2. Filed(pendingRows, queue, pendingFile)'
    BY <1>2, <2>1 DEF Kept, Filed
  <2>3. Apart(queue, pendingFile, pushed)'
    BY <1>1, <1>2, <2>1 DEF Kept, Apart
  <2>4. Ahead(queue, pendingFile)'
    BY <1>2, <1>3 DEF Ahead
  <2> QED
    BY <2>2, <2>3, <2>4 DEF Kept
<1> QED
  BY <1>2, <1>4, <1>5, <1>6 DEF WriterInv

---------------------------------------------------------------------------
LEMMA StopKeeps ==
  ASSUME WriterInv, Stop
  PROVE  WriterInv'
<1>1. /\ up' = FALSE /\ draining' = FALSE /\ pendingRows' = <<>> /\ queue' = <<>>
      /\ flushing' = FALSE /\ inflight' = <<>> /\ headAttempts' = 0 /\ backoff' = FALSE
      /\ replay' = {} /\ crashes < MaxCrashes /\ crashes' = crashes + 1
      /\ UNCHANGED <<pendingFile, segments, walSeq, walFails, dropped, pushed, displaced, storeFails>>
  BY DEF Stop, files
<1>2. db \subseteq db' /\ db' \subseteq db \cup Range(inflight) \cup
        (IF replay # {} THEN Range(segments[Oldest(replay)]) ELSE {})
  BY DEF Stop
<1>3. db' \subseteq Row
  BY <1>2, Replayed, RangeOfSeq DEF WriterInv, TypeOK
<1>4. TypeOK'
  <2>1. /\ RETRY_MAX \in Nat /\ MaxCrashes \in Nat /\ crashes \in 0..MaxCrashes
        /\ <<>> \in Seq(Row) /\ <<>> \in Seq(Batch)
    BY BatchWriterAssumption, EmptySeq DEF BatchWriterAssumption, WriterInv, TypeOK
  <2>2. headAttempts' \in 0..RETRY_MAX /\ crashes' \in 0..MaxCrashes
    BY <1>1, <2>1
  <2>3. pendingRows' \in Seq(Row) /\ inflight' \in Seq(Row) /\ queue' \in Seq(Batch)
    BY <1>1, <2>1
  <2> QED
    BY <1>1, <1>3, <2>2, <2>3 DEF WriterInv, TypeOK
<1>5. DOMAIN queue' = {} /\ Range(pendingRows') = {}
  BY <1>1 DEF Range
<1>6. Shaped(queue)'
  BY <1>1, <1>5 DEF Shaped
<1>7. ASSUME walFails = 0 PROVE Kept(pendingRows, queue, pendingFile, pushed)'
  <2>1. Kept(pendingRows, queue, pendingFile, pushed)
    BY <1>7 DEF WriterInv
  <2>2. Filed(pendingRows, queue, pendingFile)'
    BY <1>1, <1>5 DEF Filed
  <2>3. Range(inflight) \subseteq 1..pushed /\ Range(inflight) \cap Range(pendingFile) = {}
    <3>1. CASE flushing
      <4>1. 1 \in DOMAIN queue
        BY <3>1, SliceType DEF WriterInv, TypeOK, Shaped
      <4> QED
        BY <2>1, <3>1, <4>1 DEF Kept, Filed, Apart
    <3>2. CASE ~flushing
      BY <3>2 DEF WriterInv, Shaped, Range
    <3> QED
      BY <3>1, <3>2
  <2>4. ASSUME replay # {}
        PROVE  /\ Range(segments[Oldest(replay)]) \subseteq 1..pushed
               /\ Range(segments[Oldest(replay)]) \cap Range(pendingFile) = {}
    BY <2>1, <2>4, Replayed DEF Kept, Apart
  <2>5. Apart(queue, pendingFile, pushed)'
    BY <1>1, <1>2, <2>1, <2>3, <2>4 DEF Kept, Apart
  <2>6. Ahead(queue, pendingFile)'
    BY <1>1, <1>2, <1>5, <2>1, <2>3, <2>4 DEF Kept, Ahead
  <2> QED
    BY <2>2, <2>5, <2>6 DEF Kept
<1> QED
  BY <1>1, <1>4, <1>6, <1>7 DEF WriterInv

LEMMA BootKeeps ==
  ASSUME WriterInv, Boot
  PROVE  WriterInv'
<1>1. /\ up' = TRUE /\ replay' = DOMAIN segments'
      /\ UNCHANGED <<draining, pendingRows, queue, flushing, inflight, headAttempts, backoff, walFails,
                     db, dropped, pushed, displaced, crashes, storeFails>>
  BY DEF Boot, memory, files, bounds
<1>2. pendingRows = <<>> /\ queue = <<>> /\ (IF flushing THEN queue # <<>> ELSE inflight = <<>>)
  BY DEF WriterInv, Boot, Shaped
<1>3. TypeOK /\ pendingFile \in Seq(Row) /\ walSeq \in Nat /\ DOMAIN segments \subseteq 1..walSeq
  BY DEF WriterInv, TypeOK
<1>4. DOMAIN queue = {} /\ Range(pendingRows) = {}
  BY <1>2 DEF Range
<1>5. CASE pendingFile # <<>>
  <2>1. segments' = AddSegment(pendingFile) /\ walSeq' = walSeq + 1 /\ pendingFile' = <<>>
    BY <1>5 DEF Boot
  <2>2. /\ walSeq + 1 \notin DOMAIN segments
        /\ DOMAIN segments' = DOMAIN segments \cup {walSeq + 1}
        /\ DOMAIN segments' \subseteq 1..walSeq'
        /\ segments'[walSeq + 1] = pendingFile
        /\ \A t \in DOMAIN segments : segments'[t] = segments[t]
    BY <1>3, <2>1, AddedSegment
  <2>3. TypeOK'
    <3>1. \A t \in DOMAIN segments' : segments'[t] \in Seq(Row)
      BY <1>3, <2>2 DEF TypeOK
    <3>2. pendingFile' \in Seq(Row) /\ walSeq' \in Nat
      BY <1>3, <2>1, EmptySeq
    <3> QED
      BY <1>1, <1>3, <2>2, <3>1, <3>2 DEF TypeOK
  <2>4. Range(pendingFile') = {}
    BY <2>1 DEF Range
  <2>5. ASSUME walFails = 0 PROVE Kept(pendingRows, queue, pendingFile, pushed)'
    <3>1. Kept(pendingRows, queue, pendingFile, pushed)
      BY <2>5 DEF WriterInv
    <3>2. Filed(pendingRows, queue, pendingFile)'
      BY <1>1, <1>4 DEF Filed
    <3>3. ASSUME NEW s \in DOMAIN segments', NEW t \in DOMAIN segments', s # t
          PROVE  Range(segments'[s]) \cap Range(segments'[t]) = {}
      BY <2>2, <3>1, <3>3 DEF Kept, Apart
    <3>4. ASSUME NEW s \in DOMAIN segments'
          PROVE  Range(segments'[s]) \subseteq 1..pushed
      BY <2>2, <3>1 DEF Kept, Apart
    <3>5. Apart(queue, pendingFile, pushed)'
      BY <1>1, <1>2, <2>4, <3>1, <3>3, <3>4 DEF Kept, Apart
    <3>6. Ahead(queue, pendingFile)'
      BY <1>1, <1>4, <2>4 DEF Ahead
    <3> QED
      BY <3>2, <3>5, <3>6 DEF Kept
  <2> QED
    BY <1>1, <1>2, <1>4, <2>3, <2>5 DEF WriterInv, Shaped
<1>6. CASE pendingFile = <<>>
  <2>1. UNCHANGED <<pendingFile, segments, walSeq>>
    BY <1>6 DEF Boot, files
  <2>2. TypeOK'
    BY <1>1, <1>3, <2>1 DEF TypeOK
  <2>3. ASSUME walFails = 0 PROVE Kept(pendingRows, queue, pendingFile, pushed)'
    BY <1>1, <2>1, <2>3 DEF WriterInv, Kept, Filed, Apart, Ahead
  <2> QED
    BY <1>1, <1>2, <1>4, <2>2, <2>3 DEF WriterInv, Shaped
<1> QED
  BY <1>5, <1>6

LEMMA WriterNext ==
  ASSUME WriterInv, [Next]_vars
  PROVE  WriterInv'
<1>1. ASSUME UNCHANGED <<up, pendingRows, queue, flushing, inflight, headAttempts, files, replay,
                         db, dropped, pushed, displaced, bounds>>,
             draining' \in BOOLEAN, backoff' \in BOOLEAN
      PROVE  WriterInv'
  <2>1. TypeOK'
    BY <1>1 DEF WriterInv, TypeOK, files, bounds
  <2>2. Shaped(queue)'
    BY <1>1 DEF WriterInv, Shaped
  <2>3. ASSUME walFails = 0 PROVE Kept(pendingRows, queue, pendingFile, pushed)'
    BY <1>1, <2>3 DEF WriterInv, Kept, Filed, Apart, Ahead, files, bounds
  <2> QED
    BY <1>1, <2>1, <2>2, <2>3 DEF WriterInv, files
<1>2. CASE BackoffOver
  BY <1>1, <1>2 DEF BackoffOver, WriterInv, TypeOK
<1>3. CASE Signal
  BY <1>1, <1>3 DEF Signal, memory, WriterInv, TypeOK
<1>4. CASE UNCHANGED vars
  BY <1>1, <1>4 DEF vars, memory, WriterInv, TypeOK
<1> QED
  BY <1>2, <1>3, <1>4, PushKeeps, FlushTimerKeeps, WriteOkKeeps, WriteFailsKeeps, ReplayOkKeeps,
     ReplayFailsKeeps, DrainFlushKeeps, StopKeeps, BootKeeps
  DEF Next

---------------------------------------------------------------------------
(***************************************************************************)
(* Every reachable state is well typed; a replay lists only segments that    *)
(* exist, whatever the flush unlinks meanwhile (replayWal, flush).           *)
(***************************************************************************)
THEOREM WriterTypeCorrect == Spec => []TypeOK
<1>1. Init => WriterInv
  BY WriterInit
<1>2. WriterInv /\ [Next]_vars => WriterInv'
  BY WriterNext
<1>3. WriterInv => TypeOK
  BY DEF WriterInv
<1> QED
  BY <1>1, <1>2, <1>3, PTL DEF Spec

(***************************************************************************)
(* "A crash/restart loses nothing queued", and what the next boot writes a   *)
(* second time is "bounded to one segment" (index.ts:59-61), for any queue,  *)
(* batch and retry limit and any number of rows, crashes and failures.       *)
(***************************************************************************)
THEOREM WriterRecoverable == Spec => []Recoverable
<1>1. Init => WriterInv
  BY WriterInit
<1>2. WriterInv /\ [Next]_vars => WriterInv'
  BY WriterNext
<1>3. ASSUME WriterInv PROVE Recoverable
  <2>1. CrashSafe
    BY <1>3 DEF WriterInv, Shaped, Kept, Filed, CrashSafe
  <2>2. OnlyHeadOverlaps
    BY <1>3 DEF WriterInv, Kept, Ahead, OnlyHeadOverlaps
  <2> QED
    BY <2>1, <2>2 DEF Recoverable
<1> QED
  BY <1>1, <1>2, <1>3, PTL DEF Spec


---------------------------------------------------------------------------
(***************************************************************************)
(* Losses.  What a row's loss takes is more than the variables say: a row    *)
(* displaced from memory is still in its segment until that is unlinked.     *)
(* So a row counts as safe only where an unlink cannot take it, and a row    *)
(* of the insert under way that its batch lost counts too: the batch is cut  *)
(* by as many rows as were inserted, so such a row makes room for the loss   *)
(* of another one.                                                           *)
(***************************************************************************)
Distinct(s) == \A i, j \in DOMAIN s : s[i] = s[j] => i = j

Owned(q) == {q[i].walFile : i \in DOMAIN q}

\* Rows in the table, in memory, or in a file that no batch of q will unlink.
Safe(p, q) ==
  db \cup Range(p) \cup QueuedRows(q)
     \cup (UNION {Range(segments[s]) : s \in DOMAIN segments \ Owned(q)})
     \cup (IF up THEN {} ELSE Range(pendingFile))

\* Rows of the insert under way that the head batch no longer has.
Overtaken(q) == IF flushing THEN Range(inflight) \ Range(q[1].rows) ELSE {}

Doomed(p, q, n) == ((1..n) \ Safe(p, q)) \cup Overtaken(q)

\* No row is twice in a batch, and those under way are in its front.
Tidy(p, q) ==
  /\ Distinct(p)
  /\ \A i \in DOMAIN q : Distinct(q[i].rows)
  /\ flushing =>
       /\ Distinct(inflight)
       /\ \A k \in DOMAIN q[1].rows : q[1].rows[k] \in Range(inflight) => k <= Len(inflight)

Counted ==
  walFails = 0 =>
    /\ Tidy(pendingRows, queue)
    /\ Cardinality(Doomed(pendingRows, queue, pushed)) <= dropped

LossInv == WriterInv /\ Counted

LEMMA SafeRows ==
  ASSUME NEW p, NEW q, NEW r
  PROVE  r \in Safe(p, q) <=>
           \/ r \in db
           \/ r \in Range(p)
           \/ \E i \in DOMAIN q : r \in Range(q[i].rows)
           \/ \E s \in DOMAIN segments : r \in Range(segments[s]) /\ \A i \in DOMAIN q : q[i].walFile # s
           \/ ~up /\ r \in Range(pendingFile)
<1>1. r \in QueuedRows(q) <=> \E i \in DOMAIN q : r \in Range(q[i].rows)
  BY DEF QueuedRows
<1>2. \A s : s \in Owned(q) <=> \E i \in DOMAIN q : q[i].walFile = s
  BY DEF Owned
<1>3. r \in UNION {Range(segments[s]) : s \in DOMAIN segments \ Owned(q)}
        <=> \E s \in DOMAIN segments : r \in Range(segments[s]) /\ s \notin Owned(q)
  OBVIOUS
<1>4. r \in (IF up THEN {} ELSE Range(pendingFile)) <=> ~up /\ r \in Range(pendingFile)
  OBVIOUS
<1>5. \A s \in DOMAIN segments : s \notin Owned(q) <=> \A i \in DOMAIN q : q[i].walFile # s
  BY <1>2
<1>6. r \in Safe(p, q) <=>
        \/ r \in db \/ r \in Range(p) \/ r \in QueuedRows(q)
        \/ r \in UNION {Range(segments[s]) : s \in DOMAIN segments \ Owned(q)}
        \/ r \in (IF up THEN {} ELSE Range(pendingFile))
  BY DEF Safe
<1>7. (\E s \in DOMAIN segments : r \in Range(segments[s]) /\ s \notin Owned(q)) <=>
        \E s \in DOMAIN segments : r \in Range(segments[s]) /\ \A i \in DOMAIN q : q[i].walFile # s
  BY <1>5
<1> QED
  BY <1>1, <1>3, <1>4, <1>6, <1>7

LEMMA DoomedFinite ==
  ASSUME TypeOK, NEW p, NEW q, NEW n \in 0..MaxRows
  PROVE  /\ IsFiniteSet(Doomed(p, q, n)) /\ Cardinality(Doomed(p, q, n)) \in Nat
<1>1. MaxRows \in Nat
  BY BatchWriterAssumption DEF BatchWriterAssumption
<1>2. IsFiniteSet(1..MaxRows)
  BY <1>1, FS_Interval
<1>3. Range(inflight) \subseteq Row
  BY RangeOfSeq DEF TypeOK
<1>4. Overtaken(q) \subseteq 1..MaxRows
  BY <1>3 DEF Overtaken, Row
<1>5. 1..n \subseteq 1..MaxRows
  BY <1>1
<1>6. Doomed(p, q, n) \in SUBSET (1..MaxRows)
  BY <1>4, <1>5 DEF Doomed
<1> QED
  BY <1>2, <1>6, FS_Subset, FS_CardinalityType

---------------------------------------------------------------------------
\* The slice that is inserted is the front of the head batch.
LEMMA SliceTidy ==
  ASSUME NEW q \in Seq(Batch), q # <<>>, Distinct(q[1].rows)
  PROVE  /\ Distinct(Slice(q)) /\ Slice(q) \in Seq(Row) /\ Range(Slice(q)) \subseteq Range(q[1].rows)
         /\ \A k \in DOMAIN q[1].rows : q[1].rows[k] \in Range(Slice(q)) => k <= Len(Slice(q))
<1> DEFINE A == q[1].rows
           n == Smaller(BATCH_MAX, Len(A))
<1>1. A \in Seq(Row) /\ Slice(q) \in Seq(Row) /\ Range(Slice(q)) \subseteq Range(A)
  BY SliceType DEF Batch
<1>2. Len(A) \in Nat /\ DOMAIN A = 1..Len(A) /\ n \in 0..Len(A) /\ \A i \in 1..Len(A) : A[i] \in Row
  BY <1>1, LenProperties, ElementOfSeq, BatchWriterAssumption DEF Smaller, BatchWriterAssumption
<1>3. Slice(q) = SubSeq(A, 1, n)
  BY DEF Slice
<1>7. Distinct(A)
  OBVIOUS
<1> HIDE DEF A, n
<1>4. /\ Len(SubSeq(A, 1, n)) = IF 1 <= n THEN n - 1 + 1 ELSE 0
      /\ \A i \in 1..(n - 1 + 1) : SubSeq(A, 1, n)[i] = A[1 + i - 1]
  <2>1. n \in Int /\ \A i \in 1..n : A[i] \in Row
    BY <1>2
  <2>2. \A m \in Int : (\A i \in m..n : A[i] \in Row) =>
          /\ Len(SubSeq(A, m, n)) = IF m <= n THEN n - m + 1 ELSE 0
          /\ \A i \in 1..(n - m + 1) : SubSeq(A, m, n)[i] = A[m + i - 1]
    BY <2>1, SubSeqProperties
  <2>3. 1 \in Int
    OBVIOUS
  <2> QED
    BY <2>1, <2>2, <2>3
<1>5. Len(Slice(q)) = n /\ DOMAIN Slice(q) = 1..n /\ \A i \in 1..n : Slice(q)[i] = A[i] /\ i \in DOMAIN A
  <2>1. Len(Slice(q)) = n
    BY <1>2, <1>3, <1>4
  <2>2. DOMAIN Slice(q) = 1..n
    BY <1>1, <2>1, LenProperties
  <2>3. ASSUME NEW i \in 1..n PROVE Slice(q)[i] = A[i] /\ i \in DOMAIN A
    <3>1. i \in 1..(n - 1 + 1) /\ 1 + i - 1 = i /\ i \in DOMAIN A
      BY <1>2
    <3> QED
      BY <1>3, <1>4, <3>1
  <2> QED
    BY <2>1, <2>2, <2>3
<1>6. Distinct(Slice(q))
  BY <1>5, <1>7 DEF Distinct
<1>8. ASSUME NEW k \in DOMAIN A, A[k] \in Range(Slice(q)) PROVE k <= Len(Slice(q))
  <2>1. PICK i \in 1..n : Slice(q)[i] = A[k]
    BY <1>5, <1>8 DEF Range
  <2>2. A[i] = A[k] /\ i \in DOMAIN A
    BY <1>5, <2>1
  <2>3. i = k
    BY <1>7, <2>2 DEF Distinct
  <2> QED
    BY <1>2, <1>5, <2>3
<1> QED
  BY <1>1, <1>6, <1>8 DEF A

(***************************************************************************)
(* A batch loses no more rows that were not inserted than it had lost of     *)
(* those that were.                                                          *)
(***************************************************************************)
LEMMA CutShort ==
  ASSUME NEW S, NEW A \in Seq(S), NEW I \in Seq(S), Distinct(I),
         \A k \in DOMAIN A : A[k] \in Range(I) => k <= Len(I)
  PROVE  LET cut == {A[k] : k \in {j \in DOMAIN A : j <= Len(I)}} \ Range(I)
             lost == Range(I) \ Range(A)
         IN /\ IsFiniteSet(cut) /\ IsFiniteSet(lost)
            /\ Cardinality(cut) <= Cardinality(lost)
<1> DEFINE n == Len(I)
           cut == {A[k] : k \in {j \in DOMAIN A : j <= n}} \ Range(I)
           lost == Range(I) \ Range(A)
           both == Range(I) \cap Range(A)
           K == {k \in DOMAIN A : k <= n /\ A[k] \notin Range(I)}
           J == {k \in DOMAIN A : A[k] \in Range(I)}
<1>1. n \in Nat /\ DOMAIN I = 1..n /\ DOMAIN A = 1..Len(A) /\ Len(A) \in Nat
  BY LenProperties
<1>2. IsFiniteSet(1..n) /\ Cardinality(1..n) = n
  <2>1. 1 \in Int /\ n \in Int
    BY <1>1
  <2>2. \A a \in Int : /\ IsFiniteSet(a..n)
                       /\ Cardinality(a..n) = IF a > n THEN 0 ELSE n - a + 1
    BY <2>1, FS_Interval
  <2>3. IF 1 > n THEN 0 = n ELSE n - 1 + 1 = n
    BY <1>1
  <2> HIDE DEF n
  <2> QED
    BY <2>1, <2>2, <2>3
<1>3. K \subseteq 1..n /\ J \subseteq 1..n /\ K \cap J = {} /\ K \cup J \subseteq 1..n
  BY <1>1
<1>4. /\ IsFiniteSet(K) /\ IsFiniteSet(J) /\ Cardinality(K) \in Nat /\ Cardinality(J) \in Nat
      /\ Cardinality(K) + Cardinality(J) <= n
  <2>1. IsFiniteSet(K) /\ IsFiniteSet(J) /\ IsFiniteSet(K \cup J)
    BY <1>2, <1>3, FS_Subset
  <2>2. Cardinality(K \cup J) <= n
    BY <1>2, <1>3, FS_Subset
  <2>3. Cardinality(K \cup J) = Cardinality(K) + Cardinality(J) - Cardinality(K \cap J)
    BY <2>1, FS_Union
  <2>4. Cardinality(K \cap J) = 0
    BY <1>3, FS_EmptySet
  <2>5. Cardinality(K) \in Nat /\ Cardinality(J) \in Nat
    BY <2>1, FS_CardinalityType
  <2> QED
    BY <2>1, <2>2, <2>3, <2>4, <2>5
<1>5. IsFiniteSet(Range(I)) /\ Cardinality(Range(I)) = n
  <2>1. I \in Surjection(1..n, Range(I)) /\ I \in Injection(1..n, Range(I))
    <3>1. I \in [1..n -> Range(I)]
      BY <1>1, LenProperties DEF Range
    <3>2. \A a, b \in 1..n : I[a] = I[b] => a = b
      BY <1>1 DEF Distinct
    <3>3. \A t \in Range(I) : \E s \in 1..n : I[s] = t
      BY <1>1 DEF Range
    <3> QED
      BY <3>1, <3>2, <3>3 DEF Surjection, Injection, IsInjective
  <2> QED
    BY <1>2, <2>1, FS_Surjection
<1>6. IsFiniteSet(cut) /\ Cardinality(cut) <= Cardinality(K)
  <2> DEFINE g == [k \in K |-> A[k]]
  <2>1. g \in [K -> cut]
    BY <1>3
  <2>2. \A t \in cut : \E k \in K : g[k] = t
    OBVIOUS
  <2>3. g \in Surjection(K, cut)
    BY <2>1, <2>2 DEF Surjection
  <2> HIDE DEF g, cut, K
  <2> QED
    BY <1>4, <2>3, FS_Surjection
<1>7. IsFiniteSet(both) /\ Cardinality(both) <= Cardinality(J)
  <2> DEFINE g == [k \in J |-> A[k]]
  <2>1. g \in [J -> both]
    BY DEF Range
  <2>2. \A t \in both : \E k \in J : g[k] = t
    BY DEF Range
  <2>3. g \in Surjection(J, both)
    BY <2>1, <2>2 DEF Surjection
  <2> HIDE DEF g, both, J
  <2> QED
    BY <1>4, <2>3, FS_Surjection
<1>8. IsFiniteSet(lost) /\ Cardinality(lost) = n - Cardinality(both)
  BY <1>5, FS_Difference
<1>9. Cardinality(cut) \in Nat /\ Cardinality(both) \in Nat /\ Cardinality(lost) \in Nat
  BY <1>6, <1>7, <1>8, FS_CardinalityType
<1>10. Cardinality(cut) <= Cardinality(lost)
  <2> HIDE DEF cut, lost, both, K, J, n
  <2> QED
    BY <1>1, <1>4, <1>6, <1>7, <1>8, <1>9
<1> QED
  BY <1>6, <1>8, <1>10

\* The same, for all that is doomed before and after.
LEMMA NoMoreDoomed ==
  ASSUME NEW D, IsFiniteSet(D), NEW D2, NEW back, NEW cut, IsFiniteSet(cut), NEW lost, IsFiniteSet(lost),
         Cardinality(cut) <= Cardinality(lost), lost \subseteq D, lost \subseteq back,
         D2 \subseteq (D \ back) \cup cut
  PROVE  Cardinality(D2) <= Cardinality(D)
<1>1. IsFiniteSet(D \ back)
  BY FS_Difference
<1>2. /\ IsFiniteSet((D \ back) \cup cut)
      /\ Cardinality((D \ back) \cup cut) = Cardinality(D \ back) + Cardinality(cut) - Cardinality((D \ back) \cap cut)
  BY <1>1, FS_Union
<1>3. /\ IsFiniteSet((D \ back) \cup lost)
      /\ Cardinality((D \ back) \cup lost) = Cardinality(D \ back) + Cardinality(lost) - Cardinality((D \ back) \cap lost)
  BY <1>1, FS_Union
<1>4. (D \ back) \cap lost = {} /\ (D \ back) \cup lost \in SUBSET D
  OBVIOUS
<1>5. Cardinality((D \ back) \cup lost) <= Cardinality(D)
  BY <1>4, FS_Subset
<1>6. Cardinality((D \ back) \cap lost) = 0
  BY <1>4, FS_EmptySet
<1>7. D2 \in SUBSET ((D \ back) \cup cut)
  OBVIOUS
<1>8. IsFiniteSet(D2) /\ Cardinality(D2) <= Cardinality((D \ back) \cup cut)
  BY <1>2, <1>7, FS_Subset
<1>9. IsFiniteSet((D \ back) \cap cut)
  BY <1>1, FS_Intersection
<1>10. /\ Cardinality(D2) \in Nat /\ Cardinality(D) \in Nat /\ Cardinality(D \ back) \in Nat
       /\ Cardinality(cut) \in Nat /\ Cardinality(lost) \in Nat
       /\ Cardinality((D \ back) \cap cut) \in Nat
  BY <1>1, <1>8, <1>9, FS_CardinalityType
<1> QED
  BY <1>2, <1>3, <1>5, <1>6, <1>8, <1>10


---------------------------------------------------------------------------
(***************************************************************************)
(* A flush moves rows and their file together, so what was safe is, and it   *)
(* inserts what the head batch has.                                          *)
(***************************************************************************)
LEMMA FlushDooms ==
  ASSUME TypeOK, NEW p \in Seq(Row), NEW q \in Seq(Batch), NEW f \in Seq(Row), NEW n \in Nat,
         NEW force, Filed(p, q, f), Tidy(p, q), up, up' = up, db' = db,
         BeginFlush(force, p, q, f, TRUE)
  PROVE  /\ Tidy(pendingRows, queue)'
         /\ Doomed(pendingRows, queue, n)' \subseteq Doomed(p, q, n)
<1>1. CASE flushing
  <2>1. /\ pendingRows' = p /\ queue' = q /\ pendingFile' = f
        /\ UNCHANGED <<segments, walSeq, flushing, inflight>>
    BY <1>1 DEF BeginFlush
  <2>2. Tidy(pendingRows, queue)'
    BY <2>1 DEF Tidy
  <2>3. Safe(pendingRows, queue)' = Safe(p, q)
    BY <2>1 DEF Safe
  <2>4. Overtaken(queue)' = Overtaken(q)
    BY <2>1 DEF Overtaken
  <2> QED
    BY <2>2, <2>3, <2>4 DEF Doomed
<1>2. CASE ~flushing
  <2>1. /\ pendingRows' = <<>> /\ RotatePending(p, q, f, TRUE)
        /\ IF StartsWrite(force, queue')
           THEN flushing' = TRUE /\ inflight' = Slice(queue')
           ELSE UNCHANGED <<flushing, inflight>>
    BY <1>2 DEF BeginFlush
  <2>2. Range(pendingRows') = {} /\ Distinct(pendingRows')
    BY <2>1 DEF Range, Distinct
  <2>3. /\ queue' \in Seq(Batch)
        /\ \A i \in DOMAIN queue' : Distinct(queue'[i].rows)
        /\ \A r \in Safe(p, q) : r \in Safe(pendingRows, queue)'
    <3>1. CASE p = <<>>
      <4>1. queue' = q /\ UNCHANGED <<segments, walSeq>>
        BY <2>1, <3>1 DEF RotatePending
      <4>2. Range(p) = {}
        BY <3>1 DEF Range
      <4>3. Safe(p, q) = Safe(pendingRows, queue)'
        BY <2>2, <4>1, <4>2 DEF Safe
      <4> QED
        BY <4>1, <4>3 DEF Tidy
    <3>2. CASE p # <<>>
      <4> DEFINE b == [rows |-> p, walFile |-> walSeq + 1]
      <4>1. f # <<>>
        <5>1. Range(p) # {}
          <6>1. Len(p) \in Nat \ {0} /\ DOMAIN p = 1..Len(p)
            BY <3>2, EmptySeq, LenProperties
          <6>2. 1 \in DOMAIN p
            BY <6>1
          <6> QED
            BY <6>2 DEF Range
        <5>2. Range(f) # {}
          BY <5>1 DEF Filed
        <5> QED
          BY <5>2 DEF Range
      <4>2. segments' = AddSegment(f) /\ queue' = Append(q, b)
        BY <2>1, <3>2, <4>1 DEF RotatePending
      <4>3. /\ walSeq + 1 \notin DOMAIN segments
            /\ DOMAIN segments' = DOMAIN segments \cup {walSeq + 1}
            /\ \A s \in DOMAIN segments : segments'[s] = segments[s]
        BY <4>2, AddedSegment
      <4>4. b \in Batch /\ b.rows = p /\ b.walFile = walSeq + 1
        BY DEF Batch, TypeOK
      <4> HIDE DEF b
      <4>5. /\ queue' \in Seq(Batch) /\ DOMAIN queue' = DOMAIN q \cup {Len(q) + 1}
            /\ queue'[Len(q) + 1] = b /\ \A i \in DOMAIN q : queue'[i] = q[i]
        BY <4>2, <4>4, Queued
      <4>6. \A i \in DOMAIN queue' : Distinct(queue'[i].rows)
        BY <4>4, <4>5 DEF Tidy
      <4>7. ASSUME NEW r \in Safe(p, q) PROVE r \in Safe(pendingRows, queue)'
        <5>1. CASE r \in db
          BY <5>1 DEF Safe
        <5>2. CASE r \in Range(p)
          <6>1. r \in Range(queue'[Len(q) + 1].rows) /\ Len(q) + 1 \in DOMAIN queue'
            BY <4>4, <4>5, <5>2
          <6> QED
            BY <6>1 DEF Safe, QueuedRows
        <5>3. ASSUME NEW i \in DOMAIN q, r \in Range(q[i].rows) PROVE r \in Safe(pendingRows, queue)'
          <6>1. r \in Range(queue'[i].rows) /\ i \in DOMAIN queue'
            BY <4>5, <5>3
          <6> QED
            BY <6>1 DEF Safe, QueuedRows
        <5>4. ASSUME NEW s \in DOMAIN segments, r \in Range(segments[s]),
                     \A i \in DOMAIN q : q[i].walFile # s
              PROVE  r \in Safe(pendingRows, queue)'
          <6>1. s \in DOMAIN segments' /\ r \in Range(segments'[s]) /\ s # walSeq + 1
            BY <4>3, <5>4
          <6>2. \A i \in DOMAIN queue' : queue'[i].walFile # s
            BY <4>4, <4>5, <5>4, <6>1
          <6>3. s \notin Owned(queue)'
            BY <6>2 DEF Owned
          <6> QED
            BY <6>1, <6>3 DEF Safe
        <5> QED
          BY <5>1, <5>2, <5>3, <5>4, SafeRows
      <4> QED
        BY <4>5, <4>6, <4>7
    <3> QED
      BY <3>1, <3>2
  <2>4. ASSUME flushing'
        PROVE  /\ Distinct(inflight') /\ Range(inflight') \subseteq Range(queue'[1].rows)
               /\ \A k \in DOMAIN queue'[1].rows :
                    queue'[1].rows[k] \in Range(inflight') => k <= Len(inflight')
    <3>1. queue' # <<>> /\ inflight' = Slice(queue')
      BY <1>2, <2>1, <2>4 DEF StartsWrite
    <3>2. 1 \in DOMAIN queue'
      BY <2>3, <3>1, SliceType
    <3> QED
      BY <2>3, <3>1, <3>2, SliceTidy
  <2>5. Overtaken(queue)' = {}
    BY <2>4 DEF Overtaken
  <2> QED
    BY <2>2, <2>3, <2>4, <2>5 DEF Tidy, Doomed
<1> QED
  BY <1>1, <1>2

\* Backpressure takes the first row of a sequence.
LEMMA FirstTaken ==
  ASSUME NEW S, NEW s \in Seq(S), s # <<>>, Distinct(s)
  PROVE  /\ Distinct(Tail(s)) /\ Range(s) = Range(Tail(s)) \cup {Head(s)}
         /\ \A k \in DOMAIN Tail(s) : k \in Nat /\ k + 1 \in DOMAIN s /\ Tail(s)[k] = s[k + 1]
<1>1. /\ Tail(s) \in Seq(S) /\ Len(Tail(s)) = Len(s) - 1 /\ Head(s) = s[1]
      /\ \A i \in 1..Len(Tail(s)) : Tail(s)[i] = s[i + 1]
  BY HeadTailProperties
<1>2. /\ DOMAIN s = 1..Len(s) /\ DOMAIN Tail(s) = 1..Len(Tail(s)) /\ Len(s) \in Nat \ {0}
  BY <1>1, LenProperties, EmptySeq
<1>3. \A k \in DOMAIN Tail(s) : k \in Nat /\ k + 1 \in DOMAIN s /\ Tail(s)[k] = s[k + 1]
  BY <1>1, <1>2
<1>4. Distinct(Tail(s))
  <2>1. ASSUME NEW i \in DOMAIN Tail(s), NEW j \in DOMAIN Tail(s), Tail(s)[i] = Tail(s)[j] PROVE i = j
    <3>1. i + 1 = j + 1
      BY <1>3, <2>1 DEF Distinct
    <3> QED
      BY <1>3, <3>1
  <2> QED
    BY <2>1 DEF Distinct
<1>5. \A k \in DOMAIN s : k = 1 \/ (k - 1 \in DOMAIN Tail(s) /\ (k - 1) + 1 = k)
  BY <1>1, <1>2
<1>6. 1 \in DOMAIN s
  BY <1>2
<1>7. ASSUME NEW r PROVE r \in Range(s) <=> r \in Range(Tail(s)) \/ r = Head(s)
  <2>1. ASSUME r \in Range(s) PROVE r \in Range(Tail(s)) \/ r = Head(s)
    <3>1. PICK k \in DOMAIN s : s[k] = r
      BY <2>1 DEF Range
    <3>2. CASE k = 1
      BY <1>1, <3>1, <3>2
    <3>3. CASE k - 1 \in DOMAIN Tail(s) /\ (k - 1) + 1 = k
      <4>1. Tail(s)[k - 1] = r
        BY <1>3, <3>1, <3>3
      <4> QED
        BY <3>3, <4>1 DEF Range
    <3> QED
      BY <1>5, <3>2, <3>3
  <2>2. ASSUME r \in Range(Tail(s)) PROVE r \in Range(s)
    BY <1>3, <2>2 DEF Range
  <2>3. Head(s) \in Range(s)
    BY <1>1, <1>6 DEF Range
  <2> QED
    BY <2>1, <2>2, <2>3
<1> QED
  BY <1>3, <1>4, <1>7


---------------------------------------------------------------------------
LEMMA LossInit ==
  ASSUME Init
  PROVE  LossInv
<1>1. WriterInv
  BY WriterInit
<1>2. DOMAIN pendingRows = {} /\ DOMAIN queue = {} /\ flushing = FALSE /\ dropped = 0
  BY DEF Init
<1>3. Tidy(pendingRows, queue)
  BY <1>2 DEF Tidy, Distinct
<1>4. Doomed(pendingRows, queue, pushed) = {}
  BY <1>2 DEF Doomed, Overtaken, Init
<1>5. Cardinality(Doomed(pendingRows, queue, pushed)) = 0
  BY <1>4, FS_EmptySet
<1> QED
  BY <1>1, <1>2, <1>3, <1>5 DEF LossInv, Counted

\* A step that dooms no row.
LEMMA NoneDoomed ==
  ASSUME LossInv, WriterInv', walFails' = walFails, dropped' = dropped,
         walFails = 0 =>
           /\ Tidy(pendingRows, queue)'
           /\ Doomed(pendingRows, queue, pushed)' \subseteq Doomed(pendingRows, queue, pushed)
  PROVE  LossInv'
<1>1. TypeOK /\ pushed \in 0..MaxRows /\ TypeOK' /\ pushed' \in 0..MaxRows
  BY DEF LossInv, WriterInv, TypeOK
<1>2. IsFiniteSet(Doomed(pendingRows, queue, pushed)) /\ Cardinality(Doomed(pendingRows, queue, pushed)) \in Nat
  BY <1>1, DoomedFinite
<1>3. dropped \in Nat
  BY DEF LossInv, WriterInv, TypeOK
<1>4. ASSUME walFails' = 0
      PROVE  /\ Tidy(pendingRows, queue)'
             /\ Cardinality(Doomed(pendingRows, queue, pushed)') <= dropped
  <2>1. Doomed(pendingRows, queue, pushed)' \in SUBSET Doomed(pendingRows, queue, pushed)
    BY <1>4
  <2>2. Cardinality(Doomed(pendingRows, queue, pushed)') <= Cardinality(Doomed(pendingRows, queue, pushed))
    BY <1>2, <2>1, FS_Subset
  <2>3. Cardinality(Doomed(pendingRows, queue, pushed)') \in Nat
    BY <1>2, <2>1, FS_Subset, FS_CardinalityType
  <2>4. Cardinality(Doomed(pendingRows, queue, pushed)) <= dropped
    BY <1>4 DEF LossInv, Counted
  <2> QED
    BY <1>2, <1>3, <1>4, <2>2, <2>3, <2>4
<1> QED
  BY <1>4 DEF LossInv, Counted

\* Doomed when nothing overtakes an insert, in terms of what is safe.
LEMMA Saved ==
  ASSUME pushed' = pushed, Overtaken(queue)' \subseteq Overtaken(queue),
         \A r \in Safe(pendingRows, queue) : r \in Safe(pendingRows, queue)'
  PROVE  Doomed(pendingRows, queue, pushed)' \subseteq Doomed(pendingRows, queue, pushed)
BY DEF Doomed

LEMMA PushLoss ==
  ASSUME LossInv, WriterInv', Push
  PROVE  LossInv'
<1> DEFINE full == TotalQueued >= QUEUE_MAX
           fromPending == full /\ pendingRows # <<>>
           fromHead == full /\ pendingRows = <<>> /\ queue # <<>> /\ queue[1].rows # <<>>
           D == Doomed(pendingRows, queue, pushed)
<1>1. PICK appended, renamed, row, kept, q, p, f :
        /\ appended \in BOOLEAN /\ renamed \in BOOLEAN
        /\ row = pushed + 1
        /\ kept = IF fromPending THEN Tail(pendingRows) ELSE pendingRows
        /\ q = IF fromHead THEN [queue EXCEPT ![1].rows = Tail(@)] ELSE queue
        /\ p = Append(kept, row)
        /\ f = WalAppend(row, appended)
        /\ dropped' = IF full THEN dropped + 1 ELSE dropped
        /\ IF Len(p) >= BATCH_MAX
           THEN BeginFlush(FALSE, p, q, f, renamed)
           ELSE /\ pendingRows' = p /\ queue' = q /\ pendingFile' = f
                /\ UNCHANGED <<segments, walSeq, flushing, inflight, headAttempts, backoff>>
        /\ pushed' = row
        /\ Faults(<<appended, renamed>>)
  BY DEF Push
<1>2. walFails' \in 0..MaxWalFails /\ (walFails' = 0 => walFails = 0 /\ appended /\ renamed)
  <2>1. walFails \in Nat /\ Faults(<<appended, renamed>>) /\ appended \in BOOLEAN /\ renamed \in BOOLEAN
    BY <1>1 DEF LossInv, WriterInv, TypeOK
  <2> QED
    BY <2>1, TwoFaults
<1> SUFFICES ASSUME walFails' = 0
             PROVE  /\ Tidy(pendingRows, queue)'
                    /\ Cardinality(Doomed(pendingRows, queue, pushed)') <= dropped'
  BY DEF LossInv, Counted
<1>3. /\ up /\ up' = up /\ db' = db /\ walFails = 0 /\ appended = TRUE /\ renamed = TRUE
      /\ TypeOK /\ queue \in Seq(Batch) /\ pendingRows \in Seq(Row) /\ pendingFile \in Seq(Row)
      /\ dropped \in Nat /\ pushed \in 0..MaxRows /\ pushed \in Nat
      /\ pushed' \in 0..MaxRows /\ pushed < MaxRows /\ row \in Row /\ row \in Nat /\ MaxRows \in Nat
  <2>1. up /\ up' = up /\ db' = db /\ pushed < MaxRows
    BY DEF Push
  <2>2. /\ TypeOK /\ queue \in Seq(Batch) /\ pendingRows \in Seq(Row) /\ pendingFile \in Seq(Row)
        /\ dropped \in Nat /\ pushed \in 0..MaxRows
    BY DEF LossInv, WriterInv, TypeOK
  <2>3. pushed' \in 0..MaxRows
    BY DEF WriterInv, TypeOK
  <2>4. MaxRows \in Nat /\ row = pushed + 1
    BY <1>1, BatchWriterAssumption DEF BatchWriterAssumption
  <2>5. walFails = 0 /\ appended = TRUE /\ renamed = TRUE
    BY <1>1, <1>2
  <2>6. row \in Row /\ row \in Nat /\ pushed \in Nat
    BY <2>1, <2>2, <2>4 DEF Row
  <2> QED
    BY <2>1, <2>2, <2>3, <2>4, <2>5, <2>6
<1>4. /\ Tidy(pendingRows, queue) /\ Cardinality(D) <= dropped
      /\ Filed(pendingRows, queue, pendingFile)
      /\ Range(pendingFile) \subseteq 1..pushed
  BY <1>3 DEF LossInv, Counted, WriterInv, Kept, Apart
<1>5. IF flushing THEN queue # <<>> /\ 1 \in DOMAIN queue ELSE inflight = <<>>
  BY <1>3, SliceType DEF LossInv, WriterInv, Shaped
<1>6. /\ kept \in Seq(Row) /\ Distinct(kept) /\ Range(kept) \subseteq Range(pendingRows)
      /\ Range(pendingRows) \subseteq
           Range(kept) \cup (IF fromPending THEN {Head(pendingRows)} ELSE {})
  <2>1. CASE fromPending
    <3>1. kept = Tail(pendingRows) /\ pendingRows # <<>>
      BY <1>1, <2>1
    <3>2. Distinct(pendingRows)
      BY <1>4 DEF Tidy
    <3> QED
      BY <1>3, <2>1, <3>1, <3>2, FirstTaken, RangeOfTail
  <2>2. CASE ~fromPending
    BY <1>1, <1>3, <1>4, <2>2 DEF Tidy
  <2> QED
    BY <2>1, <2>2
<1>7. /\ q \in Seq(Batch) /\ DOMAIN q = DOMAIN queue
      /\ \A i \in DOMAIN queue : /\ q[i].walFile = queue[i].walFile
                                 /\ Range(q[i].rows) \subseteq Range(queue[i].rows)
                                 /\ Distinct(q[i].rows)
                                 /\ Range(queue[i].rows) \subseteq
                                      Range(q[i].rows) \cup (IF fromHead THEN {Head(queue[1].rows)} ELSE {})
      /\ flushing => \A k \in DOMAIN q[1].rows : q[1].rows[k] \in Range(inflight) => k <= Len(inflight)
  <2>1. CASE fromHead
    <3> DEFINE b == [queue[1] EXCEPT !.rows = Tail(queue[1].rows)]
    <3>1. q = [queue EXCEPT ![1].rows = Tail(@)] /\ queue # <<>> /\ queue[1].rows # <<>>
      BY <1>1, <2>1
    <3>2. /\ q \in Seq(Batch) /\ DOMAIN q = DOMAIN queue
          /\ \A i \in DOMAIN queue : /\ q[i].walFile = queue[i].walFile
                                     /\ Range(q[i].rows) \subseteq Range(queue[i].rows)
      BY <1>3, <3>1, HeadDisplaced
    <3>3. 1 \in DOMAIN queue /\ queue[1] \in Batch
      BY <1>3, <3>1, SliceType
    <3>4. queue[1].rows \in Seq(Row) /\ Distinct(queue[1].rows)
      BY <1>4, <3>3 DEF Batch, Tidy
    <3>5. /\ Distinct(Tail(queue[1].rows))
          /\ Range(queue[1].rows) = Range(Tail(queue[1].rows)) \cup {Head(queue[1].rows)}
          /\ \A k \in DOMAIN Tail(queue[1].rows) :
               k \in Nat /\ k + 1 \in DOMAIN queue[1].rows /\ Tail(queue[1].rows)[k] = queue[1].rows[k + 1]
      BY <3>1, <3>4, FirstTaken
    <3>6. q[1].rows = Tail(queue[1].rows) /\ \A i \in DOMAIN queue \ {1} : q[i] = queue[i]
      <4>1. q = [queue EXCEPT ![1] = b]
        BY <3>1
      <4>2. b.rows = Tail(queue[1].rows)
        BY <3>3 DEF Batch
      <4> HIDE DEF b
      <4>3. q[1] = b /\ \A i \in DOMAIN queue \ {1} : q[i] = queue[i]
        BY <3>3, <4>1
      <4> QED
        BY <4>2, <4>3
    <3>7. ASSUME NEW i \in DOMAIN queue
          PROVE  /\ Distinct(q[i].rows)
                 /\ Range(queue[i].rows) \subseteq Range(q[i].rows) \cup {Head(queue[1].rows)}
      <4>1. CASE i = 1
        BY <3>5, <3>6, <4>1
      <4>2. CASE i # 1
        <5>1. q[i] = queue[i]
          BY <3>6, <4>2
        <5> QED
          BY <1>4, <5>1 DEF Tidy
      <4> QED
        BY <4>1, <4>2
    <3>8. ASSUME flushing, NEW k \in DOMAIN q[1].rows, q[1].rows[k] \in Range(inflight)
          PROVE  k <= Len(inflight)
      <4>1. k \in Nat /\ k + 1 \in DOMAIN queue[1].rows /\ queue[1].rows[k + 1] \in Range(inflight)
        BY <3>5, <3>6, <3>8
      <4>2. k + 1 <= Len(inflight)
        BY <1>4, <3>8, <4>1 DEF Tidy
      <4>3. Len(inflight) \in Nat
        BY LenProperties DEF LossInv, WriterInv, TypeOK
      <4> QED
        BY <4>1, <4>2, <4>3
    <3> QED
      BY <2>1, <3>2, <3>7, <3>8
  <2>2. CASE ~fromHead
    <3>1. q = queue
      BY <1>1, <2>2
    <3> QED
      BY <1>3, <1>4, <3>1 DEF Tidy
  <2> QED
    BY <2>1, <2>2
<1>8. p \in Seq(Row) /\ f \in Seq(Row) /\ Range(p) = Range(kept) \cup {row} /\ Distinct(p)
  <2>1. p = Append(kept, row) /\ f = Append(pendingFile, row)
    BY <1>1, <1>3 DEF WalAppend
  <2>2. p \in Seq(Row) /\ f \in Seq(Row) /\ Range(p) = Range(kept) \cup {row}
    BY <1>3, <1>6, <2>1, RangeOfAppend
  <2>3. row \notin Range(kept)
    <3>1. Range(kept) \subseteq 1..pushed
      BY <1>4, <1>6 DEF Filed
    <3> QED
      BY <1>1, <1>3, <3>1
  <2>4. /\ DOMAIN p = DOMAIN kept \cup {Len(kept) + 1} /\ p[Len(kept) + 1] = row
        /\ \A i \in DOMAIN kept : p[i] = kept[i] /\ kept[i] \in Range(kept)
    <3>1. /\ Len(p) = Len(kept) + 1 /\ p[Len(kept) + 1] = row
          /\ \A i \in 1..Len(kept) : p[i] = kept[i]
      BY <1>3, <1>6, <2>1, AppendProperties
    <3>2. DOMAIN p = 1..Len(p) /\ DOMAIN kept = 1..Len(kept) /\ Len(kept) \in Nat
      BY <1>6, <2>2, LenProperties
    <3>3. DOMAIN p = DOMAIN kept \cup {Len(kept) + 1}
      BY <3>1, <3>2
    <3> QED
      BY <3>1, <3>2, <3>3 DEF Range
  <2>5. Distinct(p)
    BY <1>6, <2>3, <2>4 DEF Distinct
  <2> QED
    BY <2>2, <2>5
<1>9. Tidy(p, q)
  BY <1>4, <1>7, <1>8 DEF Tidy
<1>10. Filed(p, q, f)
  <2>1. Range(f) = Range(pendingFile) \cup {row}
    <3>1. f = Append(pendingFile, row)
      BY <1>1, <1>3 DEF WalAppend
    <3> QED
      BY <1>3, <3>1, RangeOfAppend
  <2> QED
    BY <1>4, <1>6, <1>7, <1>8, <2>1 DEF Filed
<1>11. /\ Tidy(pendingRows, queue)'
       /\ Doomed(pendingRows, queue, pushed)' \subseteq Doomed(p, q, row)
  <2>1. CASE Len(p) >= BATCH_MAX
    <3>1. BeginFlush(FALSE, p, q, f, TRUE)
      BY <1>1, <1>3, <2>1
    <3>2. /\ Tidy(pendingRows, queue)'
          /\ Doomed(pendingRows, queue, row)' \subseteq Doomed(p, q, row)
      BY <1>3, <1>7, <1>8, <1>9, <1>10, <3>1, FlushDooms
    <3>3. pushed' = row
      BY <1>1
    <3> QED
      BY <3>2, <3>3 DEF Doomed
  <2>2. CASE ~(Len(p) >= BATCH_MAX)
    <3>1. pendingRows' = p /\ queue' = q /\ UNCHANGED <<segments, flushing, inflight>> /\ pushed' = row
      BY <1>1, <2>2
    <3>2. Tidy(pendingRows, queue)'
      BY <1>9, <3>1 DEF Tidy
    <3>3. Safe(pendingRows, queue)' = Safe(p, q)
      BY <1>3, <3>1 DEF Safe
    <3>4. Overtaken(queue)' = Overtaken(q)
      BY <3>1 DEF Overtaken
    <3> QED
      BY <3>1, <3>2, <3>3, <3>4 DEF Doomed
  <2> QED
    BY <2>1, <2>2
<1>12. Owned(q) = Owned(queue)
  BY <1>7 DEF Owned
<1> DEFINE gone == (IF fromPending THEN {Head(pendingRows)} ELSE {})
                     \cup (IF fromHead THEN {Head(queue[1].rows)} ELSE {})
<1>13. Doomed(p, q, row) \subseteq D \cup gone
  <2>1. \A r \in Safe(pendingRows, queue) : r \in Safe(p, q) \/ r \in gone
    <3>1. \A i \in DOMAIN queue : \A r \in Range(queue[i].rows) : r \in Range(q[i].rows) \/ r \in gone
      BY <1>7
    <3>2. \A r \in Range(pendingRows) : r \in Range(p) \/ r \in gone
      BY <1>6, <1>8
    <3> HIDE DEF gone
    <3> QED
      BY <1>7, <1>12, <3>1, <3>2 DEF Safe, QueuedRows
  <2>2. Overtaken(q) \subseteq Overtaken(queue) \cup gone
    BY <1>5, <1>7 DEF Overtaken
  <2>3. row \in Safe(p, q)
    BY <1>8 DEF Safe
  <2>4. \A r \in 1..row : r \in 1..pushed \/ r = row
    BY <1>1, <1>3
  <2> HIDE DEF gone
  <2> QED
    BY <2>1, <2>2, <2>3, <2>4 DEF Doomed
<1>14. Cardinality(Doomed(pendingRows, queue, pushed)') <= dropped'
  <2>1. Doomed(pendingRows, queue, pushed)' \subseteq D \cup gone
    BY <1>11, <1>13
  <2>2. IsFiniteSet(D) /\ Cardinality(D) \in Nat
    BY <1>3, DoomedFinite
  <2>3. gone = {} \/ \E y : gone = {y} /\ dropped' = dropped + 1
    BY <1>1
  <2>4. dropped' = dropped \/ dropped' = dropped + 1
    BY <1>1
  <2> HIDE DEF gone, D, full, fromPending, fromHead
  <2>5. CASE gone = {}
    <3>1. Doomed(pendingRows, queue, pushed)' \in SUBSET D
      BY <2>1, <2>5
    <3>2. /\ Cardinality(Doomed(pendingRows, queue, pushed)') <= Cardinality(D)
          /\ Cardinality(Doomed(pendingRows, queue, pushed)') \in Nat
      BY <2>2, <3>1, FS_Subset, FS_CardinalityType
    <3> QED
      BY <1>3, <1>4, <2>2, <2>4, <3>2
  <2>6. ASSUME NEW y, gone = {y}, dropped' = dropped + 1
        PROVE  Cardinality(Doomed(pendingRows, queue, pushed)') <= dropped'
    <3>1. Doomed(pendingRows, queue, pushed)' \in SUBSET (D \cup {y})
      BY <2>1, <2>6
    <3>2. IsFiniteSet(D \cup {y}) /\ Cardinality(D \cup {y}) <= Cardinality(D) + 1 /\ Cardinality(D \cup {y}) \in Nat
      BY <2>2, FS_AddElement
    <3>3. /\ Cardinality(Doomed(pendingRows, queue, pushed)') <= Cardinality(D \cup {y})
          /\ Cardinality(Doomed(pendingRows, queue, pushed)') \in Nat
      BY <3>1, <3>2, FS_Subset, FS_CardinalityType
    <3> QED
      BY <1>3, <1>4, <2>2, <2>6, <3>2, <3>3
  <2> QED
    BY <2>3, <2>5, <2>6
<1> QED
  BY <1>11, <1>14


---------------------------------------------------------------------------
LEMMA FlushLoss ==
  ASSUME LossInv, WriterInv', up, NEW force, NEW renamed \in BOOLEAN,
         BeginFlush(force, pendingRows, queue, pendingFile, renamed), Faults(<<renamed>>),
         UNCHANGED <<up, db, dropped, pushed>>
  PROVE  LossInv'
<1>1. walFails' \in 0..MaxWalFails /\ (walFails' = 0 => walFails = 0 /\ renamed)
  BY OneFault DEF LossInv, WriterInv, TypeOK
<1>2. TypeOK /\ queue \in Seq(Batch) /\ pendingRows \in Seq(Row) /\ pendingFile \in Seq(Row)
      /\ pushed \in 0..MaxRows /\ dropped \in Nat
  BY DEF LossInv, WriterInv, TypeOK
<1>4. pushed \in Nat
  BY <1>2
<1>3. ASSUME walFails' = 0
      PROVE  /\ Tidy(pendingRows, queue)'
             /\ Cardinality(Doomed(pendingRows, queue, pushed)') <= dropped'
  <2>1. renamed = TRUE /\ walFails = 0
    BY <1>1, <1>3
  <2>2. BeginFlush(force, pendingRows, queue, pendingFile, TRUE)
    BY <2>1
  <2>3. /\ Filed(pendingRows, queue, pendingFile) /\ Tidy(pendingRows, queue)
        /\ Cardinality(Doomed(pendingRows, queue, pushed)) <= dropped
    BY <2>1 DEF LossInv, WriterInv, Kept, Counted
  <2>4. /\ Tidy(pendingRows, queue)'
        /\ Doomed(pendingRows, queue, pushed)' \subseteq Doomed(pendingRows, queue, pushed)
    <3>1. /\ Tidy(pendingRows, queue)'
          /\ Doomed(pendingRows, queue, pushed)' \subseteq Doomed(pendingRows, queue, pushed')
      BY <1>2, <1>4, <2>2, <2>3, FlushDooms DEF Doomed
    <3> QED
      BY <3>1
  <2>5. IsFiniteSet(Doomed(pendingRows, queue, pushed)) /\ Cardinality(Doomed(pendingRows, queue, pushed)) \in Nat
    BY <1>2, DoomedFinite
  <2>6. Doomed(pendingRows, queue, pushed)' \in SUBSET Doomed(pendingRows, queue, pushed)
    BY <2>4
  <2>7. /\ Cardinality(Doomed(pendingRows, queue, pushed)') <= Cardinality(Doomed(pendingRows, queue, pushed))
        /\ Cardinality(Doomed(pendingRows, queue, pushed)') \in Nat
    BY <2>5, <2>6, FS_Subset, FS_CardinalityType
  <2> QED
    BY <1>2, <2>3, <2>4, <2>5, <2>7
<1> QED
  BY <1>3 DEF LossInv, Counted

\* What is left of a sequence without its first n elements.
LEMMA CutAt ==
  ASSUME NEW S, NEW s \in Seq(S), NEW n \in Nat
  PROVE  LET rest == SubSeq(s, n + 1, Len(s))
         IN /\ rest \in Seq(S) /\ DOMAIN rest = 1..Len(rest) /\ Len(rest) \in Nat
            /\ \A k \in DOMAIN rest : k + n \in DOMAIN s /\ rest[k] = s[k + n]
            /\ \A k \in DOMAIN s : k <= n \/ (k - n \in DOMAIN rest /\ rest[k - n] = s[k])
<1> DEFINE m == Len(s)
           rest == SubSeq(s, n + 1, m)
<1>1. m \in Nat /\ DOMAIN s = 1..m /\ \A i \in 1..m : s[i] \in S
  BY LenProperties, ElementOfSeq
<1>2. n + 1 \in Int /\ m \in Int /\ \A i \in (n + 1)..m : s[i] \in S
  BY <1>1
<1>3. /\ rest \in Seq(S)
      /\ Len(rest) = IF n + 1 <= m THEN m - (n + 1) + 1 ELSE 0
      /\ \A i \in 1..(m - (n + 1) + 1) : rest[i] = s[(n + 1) + i - 1]
  <2>1. \A a, b \in Int : (\A i \in a..b : s[i] \in S) =>
          /\ SubSeq(s, a, b) \in Seq(S)
          /\ Len(SubSeq(s, a, b)) = IF a <= b THEN b - a + 1 ELSE 0
          /\ \A i \in 1..(b - a + 1) : SubSeq(s, a, b)[i] = s[a + i - 1]
    BY SubSeqProperties
  <2> QED
    BY <1>2, <2>1
<1>4. DOMAIN rest = 1..Len(rest) /\ Len(rest) \in Nat
  BY <1>3, LenProperties
<1> HIDE DEF m, rest
<1> DEFINE d == m - n
<1>5. d \in Int /\ m - (n + 1) + 1 = d /\ (n + 1 <= m <=> d >= 1) /\ m = d + n
  BY <1>1
<1>6. \A i \in Nat : (n + 1) + i - 1 = i + n
  OBVIOUS
<1> HIDE DEF d
<1>7. Len(rest) = IF d >= 1 THEN d ELSE 0
  BY <1>3, <1>5
<1>8. \A i \in 1..d : rest[i] = s[i + n]
  <2>1. \A i \in 1..d : i \in Nat
    BY <1>5
  <2> QED
    BY <1>3, <1>5, <1>6, <2>1
<1>9. ASSUME NEW k \in DOMAIN rest PROVE k + n \in DOMAIN s /\ rest[k] = s[k + n]
  <2>1. k \in 1..d
    BY <1>4, <1>5, <1>7
  <2>2. k + n \in 1..m
    BY <1>1, <1>5, <2>1
  <2> QED
    BY <1>1, <1>8, <2>1, <2>2
<1>10. ASSUME NEW k \in DOMAIN s, ~(k <= n) PROVE k - n \in DOMAIN rest /\ rest[k - n] = s[k]
  <2>1. k \in 1..m
    BY <1>1
  <2>2. k - n \in 1..d /\ (k - n) + n = k /\ d >= 1
    BY <1>1, <1>5, <1>10, <2>1
  <2> QED
    BY <1>4, <1>7, <1>8, <2>2
<1> QED
  BY <1>3, <1>4, <1>9, <1>10 DEF rest, m

(***************************************************************************)
(* An insert that worked cuts the front of the head batch as it is by then.  *)
(***************************************************************************)
LEMMA WriteOkLoss ==
  ASSUME LossInv, WriterInv', WriteOk
  PROVE  LossInv'
<1> DEFINE A == queue[1].rows
           n == Len(inflight)
           D == Doomed(pendingRows, queue, pushed)
           cut == {A[k] : k \in {j \in DOMAIN A : j <= n}} \ Range(inflight)
           lost == Range(inflight) \ Range(A)
<1>1. /\ up /\ flushing /\ TypeOK /\ queue \in Seq(Batch) /\ queue # <<>> /\ inflight \in Seq(Row)
      /\ 1 \in DOMAIN queue /\ queue[1] \in Batch /\ A \in Seq(Row)
      /\ pushed \in 0..MaxRows /\ dropped \in Nat
  BY SliceType DEF WriteOk, LossInv, WriterInv, TypeOK, Shaped, Batch
<1>2. /\ db' = db \cup Range(inflight) /\ flushing' = FALSE
      /\ UNCHANGED <<up, pendingRows, pendingFile, walFails, dropped, pushed>>
  BY DEF WriteOk
<1>3. /\ Len(A) \in Nat /\ DOMAIN A = 1..Len(A) /\ n \in Nat /\ \A i \in 1..Len(A) : A[i] \in Row
  BY <1>1, LenProperties, ElementOfSeq
<1> SUFFICES ASSUME walFails = 0
             PROVE  /\ Tidy(pendingRows, queue)'
                    /\ Cardinality(Doomed(pendingRows, queue, pushed)') <= dropped
  BY <1>2 DEF LossInv, Counted
<1>4. Tidy(pendingRows, queue) /\ Cardinality(D) <= dropped /\ Filed(pendingRows, queue, pendingFile)
  BY DEF LossInv, Counted, WriterInv, Kept
<1> DEFINE rest == Unwritten(queue[1])
<1>6. /\ rest = SubSeq(A, n + 1, Len(A)) /\ rest \in Seq(Row)
      /\ DOMAIN rest = 1..Len(rest) /\ Len(rest) \in Nat
      /\ \A k \in DOMAIN rest : k + n \in DOMAIN A /\ rest[k] = A[k + n]
      /\ \A k \in DOMAIN A : k <= n \/ (k - n \in DOMAIN rest /\ rest[k - n] = A[k])
  <2>1. rest = SubSeq(A, n + 1, Len(A))
    BY DEF Unwritten
  <2> HIDE DEF A, n, rest
  <2>2. A \in Seq(Row) /\ n \in Nat
    BY <1>1, <1>3
  <2> QED
    BY <2>1, <2>2, CutAt
<1>7. \A r \in Range(A) : r \in Range(rest) \/ r \in Range(inflight) \/ r \in cut
  BY <1>6 DEF Range
<1>8. Distinct(rest)
  <2>1. ASSUME NEW i \in DOMAIN rest, NEW j \in DOMAIN rest, rest[i] = rest[j] PROVE i = j
    <3>1. i + n = j + n
      BY <1>1, <1>4, <1>6, <2>1 DEF Tidy, Distinct
    <3>2. i \in Nat /\ j \in Nat
      BY <1>6
    <3> HIDE DEF n, rest
    <3> QED
      BY <1>3, <3>1, <3>2
  <2> QED
    BY <2>1 DEF Distinct
<1> HIDE DEF rest, cut, D
<1>9. /\ Tidy(pendingRows, queue)'
      /\ \A r \in Safe(pendingRows, queue) : r \in Safe(pendingRows, queue)' \/ r \in cut
  <2>1. CASE rest # <<>>
    <3> DEFINE b == [queue[1] EXCEPT !.rows = rest]
    <3>1. queue' = [queue EXCEPT ![1] = b] /\ segments' = segments
      BY <2>1 DEF WriteOk, rest
    <3>2. b.rows = rest /\ b.walFile = queue[1].walFile
      BY <1>1 DEF Batch
    <3> HIDE DEF b
    <3>3. DOMAIN queue' = DOMAIN queue /\ queue'[1] = b /\ \A i \in DOMAIN queue \ {1} : queue'[i] = queue[i]
      BY <1>1, <3>1
    <3>4. \A i \in DOMAIN queue : queue'[i].walFile = queue[i].walFile /\ Distinct(queue'[i].rows)
      <4>1. ASSUME NEW i \in DOMAIN queue PROVE queue'[i].walFile = queue[i].walFile /\ Distinct(queue'[i].rows)
        <5>1. CASE i = 1
          BY <1>8, <3>2, <3>3, <5>1
        <5>2. CASE i # 1
          BY <1>4, <3>3, <5>2 DEF Tidy
        <5> QED
          BY <5>1, <5>2
      <4> QED
        BY <4>1
    <3>5. Tidy(pendingRows, queue)'
      BY <1>2, <1>4, <3>3, <3>4 DEF Tidy
    <3>6. Owned(queue)' = Owned(queue)
      BY <3>3, <3>4 DEF Owned
    <3>7. \A i \in DOMAIN queue : \A r \in Range(queue[i].rows) :
            r \in Range(queue'[i].rows) \/ r \in Range(inflight) \/ r \in cut
      <4>1. ASSUME NEW i \in DOMAIN queue, NEW r \in Range(queue[i].rows)
            PROVE  r \in Range(queue'[i].rows) \/ r \in Range(inflight) \/ r \in cut
        <5>1. CASE i = 1
          BY <1>7, <3>2, <3>3, <5>1
        <5>2. CASE i # 1
          BY <3>3, <5>2
        <5> QED
          BY <5>1, <5>2
      <4> QED
        BY <4>1
    <3>8. \A r \in QueuedRows(queue) : r \in QueuedRows(queue)' \/ r \in Range(inflight) \/ r \in cut
      BY <3>3, <3>7 DEF QueuedRows
    <3>9. \A r \in Safe(pendingRows, queue) : r \in Safe(pendingRows, queue)' \/ r \in cut
      BY <1>2, <3>1, <3>6, <3>8 DEF Safe
    <3> QED
      BY <3>5, <3>9
  <2>2. CASE rest = <<>>
    <3>1. queue' = Tail(queue) /\ segments' = Unlink(queue[1].walFile)
      BY <2>2 DEF WriteOk, rest
    <3>2. /\ DOMAIN segments' = DOMAIN segments \ {queue[1].walFile}
          /\ \A t \in DOMAIN segments' : segments'[t] = segments[t]
      BY <3>1, Unlinked
    <3>3. \A i \in DOMAIN queue' : i + 1 \in DOMAIN queue \ {1} /\ queue'[i] = queue[i + 1]
      BY <1>1, <3>1, HeadTaken
    <3>4. Tidy(pendingRows, queue)'
      BY <1>2, <1>4, <3>3 DEF Tidy
    <3>5. \A i \in DOMAIN queue : i = 1 \/ \E j \in DOMAIN queue' : queue'[j] = queue[i]
      <4>1. /\ Len(Tail(queue)) = Len(queue) - 1 /\ Tail(queue) \in Seq(Batch)
            /\ \A i \in 1..Len(Tail(queue)) : Tail(queue)[i] = queue[i + 1]
        BY <1>1, HeadTailProperties
      <4>2. DOMAIN queue = 1..Len(queue) /\ DOMAIN Tail(queue) = 1..Len(Tail(queue)) /\ Len(queue) \in Nat
        BY <1>1, <4>1, LenProperties
      <4>3. ASSUME NEW i \in DOMAIN queue, i # 1 PROVE \E j \in DOMAIN queue' : queue'[j] = queue[i]
        <5>1. i - 1 \in 1..Len(Tail(queue)) /\ (i - 1) + 1 = i
          BY <4>1, <4>2, <4>3
        <5>2. i - 1 \in DOMAIN queue' /\ queue'[i - 1] = queue[i]
          BY <3>1, <4>1, <4>2, <5>1
        <5> QED
          BY <5>2
      <4> QED
        BY <4>3
    <3>6. Range(rest) = {}
      BY <2>2 DEF Range
    <3>7. \A i \in DOMAIN queue : \A r \in Range(queue[i].rows) :
            r \in QueuedRows(queue)' \/ r \in Range(inflight) \/ r \in cut
      <4>1. ASSUME NEW i \in DOMAIN queue, NEW r \in Range(queue[i].rows)
            PROVE  r \in QueuedRows(queue)' \/ r \in Range(inflight) \/ r \in cut
        <5>1. CASE i = 1
          BY <1>7, <3>6, <5>1
        <5>2. CASE i # 1
          BY <3>5, <5>2 DEF QueuedRows
        <5> QED
          BY <5>1, <5>2
      <4> QED
        BY <4>1
    <3>8. \A s \in DOMAIN segments \ Owned(queue) :
            s \in DOMAIN segments' \ Owned(queue)' /\ segments'[s] = segments[s]
      BY <1>1, <3>2, <3>3 DEF Owned
    <3>9. \A r \in Safe(pendingRows, queue) : r \in Safe(pendingRows, queue)' \/ r \in cut
      <4>1. \A r \in QueuedRows(queue) : r \in QueuedRows(queue)' \/ r \in Range(inflight) \/ r \in cut
        BY <3>7 DEF QueuedRows
      <4> QED
        BY <1>2, <3>8, <4>1 DEF Safe
    <3> QED
      BY <3>4, <3>9
  <2> QED
    BY <2>1, <2>2
<1>10. Overtaken(queue)' = {}
  BY <1>2 DEF Overtaken
<1>11. Doomed(pendingRows, queue, pushed)' \subseteq (D \ Range(inflight)) \cup cut
  <2>1. \A r \in Range(inflight) : r \in Safe(pendingRows, queue)'
    BY <1>2 DEF Safe
  <2> QED
    BY <1>2, <1>9, <1>10, <2>1 DEF Doomed, D
<1>12. IsFiniteSet(cut) /\ IsFiniteSet(lost) /\ Cardinality(cut) <= Cardinality(lost)
  <2>1. /\ Distinct(inflight) /\ \A k \in DOMAIN A : A[k] \in Range(inflight) => k <= Len(inflight)
    BY <1>1, <1>4 DEF Tidy
  <2> HIDE DEF A
  <2> QED
    BY <1>1, <2>1, CutShort DEF cut
<1>13. lost \subseteq D /\ lost \subseteq Range(inflight)
  BY <1>1 DEF D, Doomed, Overtaken
<1>14. IsFiniteSet(D) /\ Cardinality(D) \in Nat
  BY <1>1, DoomedFinite DEF D
<1>15. Cardinality(Doomed(pendingRows, queue, pushed)') <= Cardinality(D)
  <2> HIDE DEF lost
  <2> QED
    BY <1>11, <1>12, <1>13, <1>14, NoMoreDoomed
<1>16. Cardinality(Doomed(pendingRows, queue, pushed)') \in Nat
  <2>1. TypeOK' /\ pushed' \in 0..MaxRows
    BY DEF WriterInv, TypeOK
  <2>2. IsFiniteSet((D \ Range(inflight)) \cup cut)
    BY <1>12, <1>14, FS_Difference, FS_Union
  <2>3. Doomed(pendingRows, queue, pushed)' \in SUBSET ((D \ Range(inflight)) \cup cut)
    BY <1>11
  <2>4. IsFiniteSet(Doomed(pendingRows, queue, pushed)')
    BY <2>2, <2>3, FS_Subset
  <2> QED
    BY <2>4, FS_CardinalityType
<1> QED
  BY <1>1, <1>4, <1>9, <1>14, <1>15, <1>16


LEMMA WriteFailsLoss ==
  ASSUME LossInv, WriterInv', WriteFails
  PROVE  LossInv'
<1>1. /\ up /\ flushing /\ queue \in Seq(Batch) /\ queue # <<>> /\ 1 \in DOMAIN queue
  BY SliceType DEF WriteFails, LossInv, WriterInv, TypeOK, Shaped
<1>2. /\ flushing' = FALSE /\ db \subseteq db'
      /\ UNCHANGED <<up, pendingRows, pendingFile, segments, walFails, dropped, pushed>>
  BY DEF WriteFails, files
<1>3. ASSUME walFails = 0
      PROVE  /\ Tidy(pendingRows, queue)'
             /\ Doomed(pendingRows, queue, pushed)' \subseteq Doomed(pendingRows, queue, pushed)
  <2>1. Tidy(pendingRows, queue) /\ Filed(pendingRows, queue, pendingFile)
    BY <1>3 DEF LossInv, Counted, WriterInv, Kept
  <2>2. CASE queue' = queue
    <3>1. Tidy(pendingRows, queue)'
      BY <1>2, <2>1, <2>2 DEF Tidy
    <3>2. \A r \in Safe(pendingRows, queue) : r \in Safe(pendingRows, queue)'
      BY <1>2, <2>2 DEF Safe
    <3>3. Overtaken(queue)' = {}
      BY <1>2 DEF Overtaken
    <3> QED
      BY <1>2, <3>1, <3>2, <3>3, Saved
  <2>3. CASE queue' = Tail(queue)
    <3>1. \A i \in DOMAIN queue' : i + 1 \in DOMAIN queue \ {1} /\ queue'[i] = queue[i + 1]
      BY <1>1, <2>3, HeadTaken
    <3>2. Tidy(pendingRows, queue)'
      BY <1>2, <2>1, <3>1 DEF Tidy
    <3>3. \A i \in DOMAIN queue : i = 1 \/ \E j \in DOMAIN queue' : queue'[j] = queue[i]
      <4>1. /\ Len(Tail(queue)) = Len(queue) - 1 /\ Tail(queue) \in Seq(Batch)
            /\ \A i \in 1..Len(Tail(queue)) : Tail(queue)[i] = queue[i + 1]
        BY <1>1, HeadTailProperties
      <4>2. DOMAIN queue = 1..Len(queue) /\ DOMAIN Tail(queue) = 1..Len(Tail(queue)) /\ Len(queue) \in Nat
        BY <1>1, <4>1, LenProperties
      <4>3. ASSUME NEW i \in DOMAIN queue, i # 1 PROVE \E j \in DOMAIN queue' : queue'[j] = queue[i]
        <5>1. i - 1 \in 1..Len(Tail(queue)) /\ (i - 1) + 1 = i
          BY <4>1, <4>2, <4>3
        <5>2. i - 1 \in DOMAIN queue' /\ queue'[i - 1] = queue[i]
          BY <2>3, <4>1, <4>2, <5>1
        <5> QED
          BY <5>2
      <4> QED
        BY <4>3
    <3>4. /\ queue[1].walFile \in DOMAIN segments /\ queue[1].walFile \notin Owned(queue)'
          /\ Range(queue[1].rows) \subseteq Range(segments[queue[1].walFile])
      <4>1. \A i \in DOMAIN queue \ {1} : queue[i].walFile # queue[1].walFile
        BY <1>1, <2>1 DEF Filed
      <4>2. queue[1].walFile \notin Owned(queue)'
        BY <3>1, <4>1 DEF Owned
      <4> QED
        BY <1>1, <2>1, <4>2 DEF Filed
    <3>5. Owned(queue)' \subseteq Owned(queue)
      BY <3>1 DEF Owned
    <3>6. \A r \in QueuedRows(queue) : r \in QueuedRows(queue)' \/ r \in Range(queue[1].rows)
      BY <3>3 DEF QueuedRows
    <3>7. \A r \in Safe(pendingRows, queue) : r \in Safe(pendingRows, queue)'
      BY <1>2, <3>4, <3>5, <3>6 DEF Safe
    <3>8. Overtaken(queue)' = {}
      BY <1>2 DEF Overtaken
    <3> QED
      BY <1>2, <3>2, <3>7, <3>8, Saved
  <2>4. queue' = queue \/ queue' = Tail(queue)
    BY DEF WriteFails
  <2> QED
    BY <2>2, <2>3, <2>4
<1> QED
  BY <1>2, <1>3, NoneDoomed

---------------------------------------------------------------------------
LEMMA ReplayOkLoss ==
  ASSUME LossInv, WriterInv', ReplayOk
  PROVE  LossInv'
<1> DEFINE s == Oldest(replay)
<1>1. s \in DOMAIN segments
  BY Replayed DEF ReplayOk, LossInv
<1>2. /\ db' = db \cup Range(segments[s]) /\ segments' = Unlink(s)
      /\ UNCHANGED <<up, pendingRows, queue, flushing, inflight, pendingFile, walFails, dropped, pushed>>
  BY DEF ReplayOk, memory
<1> HIDE DEF s
<1>3. /\ DOMAIN segments' = DOMAIN segments \ {s}
      /\ \A t \in DOMAIN segments' : segments'[t] = segments[t]
  BY <1>2, Unlinked
<1>4. ASSUME walFails = 0 PROVE Tidy(pendingRows, queue)'
  BY <1>2, <1>4 DEF LossInv, Counted, Tidy
<1>5. Overtaken(queue)' = Overtaken(queue)
  BY <1>2 DEF Overtaken
<1>6. \A r \in Safe(pendingRows, queue) : r \in Safe(pendingRows, queue)'
  BY <1>2, <1>3 DEF Safe
<1> QED
  BY <1>2, <1>4, <1>5, <1>6, Saved, NoneDoomed

\* Steps that leave memory and files alone and add to the table.
LEMMA OnlyTableLoss ==
  ASSUME LossInv, WriterInv', db \subseteq db',
         UNCHANGED <<up, pendingRows, queue, flushing, inflight, pendingFile, segments, walFails,
                     dropped, pushed>>
  PROVE  LossInv'
<1>1. ASSUME walFails = 0 PROVE Tidy(pendingRows, queue)'
  BY <1>1 DEF LossInv, Counted, Tidy
<1>2. Overtaken(queue)' = Overtaken(queue)
  BY DEF Overtaken
<1>3. \A r \in Safe(pendingRows, queue) : r \in Safe(pendingRows, queue)'
  BY DEF Safe
<1> QED
  BY <1>1, <1>2, <1>3, Saved, NoneDoomed

\* A process that ends leaves every row it had in the row's file.
LEMMA StopLoss ==
  ASSUME LossInv, WriterInv', Stop
  PROVE  LossInv'
<1>1. /\ up /\ up' = FALSE /\ pendingRows' = <<>> /\ queue' = <<>> /\ flushing' = FALSE /\ db \subseteq db'
      /\ UNCHANGED <<pendingFile, segments, walFails, dropped, pushed>>
  BY DEF Stop, files
<1>2. DOMAIN pendingRows' = {} /\ DOMAIN queue' = {}
  BY <1>1
<1>3. Tidy(pendingRows, queue)'
  BY <1>1, <1>2 DEF Tidy, Distinct
<1>4. Overtaken(queue)' = {}
  BY <1>1 DEF Overtaken
<1>5. ASSUME walFails = 0
      PROVE  \A r \in Safe(pendingRows, queue) : r \in Safe(pendingRows, queue)'
  <2>1. Filed(pendingRows, queue, pendingFile)
    BY <1>5 DEF LossInv, WriterInv, Kept
  <2>2. Owned(queue)' = {}
    BY <1>2 DEF Owned
  <2>3. Safe(pendingRows, queue)' =
          db' \cup Range(pendingRows') \cup QueuedRows(queue')
            \cup (UNION {Range(segments[s]) : s \in DOMAIN segments}) \cup Range(pendingFile)
    BY <1>1, <2>2 DEF Safe
  <2>4. \A i \in DOMAIN queue : Range(queue[i].rows) \subseteq
                                  UNION {Range(segments[s]) : s \in DOMAIN segments}
    BY <2>1 DEF Filed
  <2> QED
    BY <1>1, <2>1, <2>3, <2>4 DEF Filed, Safe, QueuedRows
<1> QED
  BY <1>1, <1>3, <1>4, <1>5, Saved, NoneDoomed

LEMMA BootLoss ==
  ASSUME LossInv, WriterInv', Boot
  PROVE  LossInv'
<1>1. /\ ~up /\ up' = TRUE
      /\ UNCHANGED <<pendingRows, queue, flushing, inflight, walFails, db, dropped, pushed>>
  BY DEF Boot, memory, files
<1>2. queue = <<>> /\ TypeOK /\ pendingFile \in Seq(Row)
  BY DEF LossInv, WriterInv, Boot, Shaped, TypeOK
<1>3. ASSUME walFails = 0 PROVE Tidy(pendingRows, queue)'
  BY <1>1, <1>3 DEF LossInv, Counted, Tidy
<1>4. Overtaken(queue)' = Overtaken(queue)
  BY <1>1 DEF Overtaken
<1>5. Owned(queue)' = {} /\ Owned(queue) = {}
  BY <1>1, <1>2 DEF Owned
<1>6. \A r \in Safe(pendingRows, queue) : r \in Safe(pendingRows, queue)'
  <2>1. CASE pendingFile # <<>>
    <3>1. segments' = AddSegment(pendingFile)
      BY <2>1 DEF Boot
    <3>2. /\ walSeq + 1 \notin DOMAIN segments
          /\ DOMAIN segments' = DOMAIN segments \cup {walSeq + 1}
          /\ segments'[walSeq + 1] = pendingFile
          /\ \A t \in DOMAIN segments : segments'[t] = segments[t]
      BY <1>2, <3>1, AddedSegment
    <3>3. Range(pendingFile) \subseteq UNION {Range(segments'[t]) : t \in DOMAIN segments'}
      BY <3>2
    <3>4. (UNION {Range(segments[t]) : t \in DOMAIN segments})
            \subseteq UNION {Range(segments'[t]) : t \in DOMAIN segments'}
      BY <3>2
    <3> QED
      BY <1>1, <1>5, <3>3, <3>4 DEF Safe
  <2>2. CASE pendingFile = <<>>
    <3>1. Range(pendingFile) = {} /\ segments' = segments
      BY <2>2 DEF Range, Boot, files
    <3> QED
      BY <1>1, <1>5, <3>1 DEF Safe
  <2> QED
    BY <2>1, <2>2
<1> QED
  BY <1>1, <1>3, <1>4, <1>6, Saved, NoneDoomed

LEMMA LossNext ==
  ASSUME LossInv, [Next]_vars
  PROVE  LossInv'
<1>1. WriterInv'
  BY WriterNext DEF LossInv
<1>2. CASE FlushTimer
  BY <1>1, <1>2, FlushLoss DEF FlushTimer
<1>3. CASE DrainFlush
  BY <1>1, <1>3, FlushLoss DEF DrainFlush
<1>4. CASE BackoffOver
  BY <1>1, <1>4, OnlyTableLoss DEF BackoffOver, files
<1>5. CASE Signal
  BY <1>1, <1>5, OnlyTableLoss DEF Signal, memory, files
<1>6. CASE ReplayFails
  BY <1>1, <1>6, OnlyTableLoss DEF ReplayFails, memory, files
<1>7. CASE UNCHANGED vars
  BY <1>1, <1>7, OnlyTableLoss DEF vars, memory, files
<1> QED
  BY <1>1, <1>2, <1>3, <1>4, <1>5, <1>6, <1>7, PushLoss, WriteOkLoss, WriteFailsLoss, ReplayOkLoss,
     StopLoss, BootLoss
  DEF Next

(***************************************************************************)
(* "Count them so the loss is observable" (index.ts:140): while the disk     *)
(* works, no more rows have vanished from the table, memory and files than   *)
(* stats.dropped counts - although a displaced row's loss comes later, when   *)
(* its segment is unlinked, and a displaced row of the insert under way makes *)
(* that insert cut a row which nothing counted.                               *)
(***************************************************************************)
THEOREM WriterLossCounted == Spec => []LossCounted
<1>1. Init => LossInv
  BY LossInit
<1>2. LossInv /\ [Next]_vars => LossInv'
  BY LossNext
<1>3. ASSUME LossInv PROVE LossCounted
  <2> DEFINE gone == (1..pushed) \ (db \cup InMemory \cup OnDisk)
             D == Doomed(pendingRows, queue, pushed)
  <2>1. TypeOK /\ pushed \in 0..MaxRows /\ dropped \in Nat
    BY <1>3 DEF LossInv, WriterInv, TypeOK
  <2>2. ASSUME walFails = 0 PROVE Cardinality(gone) <= dropped
    <3>1. Safe(pendingRows, queue) \subseteq db \cup InMemory \cup OnDisk
      BY DEF Safe, InMemory, OnDisk
    <3>2. gone \in SUBSET D
      BY <3>1 DEF Doomed
    <3>3. IsFiniteSet(D) /\ Cardinality(D) \in Nat
      BY <2>1, DoomedFinite
    <3>4. Cardinality(D) <= dropped
      BY <1>3, <2>2 DEF LossInv, Counted
    <3> HIDE DEF gone, D
    <3>5. Cardinality(gone) <= Cardinality(D) /\ Cardinality(gone) \in Nat
      BY <3>2, <3>3, FS_Subset, FS_CardinalityType
    <3> QED
      BY <2>1, <3>3, <3>4, <3>5
  <2> QED
    BY <2>2 DEF LossCounted
<1> QED
  BY <1>1, <1>2, <1>3, PTL DEF Spec



\* The least of a set of numbers, and the last of a finite one.
LEMMA MinIs ==
  ASSUME NEW S, S \subseteq Nat, S # {}
  PROVE  R!Min(S) \in S /\ \A y \in S : R!Min(S) <= y
BY LeastNumber DEF R!Min

LEMMA MaxIs ==
  ASSUME NEW S, S \subseteq Int, IsFiniteSet(S), S # {}
  PROVE  R!Max(S) \in S /\ \A y \in S : R!Max(S) >= y
<1> DEFINE Above(x) == {y \in S : y > x}
           Sizes == {Cardinality(Above(x)) : x \in S}
<1>1. \A x \in S : IsFiniteSet(Above(x)) /\ Cardinality(Above(x)) \in Nat
  <2>1. \A x \in S : Above(x) \in SUBSET S
    OBVIOUS
  <2>2. \A x \in S : IsFiniteSet(Above(x))
    BY <2>1, FS_Subset
  <2> QED
    BY <2>2, FS_CardinalityType
<1>2. Sizes \subseteq Nat /\ Sizes # {}
  BY <1>1
<1>3. PICK x \in S : \A y \in S : Cardinality(Above(x)) <= Cardinality(Above(y))
  <2> HIDE DEF Sizes
  <2>1. PICK n \in Sizes : \A m \in Sizes : n <= m
    BY <1>2, LeastNumber
  <2> QED
    BY <2>1 DEF Sizes
<1>4. ASSUME NEW y \in S, y > x PROVE FALSE
  <2>1. Above(y) \subseteq Above(x) /\ Above(y) # Above(x)
    <3>1. y \in Above(x) /\ y \notin Above(y)
      BY <1>4
    <3>2. \A z \in S : z > y => z > x
      BY <1>4
    <3> QED
      BY <3>1, <3>2
  <2>2. Cardinality(Above(y)) < Cardinality(Above(x))
    BY <1>1, <2>1, FS_Subset
  <2> QED
    BY <1>1, <1>3, <2>2
<1>5. \A y \in S : x >= y
  BY <1>4
<1> QED
  BY <1>5 DEF R!Max

---------------------------------------------------------------------------
\* The overrides are finitely many, in the words of either module.
LEMMA OverridesFinite ==
  ASSUME R!RetentionAssumption
  PROVE  IsFiniteSet(Override \cup {RawDays})
<1>1. IsFiniteSet(Override) <=> R!IsFiniteSet(Override)
  BY Zenon DEF IsFiniteSet, R!IsFiniteSet
<1>2. IsFiniteSet(Override)
  BY <1>1 DEF R!RetentionAssumption
<1> QED
  BY <1>2, FS_AddElement

\* A tick's plan.
PlanState ==
  [pc : {"idle", "plan", "oldest", "roll", "global", "default", "orgs"}, at : R!Slot,
   days : R!TelemetryRawDays, hour : 0..LastSlot + 1, todo : SUBSET Tenant]

LEMMA AsksIs ==
  ASSUME R!RetentionAssumption, NEW p, p.days \in R!TelemetryRawDays, NEW o \in Tenant
  PROVE  /\ R!Asks(p, o) \in Override \cup {RawDays} /\ R!Asks(p, o) \in Nat
         /\ o \notin R!Overrides(p) => R!Asks(p, o) = RawDays
BY DEF R!RetentionAssumption, R!TelemetryRawDays, R!Asks, R!Overrides

\* Nobody is asked to keep more than the longest.
LEMMA LongestIs ==
  ASSUME R!RetentionAssumption, NEW p, p.days \in R!TelemetryRawDays
  PROVE  R!Longest(p) \in Nat /\ \A o \in Tenant : R!Asks(p, o) <= R!Longest(p)
<1> DEFINE S == {RawDays} \cup {R!Asks(p, o) : o \in R!Overrides(p)}
<1>1. S \in SUBSET (Override \cup {RawDays})
  BY AsksIs DEF R!Overrides
<1>2. IsFiniteSet(Override \cup {RawDays}) /\ Override \cup {RawDays} \subseteq Nat
  BY OverridesFinite DEF R!RetentionAssumption
<1>3. IsFiniteSet(S) /\ S \subseteq Int /\ RawDays \in S
  BY <1>1, <1>2, FS_Subset
<1>4. R!Longest(p) = R!Max(S)
  BY DEF R!Longest
<1>5. \A o \in Tenant : R!Asks(p, o) \in S
  BY AsksIs
<1> HIDE DEF S
<1>6. R!Max(S) \in S /\ \A y \in S : R!Max(S) >= y
  BY <1>3, MaxIs
<1> QED
  BY <1>1, <1>2, <1>4, <1>5, <1>6

\* The roll-up reaches as far as any pass will, and not into the future.
LEMMA RollupReaches ==
  ASSUME R!RetentionAssumption, NEW p, p.days \in R!TelemetryRawDays, p.at \in Nat
  PROVE  /\ R!RollupUpTo(p) \in Int /\ R!RollupUpTo(p) <= p.at
         /\ R!GlobalCutoff(p) <= R!RollupUpTo(p) /\ R!DefaultCutoff(p) <= R!RollupUpTo(p)
         /\ \A o \in R!PerOrg(p) : R!Cutoff(p, o) <= R!RollupUpTo(p)
         /\ R!GlobalCutoff(p) \in Int /\ R!DefaultCutoff(p) \in Int
         /\ \A o \in Tenant : R!Cutoff(p, o) \in Int
<1> DEFINE S == {R!GlobalCutoff(p), R!DefaultCutoff(p)} \cup {R!Cutoff(p, o) : o \in R!PerOrg(p)}
           T == {p.at - d : d \in Override \cup {RawDays}}
<1>0. RawDays \in Nat /\ Override \subseteq Nat
  BY DEF R!RetentionAssumption
<1>1. \A o \in R!PerOrg(p) : o \in Tenant
  BY DEF R!PerOrg, R!Overrides
<1>2. /\ R!GlobalCutoff(p) \in Int /\ R!GlobalCutoff(p) <= p.at
      /\ R!DefaultCutoff(p) \in Int /\ R!DefaultCutoff(p) <= p.at
  BY <1>0, LongestIs DEF R!GlobalCutoff, R!DefaultCutoff
<1>3. \A o \in Tenant : R!Cutoff(p, o) \in Int /\ R!Cutoff(p, o) <= p.at /\ R!Cutoff(p, o) \in T
  BY AsksIs DEF R!Cutoff
<1>4. IsFiniteSet(T)
  <2>1. IsFiniteSet(Override \cup {RawDays})
    BY OverridesFinite
  <2>2. [d \in Override \cup {RawDays} |-> p.at - d] \in Surjection(Override \cup {RawDays}, T)
    BY DEF Surjection
  <2> QED
    BY <2>1, <2>2, FS_Surjection
<1>5. IsFiniteSet(S)
  <2>1. S \in SUBSET (T \cup {R!GlobalCutoff(p), R!DefaultCutoff(p)})
    BY <1>1, <1>3
  <2>2. IsFiniteSet({R!GlobalCutoff(p), R!DefaultCutoff(p)})
    <3>1. IsFiniteSet({R!GlobalCutoff(p)}) /\ IsFiniteSet({R!DefaultCutoff(p)})
      BY FS_Singleton
    <3>2. IsFiniteSet({R!GlobalCutoff(p)} \cup {R!DefaultCutoff(p)})
      BY <3>1, FS_Union
    <3>3. {R!GlobalCutoff(p), R!DefaultCutoff(p)} = {R!GlobalCutoff(p)} \cup {R!DefaultCutoff(p)}
      OBVIOUS
    <3> QED
      BY ONLY <3>2, <3>3
  <2>3. IsFiniteSet(T \cup {R!GlobalCutoff(p), R!DefaultCutoff(p)})
    BY <1>4, <2>2, FS_Union
  <2> QED
    BY <2>1, <2>3, FS_Subset
<1>6. S \subseteq Int /\ S # {} /\ \A x \in S : x <= p.at
  BY <1>1, <1>2, <1>3
<1>7. R!RollupUpTo(p) = R!Max(S)
  BY DEF R!RollupUpTo
<1>8. /\ R!GlobalCutoff(p) \in S /\ R!DefaultCutoff(p) \in S
      /\ \A o \in R!PerOrg(p) : R!Cutoff(p, o) \in S
  OBVIOUS
<1> HIDE DEF S, T
<1>9. R!Max(S) \in S /\ \A y \in S : R!Max(S) >= y
  BY <1>5, <1>6, MaxIs
<1> QED
  BY <1>1, <1>2, <1>3, <1>6, <1>7, <1>8, <1>9

\* What a tick deletes follows from the overrides it read and when.
LEMMA SamePlan ==
  ASSUME NEW p, NEW q, q.days = p.days, q.at = p.at
  PROVE  /\ \A o \in Tenant : R!Asks(q, o) = R!Asks(p, o) /\ R!Cutoff(q, o) = R!Cutoff(p, o)
         /\ R!PerOrg(q) = R!PerOrg(p) /\ R!RollupUpTo(q) = R!RollupUpTo(p)
<1>1. \A o : R!Asks(q, o) = R!Asks(p, o) /\ R!Cutoff(q, o) = R!Cutoff(p, o)
  BY DEF R!Asks, R!Cutoff
<1>2. R!Overrides(q) = R!Overrides(p)
  BY DEF R!Overrides
<1>3. R!Longest(q) = R!Longest(p)
  BY <1>1, <1>2 DEF R!Longest
<1>4. R!PerOrg(q) = R!PerOrg(p)
  BY <1>1, <1>2, <1>3 DEF R!PerOrg
<1>5. R!GlobalCutoff(q) = R!GlobalCutoff(p) /\ R!DefaultCutoff(q) = R!DefaultCutoff(p)
  BY <1>3 DEF R!GlobalCutoff, R!DefaultCutoff
<1>6. {R!Cutoff(q, o) : o \in R!PerOrg(q)} = {R!Cutoff(p, o) : o \in R!PerOrg(p)}
  BY <1>1, <1>4
<1>7. R!RollupUpTo(q) = R!RollupUpTo(p)
  BY <1>5, <1>6 DEF R!RollupUpTo
<1> QED
  BY <1>1, <1>4, <1>7

---------------------------------------------------------------------------
KeepTyped ==
  /\ now \in R!Slot
  /\ days \in R!TelemetryRawDays
  /\ asked \in [Tenant -> Override \cup {RawDays}]
  /\ raw \in R!Samples /\ hourly \in R!Samples /\ rolled \in R!Samples
  /\ job \in [Job -> PlanState]
  /\ \A o \in Tenant : asked[o] <= R!Keeps(o)

(***************************************************************************)
(* A tick is of now or earlier, and the plan it read is no more generous     *)
(* with anybody's samples than the shortest retention its owner has asked    *)
(* for.  From hour to hour, and from then on, what is up to its roll-up's    *)
(* reach is counted - no matter who rolled it up, and who deleted since.     *)
(***************************************************************************)
PlanSound(j) ==
  /\ job[j].at <= now
  /\ job[j].pc \notin {"idle", "plan"} => \A o \in Tenant : asked[o] <= R!Asks(job[j], o)
  /\ job[j].pc = "orgs" => job[j].todo \subseteq R!PerOrg(job[j])
UpToHere(j, c) == \A o \in Tenant : \A t \in Nat : t < c /\ t < R!RollupUpTo(job[j]) => t \in rolled[o]
RolledUpTo(j) ==
  /\ job[j].pc = "roll" => UpToHere(j, job[j].hour * HourLen)
  /\ job[j].pc \in {"global", "default", "orgs"} => UpToHere(j, R!RollupUpTo(job[j]))
RetentionInv ==
  /\ KeepTyped
  /\ \A j \in Job : PlanSound(j) /\ RolledUpTo(j)
  /\ R!RolledFirst

LEMMA NumbersAre ==
  ASSUME R!RetentionAssumption
  PROVE  /\ HourLen \in Nat /\ HourLen >= 1 /\ RawDays \in Nat /\ Override \subseteq Nat
         /\ LastSlot \in Nat /\ None \notin Nat
BY DEF R!RetentionAssumption

LEMMA RetentionInit ==
  ASSUME R!RetentionAssumption, R!Init
  PROVE  RetentionInv
<1>1. KeepTyped
  <2>1. now \in R!Slot /\ \A t \in 0..FirstSlot : t \in R!Slot
    BY DEF R!RetentionAssumption, R!Init, R!Slot
  <2>2. days \in R!TelemetryRawDays
    BY DEF R!RetentionAssumption, R!Init, R!TelemetryRawDays
  <2>3. asked \in [Tenant -> Override \cup {RawDays}] /\ \A o \in Tenant : asked[o] <= R!Keeps(o)
    BY <2>2, NumbersAre DEF R!Init, R!TelemetryRawDays, R!Keeps
  <2>4. raw \in R!Samples /\ hourly \in R!Samples /\ rolled \in R!Samples
    BY <2>1 DEF R!Init, R!Samples
  <2>5. R!Asleep \in PlanState
    BY DEF R!RetentionAssumption, R!Asleep, PlanState, R!Slot, R!TelemetryRawDays
  <2>6. job \in [Job -> PlanState]
    BY <2>5 DEF R!Init
  <2> QED
    BY <2>1, <2>2, <2>3, <2>4, <2>6 DEF KeepTyped
<1>2. \A j \in Job : PlanSound(j) /\ RolledUpTo(j)
  BY DEF R!RetentionAssumption, R!Init, PlanSound, RolledUpTo, R!Asleep
<1>3. R!RolledFirst
  BY DEF R!RetentionAssumption, R!Init, R!RolledFirst
<1> QED
  BY <1>1, <1>2, <1>3 DEF RetentionInv

\* A statement that rolls an hour up counts all that is in the table of it.
LEMMA RollUpCounts ==
  ASSUME KeepTyped, NEW h \in Int, R!RollUp(h)
  PROVE  /\ hourly' \in R!Samples /\ rolled' \in R!Samples
         /\ \A o \in Tenant : rolled[o] \subseteq rolled'[o]
         /\ \A o \in Tenant : raw[o] \cap R!Hour(h) \subseteq rolled'[o]
<1>1. hourly' \in R!Samples
  BY DEF R!RollUp, R!RolledUp, KeepTyped, R!Samples
<1>2. rolled' = [o \in Tenant |-> rolled[o] \cup hourly'[o]]
  BY DEF R!RollUp
<1>3. rolled' \in R!Samples
  BY <1>1, <1>2 DEF KeepTyped, R!Samples
<1>4. \A o \in Tenant : raw[o] \cap R!Hour(h) \subseteq hourly'[o]
  BY DEF R!RollUp, R!RolledUp
<1> QED
  BY <1>1, <1>2, <1>3, <1>4

\* A tick that does not move stays sound while time passes and rows are counted.
LEMMA OthersSound ==
  ASSUME RetentionInv, NEW j \in Job, job'[j] = job[j], now' \in Nat, now <= now',
         rolled' \in R!Samples, \A o \in Tenant : rolled[o] \subseteq rolled'[o],
         R!RetentionAssumption, asked' = asked
  PROVE  PlanSound(j)' /\ RolledUpTo(j)'
<1>1. job[j] \in PlanState /\ now \in Nat
  BY DEF RetentionInv, KeepTyped, R!Slot
<1>2. job[j].at \in Nat
  BY <1>1 DEF PlanState, R!Slot
<1>3. PlanSound(j) /\ RolledUpTo(j)
  BY DEF RetentionInv
<1>4. /\ \A o \in Tenant : R!Asks(job'[j], o) = R!Asks(job[j], o)
      /\ R!PerOrg(job'[j]) = R!PerOrg(job[j]) /\ R!RollupUpTo(job'[j]) = R!RollupUpTo(job[j])
  OBVIOUS
<1>5. PlanSound(j)'
  BY <1>1, <1>2, <1>3, <1>4 DEF PlanSound
<1>6. RolledUpTo(j)'
  BY <1>3, <1>4 DEF RolledUpTo, UpToHere
<1> QED
  BY <1>5, <1>6

\* One tick moves, to a sound state: the others are sound as they were.
LEMMA TickMoves ==
  ASSUME R!RetentionAssumption, RetentionInv, NEW j \in Job, NEW state \in PlanState,
         job' = [job EXCEPT ![j] = state],
         UNCHANGED <<now, days, asked>>,
         raw' \in R!Samples, hourly' \in R!Samples, rolled' \in R!Samples,
         \A o \in Tenant : rolled[o] \subseteq rolled'[o],
         PlanSound(j)', RolledUpTo(j)', R!RolledFirst'
  PROVE  RetentionInv'
<1>1. job' \in [Job -> PlanState] /\ \A i \in Job \ {j} : job'[i] = job[i]
  BY DEF RetentionInv, KeepTyped
<1>2. now \in Nat /\ now' = now /\ asked' = asked
  BY DEF RetentionInv, KeepTyped, R!Slot
<1>3. \A i \in Job \ {j} : PlanSound(i)' /\ RolledUpTo(i)'
  BY <1>1, <1>2, OthersSound
<1>4. KeepTyped'
  BY <1>1 DEF RetentionInv, KeepTyped, R!Keeps
<1> QED
  BY <1>3, <1>4 DEF RetentionInv

\* What a pass deletes is past its owner's shortest retention, and counted.
Deletable(o, t) == now - t > asked[o] /\ t \in rolled[o]
LEMMA PassSound ==
  ASSUME R!RetentionAssumption, RetentionInv, NEW j \in Job,
         job[j].pc \in {"global", "default", "orgs"}
  PROVE  /\ \A o \in Tenant : \A t \in Nat : t < R!GlobalCutoff(job[j]) => Deletable(o, t)
         /\ \A o \in Tenant : \A t \in Nat :
              job[j].days[o] = None /\ t < R!DefaultCutoff(job[j]) => Deletable(o, t)
         /\ \A o \in R!PerOrg(job[j]) : \A t \in Nat :
              t < R!Cutoff(job[j], o) => Deletable(o, t)
<1> DEFINE p == job[j]
<1>1. p \in PlanState /\ p.at \in Nat /\ p.days \in R!TelemetryRawDays /\ now \in Nat
  BY DEF RetentionInv, KeepTyped, PlanState, R!Slot
<1>2. PlanSound(j) /\ RolledUpTo(j)
  BY DEF RetentionInv
<1>3. p.at <= now /\ \A o \in Tenant : asked[o] <= R!Asks(p, o)
  BY <1>2 DEF PlanSound
<1>4. \A o \in Tenant : \A t \in Nat : t < R!RollupUpTo(p) => t \in rolled[o]
  BY <1>2 DEF RolledUpTo, UpToHere
<1>5. \A o \in Tenant : asked[o] \in Nat
  BY NumbersAre DEF RetentionInv, KeepTyped
<1>6. \A o \in R!PerOrg(p) : o \in Tenant
  BY DEF R!PerOrg, R!Overrides
<1> HIDE DEF p
<1>7. /\ R!Longest(p) \in Nat /\ \A o \in Tenant : R!Asks(p, o) <= R!Longest(p) /\ R!Asks(p, o) \in Nat
      /\ R!GlobalCutoff(p) = p.at - R!Longest(p) /\ R!DefaultCutoff(p) = p.at - RawDays
      /\ \A o \in Tenant : R!Cutoff(p, o) = p.at - R!Asks(p, o)
  BY <1>1, LongestIs, AsksIs DEF R!GlobalCutoff, R!DefaultCutoff, R!Cutoff
<1>8. /\ R!RollupUpTo(p) \in Int
      /\ R!GlobalCutoff(p) <= R!RollupUpTo(p) /\ R!DefaultCutoff(p) <= R!RollupUpTo(p)
      /\ \A o \in R!PerOrg(p) : R!Cutoff(p, o) <= R!RollupUpTo(p)
  BY <1>1, RollupReaches
<1>9. \A o \in Tenant : \A t \in Nat : t < R!GlobalCutoff(p) => Deletable(o, t)
  BY <1>1, <1>3, <1>4, <1>5, <1>7, <1>8 DEF Deletable
<1>10. ASSUME NEW o \in Tenant, NEW t \in Nat, p.days[o] = None, t < R!DefaultCutoff(p)
       PROVE  Deletable(o, t)
  <2>1. R!Asks(p, o) = RawDays /\ RawDays \in Nat
    BY <1>10, NumbersAre DEF R!Asks
  <2> QED
    BY <1>1, <1>3, <1>4, <1>5, <1>7, <1>8, <1>10, <2>1 DEF Deletable
<1>11. ASSUME NEW o \in R!PerOrg(p), NEW t \in Nat, t < R!Cutoff(p, o) PROVE Deletable(o, t)
  BY <1>1, <1>3, <1>4, <1>5, <1>6, <1>7, <1>8, <1>11 DEF Deletable
<1> QED
  BY <1>9, <1>10, <1>11 DEF p

LEMMA BeginSound ==
  ASSUME R!RetentionAssumption, RetentionInv, NEW j \in Job, R!Begin(j)
  PROVE  RetentionInv'
<1> DEFINE state == [R!Asleep EXCEPT !.pc = "plan"]
<1>1. state \in PlanState /\ state.pc = "plan" /\ state.at = 0
  BY DEF R!RetentionAssumption, R!Asleep, PlanState, R!Slot, R!TelemetryRawDays
<1>2. job' = [job EXCEPT ![j] = state] /\ UNCHANGED <<now, days, asked, raw>>
  BY DEF R!Begin
<1> HIDE DEF state
<1>3. now \in Nat /\ now \div HourLen - 1 \in Int
  BY DEF RetentionInv, KeepTyped, R!Slot, R!RetentionAssumption
<1>4. /\ hourly' \in R!Samples /\ rolled' \in R!Samples
      /\ \A o \in Tenant : rolled[o] \subseteq rolled'[o]
  BY <1>3, RollUpCounts DEF R!Begin, RetentionInv
<1>5. job'[j] = state /\ now' = now
  BY <1>2 DEF RetentionInv, KeepTyped
<1>6. PlanSound(j)' /\ RolledUpTo(j)'
  BY <1>1, <1>3, <1>5 DEF PlanSound, RolledUpTo
<1>7. R!RolledFirst'
  BY <1>2, <1>4 DEF RetentionInv, R!RolledFirst
<1>8. raw' \in R!Samples
  BY <1>2 DEF RetentionInv, KeepTyped
<1> QED
  BY <1>1, <1>2, <1>4, <1>6, <1>7, <1>8, TickMoves

LEMMA PlanStepSound ==
  ASSUME R!RetentionAssumption, RetentionInv, NEW j \in Job, R!Plan(j)
  PROVE  RetentionInv'
<1> DEFINE state == [R!Asleep EXCEPT !.pc = "oldest", !.at = now, !.days = days]
<1>1. /\ state \in PlanState /\ state.pc = "oldest" /\ state.at = now /\ state.days = days
  <2>1. R!Asleep \in PlanState
    BY DEF R!RetentionAssumption, R!Asleep, PlanState, R!Slot, R!TelemetryRawDays
  <2>2. now \in R!Slot /\ days \in R!TelemetryRawDays
    BY DEF RetentionInv, KeepTyped
  <2> QED
    BY <2>1, <2>2 DEF PlanState
<1>2. job' = [job EXCEPT ![j] = state] /\ UNCHANGED <<now, days, asked, raw, hourly, rolled>>
  BY DEF R!Plan
<1> HIDE DEF state
<1>3. job'[j] = state /\ now' = now /\ now \in Nat /\ asked' = asked
  BY <1>2 DEF RetentionInv, KeepTyped, R!Slot
<1>4. \A o \in Tenant : asked[o] <= R!Asks(state, o)
  BY <1>1 DEF RetentionInv, KeepTyped, R!Keeps, R!Asks
<1>5. PlanSound(j)' /\ RolledUpTo(j)'
  BY <1>1, <1>3, <1>4 DEF PlanSound, RolledUpTo
<1>6. R!RolledFirst' /\ raw' \in R!Samples /\ hourly' \in R!Samples /\ rolled' \in R!Samples
  BY <1>2 DEF RetentionInv, KeepTyped, R!RolledFirst
<1> QED
  BY <1>1, <1>2, <1>5, <1>6, TickMoves

\* A tick that keeps its plan keeps what its plan is good for.
LEMMA PlanKept ==
  ASSUME RetentionInv, NEW j \in Job, NEW state \in PlanState,
         state.at = job[j].at, state.days = job[j].days, job[j].pc \notin {"idle", "plan"},
         job' = [job EXCEPT ![j] = state], UNCHANGED <<now, asked>>,
         state.pc = "orgs" => state.todo \subseteq R!PerOrg(job[j])
  PROVE  PlanSound(j)' /\ job'[j] = state /\ R!RollupUpTo(job'[j]) = R!RollupUpTo(job[j])
<1>1. job'[j] = state
  BY DEF RetentionInv, KeepTyped
<1>2. /\ \A o \in Tenant : R!Asks(state, o) = R!Asks(job[j], o)
      /\ R!PerOrg(state) = R!PerOrg(job[j]) /\ R!RollupUpTo(state) = R!RollupUpTo(job[j])
  BY SamePlan
<1>3. PlanSound(j)
  BY DEF RetentionInv
<1> QED
  BY <1>1, <1>2, <1>3 DEF PlanSound

LEMMA FindOldestSound ==
  ASSUME R!RetentionAssumption, RetentionInv, NEW j \in Job, R!FindOldest(j)
  PROVE  RetentionInv'
<1> DEFINE p == job[j]
           doomed == (UNION {raw[o] : o \in Tenant}) \cap R!Before(R!RollupUpTo(job[j]))
           state == [p EXCEPT !.pc = IF doomed = {} THEN "global" ELSE "roll",
                              !.hour = IF doomed = {} THEN 0 ELSE R!Min(doomed) \div HourLen]
<1>1. p \in PlanState /\ p.at \in 0..LastSlot /\ p.days \in R!TelemetryRawDays /\ now \in Nat
  BY DEF RetentionInv, KeepTyped, PlanState, R!Slot
<1>2. PlanSound(j) /\ R!RolledFirst
  BY DEF RetentionInv
<1>3. R!RollupUpTo(p) \in Int /\ R!RollupUpTo(p) <= now /\ R!RollupUpTo(p) <= LastSlot
  <2>1. R!RollupUpTo(p) \in Int /\ R!RollupUpTo(p) <= p.at
    BY <1>1, RollupReaches
  <2> QED
    BY <1>1, <1>2, <2>1, NumbersAre DEF PlanSound
<1>4. /\ doomed \subseteq Nat /\ \A t \in doomed : t < R!RollupUpTo(p)
      /\ \A o \in Tenant : \A t \in raw[o] : t < R!RollupUpTo(p) => t \in doomed
  <2>1. \A o \in Tenant : raw[o] \subseteq Nat
    BY DEF RetentionInv, KeepTyped, R!Samples, R!Slot
  <2>2. R!Before(R!RollupUpTo(job[j])) = 0..(R!RollupUpTo(p) - 1)
    BY DEF R!Before
  <2>3. \A t \in Nat : t \in 0..(R!RollupUpTo(p) - 1) <=> t < R!RollupUpTo(p)
    BY <1>3
  <2>4. doomed = (UNION {raw[o] : o \in Tenant}) \cap 0..(R!RollupUpTo(p) - 1)
    BY <2>2
  <2> HIDE DEF doomed, p
  <2> DEFINE held == UNION {raw[o] : o \in Tenant}
  <2>6. \A t : t \in held <=> \E o \in Tenant : t \in raw[o]
    OBVIOUS
  <2>7. doomed = held \cap 0..(R!RollupUpTo(p) - 1)
    BY <2>4
  <2> HIDE DEF held
  <2>5. \A t : t \in doomed <=> (\E o \in Tenant : t \in raw[o]) /\ t \in 0..(R!RollupUpTo(p) - 1)
    BY <2>6, <2>7
  <2> QED
    BY <2>1, <2>3, <2>5
<1>5. doomed # {} => /\ R!Min(doomed) \in doomed /\ \A t \in doomed : R!Min(doomed) <= t
                     /\ R!Min(doomed) \div HourLen \in Nat
                     /\ (R!Min(doomed) \div HourLen) * HourLen <= R!Min(doomed)
                     /\ R!Min(doomed) \div HourLen <= R!Min(doomed)
  <2>1. ASSUME doomed # {} PROVE R!Min(doomed) \in doomed /\ \A t \in doomed : R!Min(doomed) <= t
    BY <1>4, <2>1, MinIs
  <2>2. \A a \in Nat : a \div HourLen \in Nat /\ (a \div HourLen) * HourLen <= a /\ a \div HourLen <= a
    BY DEF R!RetentionAssumption
  <2> QED
    BY <1>4, <2>1, <2>2
<1> DEFINE hour == IF doomed = {} THEN 0 ELSE R!Min(doomed) \div HourLen
           pc == IF doomed = {} THEN "global" ELSE "roll"
<1>6. hour \in 0..LastSlot + 1
  <2>1. LastSlot \in Nat
    BY NumbersAre
  <2>2. CASE doomed = {}
    BY <2>1, <2>2
  <2>3. CASE doomed # {}
    <3>1. R!Min(doomed) \in Nat /\ R!Min(doomed) < R!RollupUpTo(p)
      BY <1>4, <1>5, <2>3
    <3>2. hour \in Nat /\ hour <= R!Min(doomed)
      BY <1>5, <2>3
    <3> HIDE DEF hour, doomed
    <3> QED
      BY <1>3, <2>1, <3>1, <3>2
  <2> QED
    BY <2>2, <2>3
<1>7. job' = [job EXCEPT ![j] = [p EXCEPT !.pc = pc, !.hour = hour]]
  BY DEF R!FindOldest, RetentionInv, KeepTyped
<1>8. p.pc = "oldest" /\ UNCHANGED <<now, days, asked, raw, hourly, rolled>>
  BY DEF R!FindOldest
<1>a. /\ doomed = {} => pc = "global"
      /\ doomed # {} => pc = "roll" /\ hour = R!Min(doomed) \div HourLen
  OBVIOUS
<1> HIDE DEF doomed, hour, pc
<1>9. PICK q \in PlanState : /\ job' = [job EXCEPT ![j] = q] /\ q.at = p.at /\ q.days = p.days
                             /\ q.pc = pc /\ q.hour = hour
  <2>1. pc \in {"global", "roll"}
    BY <1>a
  <2>2. [p EXCEPT !.pc = pc, !.hour = hour] \in PlanState
    BY <1>1, <1>6, <2>1 DEF PlanState
  <2> QED
    BY <1>1, <1>7, <2>2 DEF PlanState
<1>10. q.pc # "orgs"
  BY <1>9, <1>a
<1>11. PlanSound(j)' /\ job'[j] = q /\ R!RollupUpTo(job'[j]) = R!RollupUpTo(p)
  BY <1>8, <1>9, <1>10, PlanKept
<1>12. ASSUME NEW o \in Tenant, NEW t \in Nat, t < R!RollupUpTo(p), t \notin raw[o]
       PROVE  t \in rolled[o]
  BY <1>2, <1>3, <1>1, <1>12 DEF R!RolledFirst
<1>13. RolledUpTo(j)'
  <2>1. CASE doomed = {}
    <3>1. \A o \in Tenant : \A t \in Nat : t < R!RollupUpTo(p) => t \in rolled[o]
      BY <1>4, <1>12, <2>1
    <3> QED
      BY <1>8, <1>9, <1>11, <1>a, <2>1, <3>1 DEF RolledUpTo, UpToHere
  <2>2. CASE doomed # {}
    <3>1. hour * HourLen \in Int
      BY <1>6, NumbersAre
    <3>2. \A o \in Tenant : \A t \in Nat :
            t < hour * HourLen /\ t < R!RollupUpTo(p) => t \in rolled[o]
      <4>1. \A t \in Nat : t < hour * HourLen => t \notin doomed
        <5>1. R!Min(doomed) \in Nat /\ hour * HourLen <= R!Min(doomed)
          BY <1>4, <1>5, <1>a, <2>2
        <5>2. \A t \in doomed : R!Min(doomed) <= t
          BY <1>5, <2>2
        <5> QED
          BY <3>1, <5>1, <5>2
      <4> QED
        BY <1>4, <1>12, <4>1
    <3> QED
      BY <1>8, <1>9, <1>11, <1>a, <2>2, <3>2 DEF RolledUpTo, UpToHere
  <2> QED
    BY <2>1, <2>2
<1>14. R!RolledFirst' /\ raw' \in R!Samples /\ hourly' \in R!Samples /\ rolled' \in R!Samples
  BY <1>8 DEF RetentionInv, KeepTyped, R!RolledFirst
<1> QED
  BY <1>8, <1>9, <1>11, <1>13, <1>14, TickMoves

LEMMA RollHourSound ==
  ASSUME R!RetentionAssumption, RetentionInv, NEW j \in Job, R!RollHour(j)
  PROVE  RetentionInv'
<1> DEFINE p == job[j]
           next == p.hour + 1
           state == IF next * HourLen < R!RollupUpTo(p)
                    THEN [p EXCEPT !.hour = next] ELSE [p EXCEPT !.hour = 0, !.pc = "global"]
<1>1. /\ p \in PlanState /\ p.at \in 0..LastSlot /\ p.days \in R!TelemetryRawDays /\ now \in Nat
      /\ p.hour \in 0..LastSlot + 1
  BY DEF RetentionInv, KeepTyped, PlanState, R!Slot
<1>2. PlanSound(j) /\ RolledUpTo(j) /\ R!RolledFirst
  BY DEF RetentionInv
<1>3. R!RollupUpTo(p) \in Int /\ R!RollupUpTo(p) <= now /\ R!RollupUpTo(p) <= LastSlot
  <2>1. R!RollupUpTo(p) \in Int /\ R!RollupUpTo(p) <= p.at
    BY <1>1, RollupReaches
  <2> QED
    BY <1>1, <1>2, <2>1, NumbersAre DEF PlanSound
<1>4. /\ p.pc = "roll" /\ R!RollUp(p.hour) /\ UNCHANGED <<now, days, asked, raw>>
      /\ job' = [job EXCEPT ![j] = state]
  <2>1. job \in [Job -> PlanState]
    BY DEF RetentionInv, KeepTyped
  <2>2. [p EXCEPT !.hour = p.hour + 1] = [p EXCEPT !.hour = next]
    OBVIOUS
  <2> QED
    BY <2>1, <2>2 DEF R!RollHour
<1>5. next \in Nat /\ next <= next * HourLen /\ next * HourLen \in Nat
      /\ next * HourLen = p.hour * HourLen + HourLen /\ p.hour * HourLen \in Nat
  <2>1. p.hour \in Nat /\ HourLen \in Nat /\ HourLen >= 1
    BY <1>1, NumbersAre
  <2>2. \A h, n \in Nat : n >= 1 => /\ h + 1 <= (h + 1) * n /\ (h + 1) * n \in Nat
                                    /\ (h + 1) * n = h * n + n /\ h * n \in Nat
    OBVIOUS
  <2> QED
    BY <2>1, <2>2
<1>6. /\ hourly' \in R!Samples /\ rolled' \in R!Samples
      /\ \A o \in Tenant : rolled[o] \subseteq rolled'[o]
      /\ \A o \in Tenant : raw[o] \cap R!Hour(p.hour) \subseteq rolled'[o]
  BY <1>1, <1>4, RollUpCounts DEF RetentionInv
<1>7. ASSUME NEW o \in Tenant, NEW t \in Nat, t < next * HourLen, t < R!RollupUpTo(p)
      PROVE  t \in rolled'[o]
  <2>1. CASE t < p.hour * HourLen
    BY <1>2, <1>4, <1>6, <1>7, <2>1 DEF RolledUpTo, UpToHere
  <2>2. CASE ~ (t < p.hour * HourLen) /\ t \in raw[o]
    <3>1. R!Hour(p.hour) = p.hour * HourLen .. next * HourLen - 1
      BY DEF R!Hour
    <3>2. p.hour * HourLen <= t /\ t <= next * HourLen - 1
      BY <1>5, <1>7, <2>2
    <3>3. t \in R!Hour(p.hour)
      BY <1>5, <3>1, <3>2
    <3> QED
      BY <1>6, <2>2, <3>3
  <2>3. CASE t \notin raw[o]
    BY <1>1, <1>2, <1>3, <1>6, <1>7, <2>3 DEF R!RolledFirst
  <2> QED
    BY <2>1, <2>2, <2>3
<1>8. PICK q \in PlanState :
        /\ job' = [job EXCEPT ![j] = q] /\ q.at = p.at /\ q.days = p.days
        /\ \/ q.pc = "roll" /\ q.hour = next
           \/ q.pc = "global" /\ ~ (next * HourLen < R!RollupUpTo(p))
  <2>1. CASE next * HourLen < R!RollupUpTo(p)
    <3>1. next \in 0..LastSlot + 1
      BY <1>3, <1>5, <2>1, NumbersAre
    <3> HIDE DEF next
    <3>2. [p EXCEPT !.hour = next] \in PlanState
      BY <1>1, <3>1 DEF PlanState
    <3> QED
      BY <1>1, <1>4, <2>1, <3>2 DEF PlanState
  <2>2. CASE ~ (next * HourLen < R!RollupUpTo(p))
    <3>1. 0 \in 0..LastSlot + 1
      BY NumbersAre
    <3>2. [p EXCEPT !.hour = 0, !.pc = "global"] \in PlanState
      BY <1>1, <3>1 DEF PlanState
    <3> QED
      BY <1>1, <1>4, <2>2, <3>2 DEF PlanState
  <2> QED
    BY <2>1, <2>2
<1>9. PlanSound(j)' /\ job'[j] = q /\ R!RollupUpTo(job'[j]) = R!RollupUpTo(p)
  BY <1>4, <1>8, PlanKept
<1>10. RolledUpTo(j)'
  <2>1. CASE q.pc = "roll" /\ q.hour = next
    BY <1>7, <1>9, <2>1 DEF RolledUpTo, UpToHere
  <2>2. CASE q.pc = "global" /\ ~ (next * HourLen < R!RollupUpTo(p))
    <3>1. \A t \in Nat : t < R!RollupUpTo(p) => t < next * HourLen
      BY <1>3, <1>5, <2>2
    <3> QED
      BY <1>7, <1>9, <2>2, <3>1 DEF RolledUpTo, UpToHere
  <2> QED
    BY <1>8, <2>1, <2>2
<1>11. R!RolledFirst' /\ raw' \in R!Samples
  BY <1>2, <1>4, <1>6 DEF RetentionInv, KeepTyped, R!RolledFirst
<1> QED
  BY <1>4, <1>6, <1>8, <1>9, <1>10, <1>11, TickMoves

(***************************************************************************)
(* A pass that deletes what may go, and leaves its tick in a later pass of    *)
(* the same plan or asleep.                                                   *)
(***************************************************************************)
LEMMA DeleteSound ==
  ASSUME R!RetentionAssumption, RetentionInv, NEW j \in Job, NEW state \in PlanState,
         job[j].pc \in {"global", "default", "orgs"},
         job' = [job EXCEPT ![j] = state], UNCHANGED <<now, days, asked, hourly, rolled>>,
         \/ state.pc = "idle" /\ state.at = 0
         \/ /\ state.pc \in {"default", "orgs"}
            /\ state.at = job[j].at /\ state.days = job[j].days
            /\ state.pc = "orgs" => state.todo \subseteq R!PerOrg(job[j]),
         raw' \in R!Samples,
         \A o \in Tenant : \A t \in raw[o] \ raw'[o] : Deletable(o, t)
  PROVE  RetentionInv'
<1>1. PlanSound(j) /\ RolledUpTo(j) /\ R!RolledFirst /\ now \in Nat
  BY DEF RetentionInv, KeepTyped, R!Slot
<1>2. job'[j] = state
  BY DEF RetentionInv, KeepTyped
<1>3. PlanSound(j)' /\ RolledUpTo(j)'
  <2>1. CASE state.pc = "idle" /\ state.at = 0
    BY <1>1, <1>2, <2>1 DEF PlanSound, RolledUpTo
  <2>2. CASE /\ state.pc \in {"default", "orgs"}
             /\ state.at = job[j].at /\ state.days = job[j].days
             /\ state.pc = "orgs" => state.todo \subseteq R!PerOrg(job[j])
    <3>1. PlanSound(j)' /\ R!RollupUpTo(job'[j]) = R!RollupUpTo(job[j])
      BY <2>2, PlanKept
    <3>2. RolledUpTo(j)'
      BY <1>1, <1>2, <2>2, <3>1 DEF RolledUpTo, UpToHere
    <3> QED
      BY <3>1, <3>2
  <2> QED
    BY <2>1, <2>2
<1>4. R!RolledFirst'
  BY <1>1 DEF R!RolledFirst, Deletable
<1>5. hourly' \in R!Samples /\ rolled' \in R!Samples /\ \A o \in Tenant : rolled[o] \subseteq rolled'[o]
  BY DEF RetentionInv, KeepTyped
<1> QED
  BY <1>3, <1>4, <1>5, TickMoves

\* A tick whose passes are left has them to do, or none.
LEMMA RemainingIs ==
  ASSUME R!RetentionAssumption, NEW p \in PlanState
  PROVE  /\ R!Remaining(p) \in PlanState
         /\ \/ R!Remaining(p).pc = "idle" /\ R!Remaining(p).at = 0
            \/ /\ R!Remaining(p).pc = "orgs" /\ R!Remaining(p).at = p.at /\ R!Remaining(p).days = p.days
               /\ R!Remaining(p).todo \subseteq R!PerOrg(p)
<1>1. R!Asleep \in PlanState /\ R!Asleep.pc = "idle" /\ R!Asleep.at = 0
  BY DEF R!RetentionAssumption, R!Asleep, PlanState, R!Slot, R!TelemetryRawDays
<1>2. R!PerOrg(p) \subseteq Tenant
  BY DEF R!PerOrg, R!Overrides
<1>3. CASE R!PerOrg(p) = {}
  BY <1>1, <1>3 DEF R!Remaining
<1>4. CASE R!PerOrg(p) # {}
  <2> DEFINE q == [p EXCEPT !.pc = "orgs", !.todo = R!PerOrg(p)]
  <2>1. q \in PlanState /\ q.pc = "orgs" /\ q.at = p.at /\ q.days = p.days /\ q.todo = R!PerOrg(p)
    BY <1>2 DEF PlanState
  <2> QED
    BY <1>4, <2>1 DEF R!Remaining
<1> QED
  BY <1>3, <1>4

\* What the three passes delete.
LEMMA PassesDelete ==
  ASSUME R!RetentionAssumption, RetentionInv, NEW j \in Job,
         R!DeleteGlobal(j) \/ R!DeleteDefault(j) \/ R!DeleteOrg(j)
  PROVE  raw' \in R!Samples /\ \A o \in Tenant : \A t \in raw[o] \ raw'[o] : Deletable(o, t)
<1>0. raw \in R!Samples /\ job[j] \in PlanState /\ \A o \in Tenant : raw[o] \subseteq Nat
  BY DEF RetentionInv, KeepTyped, R!Samples, R!Slot
<1>1. job[j].at \in Nat /\ job[j].days \in R!TelemetryRawDays
  BY <1>0 DEF PlanState, R!Slot
<1>2. \A c \in Int : \A t \in Nat : t \in R!Before(c) => t < c
  BY DEF R!Before
<1>3. /\ R!GlobalCutoff(job[j]) \in Int /\ R!DefaultCutoff(job[j]) \in Int
      /\ \A o \in Tenant : R!Cutoff(job[j], o) \in Int
  BY <1>1, RollupReaches
<1>4. CASE R!DeleteGlobal(j)
  <2>1. job[j].pc = "global" /\ raw' = R!GlobalPass(job[j])
    BY <1>4 DEF R!DeleteGlobal
  <2>2. raw' \in R!Samples
    BY <1>0, <2>1 DEF R!GlobalPass, R!Samples
  <2>3. \A o \in Tenant : raw'[o] = raw[o] \ R!Before(R!GlobalCutoff(job[j]))
    BY <2>1 DEF R!GlobalPass
  <2> QED
    BY <1>0, <1>2, <1>3, <2>1, <2>2, <2>3, PassSound
<1>5. CASE R!DeleteDefault(j)
  <2>1. job[j].pc = "default" /\ raw' = R!DefaultPass(job[j])
    BY <1>5 DEF R!DeleteDefault
  <2>2. raw' \in R!Samples
    BY <1>0, <2>1 DEF R!DefaultPass, R!Samples
  <2>3. \A o \in Tenant :
          raw'[o] = IF job[j].days[o] = None THEN raw[o] \ R!Before(R!DefaultCutoff(job[j])) ELSE raw[o]
    BY <2>1 DEF R!DefaultPass
  <2> QED
    BY <1>0, <1>2, <1>3, <2>1, <2>2, <2>3, PassSound
<1>6. CASE R!DeleteOrg(j)
  <2>1. PICK u \in job[j].todo :
          raw' = [raw EXCEPT ![u] = raw[u] \ R!Before(R!Cutoff(job[j], u))]
    BY <1>6 DEF R!DeleteOrg
  <2>2. job[j].pc = "orgs" /\ job[j].todo \subseteq R!PerOrg(job[j]) /\ u \in Tenant
    BY <1>0, <1>6, <2>1 DEF R!DeleteOrg, RetentionInv, PlanSound, PlanState
  <2>3. raw' \in R!Samples
    BY <1>0, <2>1 DEF R!Samples
  <2>4. \A o \in Tenant : raw'[o] = IF o = u THEN raw[u] \ R!Before(R!Cutoff(job[j], u)) ELSE raw[o]
    BY <1>0, <2>1 DEF R!Samples
  <2> QED
    BY <1>0, <1>2, <1>3, <2>1, <2>2, <2>3, <2>4, PassSound
<1> QED
  BY <1>4, <1>5, <1>6

LEMMA PassesSound ==
  ASSUME R!RetentionAssumption, RetentionInv, NEW j \in Job,
         R!DeleteGlobal(j) \/ R!DeleteDefault(j) \/ R!DeleteOrg(j)
  PROVE  RetentionInv'
<1> DEFINE p == job[j]
           Later(state) == \/ state.pc = "idle" /\ state.at = 0
                           \/ /\ state.pc \in {"default", "orgs"}
                              /\ state.at = p.at /\ state.days = p.days
                              /\ state.pc = "orgs" => state.todo \subseteq R!PerOrg(p)
<1>1. job \in [Job -> PlanState] /\ p \in PlanState /\ PlanSound(j)
  BY DEF RetentionInv, KeepTyped
<1>2. /\ p.pc \in {"global", "default", "orgs"} /\ UNCHANGED <<now, days, asked, hourly, rolled>>
  BY DEF R!DeleteGlobal, R!DeleteDefault, R!DeleteOrg
<1>3. R!Remaining(p) \in PlanState /\ Later(R!Remaining(p))
  BY <1>1, RemainingIs
<1>4. R!Asleep \in PlanState /\ Later(R!Asleep)
  BY DEF R!RetentionAssumption, R!Asleep, PlanState, R!Slot, R!TelemetryRawDays
<1>5. \E state \in PlanState : job' = [job EXCEPT ![j] = state] /\ Later(state)
  <2>1. CASE R!DeleteGlobal(j)
    <3> DEFINE q == [p EXCEPT !.pc = "default"]
    <3>1. q \in PlanState /\ Later(q)
      BY <1>1 DEF PlanState
    <3>2. job' = [job EXCEPT ![j] = IF R!OwnPass(p) THEN q ELSE R!Remaining(p)]
      BY <1>1, <2>1 DEF R!DeleteGlobal
    <3> HIDE DEF q, p, Later
    <3> QED
      BY <1>3, <3>1, <3>2
  <2>2. CASE R!DeleteDefault(j)
    <3>1. job' = [job EXCEPT ![j] = R!Remaining(p)]
      BY <1>1, <2>2 DEF R!DeleteDefault
    <3> HIDE DEF p, Later
    <3> QED
      BY <1>3, <3>1
  <2>3. CASE R!DeleteOrg(j)
    <3>1. PICK o \in p.todo :
            job' = [job EXCEPT ![j] = IF p.todo \ {o} = {} THEN R!Asleep
                                      ELSE [p EXCEPT !.todo = p.todo \ {o}]]
      BY <1>1, <2>3 DEF R!DeleteOrg
    <3> DEFINE left == p.todo \ {o}
               q == [p EXCEPT !.todo = left]
    <3>2. left \in SUBSET Tenant /\ p.pc = "orgs" /\ left \subseteq R!PerOrg(p)
      BY <1>1, <2>3 DEF R!DeleteOrg, PlanState, PlanSound
    <3>3. job' = [job EXCEPT ![j] = IF left = {} THEN R!Asleep ELSE q]
      BY <3>1
    <3> HIDE DEF left
    <3>4. q \in PlanState /\ Later(q)
      BY <1>1, <3>2 DEF PlanState
    <3> HIDE DEF q, p, Later
    <3> QED
      BY <1>4, <3>3, <3>4
  <2> QED
    BY <2>1, <2>2, <2>3
<1>6. raw' \in R!Samples /\ \A o \in Tenant : \A t \in raw[o] \ raw'[o] : Deletable(o, t)
  BY PassesDelete
<1> QED
  BY <1>2, <1>5, <1>6, DeleteSound

LEMMA FailsSound ==
  ASSUME R!RetentionAssumption, RetentionInv, NEW j \in Job, R!Fails(j)
  PROVE  RetentionInv'
<1>1. R!Asleep \in PlanState /\ R!Asleep.pc = "idle" /\ R!Asleep.at = 0
  BY DEF R!RetentionAssumption, R!Asleep, PlanState, R!Slot, R!TelemetryRawDays
<1>2. job' = [job EXCEPT ![j] = R!Asleep] /\ UNCHANGED <<now, days, asked, raw, hourly, rolled>>
  BY DEF R!Fails
<1>3. job'[j] = R!Asleep /\ now' = now /\ now \in Nat
  BY <1>2 DEF RetentionInv, KeepTyped, R!Slot
<1>4. PlanSound(j)' /\ RolledUpTo(j)'
  BY <1>1, <1>3 DEF PlanSound, RolledUpTo
<1>5. /\ raw' \in R!Samples /\ hourly' \in R!Samples /\ rolled' \in R!Samples /\ R!RolledFirst'
      /\ \A o \in Tenant : rolled[o] \subseteq rolled'[o]
  BY <1>2 DEF RetentionInv, KeepTyped, R!RolledFirst
<1> QED
  BY <1>1, <1>2, <1>4, <1>5, TickMoves

\* The shortest retention asked for only gets shorter.
LEMMA SetRetentionSound ==
  ASSUME R!RetentionAssumption, RetentionInv, NEW o \in Tenant, R!SetRetention(o)
  PROVE  RetentionInv'
<1>1. PICK d \in Override \cup {None} :
        /\ days' = [days EXCEPT ![o] = d]
        /\ asked' = [asked EXCEPT ![o] = R!Min({asked[o], IF d = None THEN RawDays ELSE d})]
  BY DEF R!SetRetention, RetentionInv, KeepTyped
<1>2. UNCHANGED <<now, raw, hourly, rolled, job>>
  BY DEF R!SetRetention
<1> DEFINE wish == IF d = None THEN RawDays ELSE d
           shortest == R!Min({asked[o], wish})
<1>3. wish \in Override \cup {RawDays} /\ asked[o] \in Override \cup {RawDays}
  BY DEF RetentionInv, KeepTyped
<1>4. Override \cup {RawDays} \subseteq Nat
  BY NumbersAre
<1>5. shortest \in {asked[o], wish} /\ shortest <= asked[o] /\ shortest <= wish
  BY <1>3, <1>4, MinIs
<1> HIDE DEF shortest
<1>6. /\ asked' \in [Tenant -> Override \cup {RawDays}] /\ days' \in R!TelemetryRawDays
      /\ asked'[o] = shortest /\ days'[o] = d
      /\ \A u \in Tenant \ {o} : asked'[u] = asked[u] /\ days'[u] = days[u]
  <2>1. asked' = [asked EXCEPT ![o] = shortest]
    BY <1>1 DEF shortest
  <2>2. shortest \in Override \cup {RawDays}
    BY <1>3, <1>5
  <2> QED
    BY <1>1, <2>1, <2>2 DEF RetentionInv, KeepTyped, R!TelemetryRawDays
<1>7. \A u \in Tenant : asked'[u] <= asked[u] /\ asked'[u] \in Nat /\ asked[u] \in Nat
  BY <1>4, <1>5, <1>6 DEF RetentionInv, KeepTyped
<1>8. KeepTyped'
  <2>1. \A u \in Tenant : asked'[u] <= R!Keeps(u)'
    <3>1. R!Keeps(o)' = wish
      BY <1>6 DEF R!Keeps
    <3>2. \A u \in Tenant \ {o} : R!Keeps(u)' = R!Keeps(u)
      BY <1>6 DEF R!Keeps
    <3> QED
      BY <1>5, <1>6, <3>1, <3>2 DEF RetentionInv, KeepTyped
  <2> QED
    BY <1>2, <1>6, <2>1 DEF RetentionInv, KeepTyped
<1>9. ASSUME NEW j \in Job PROVE PlanSound(j)' /\ RolledUpTo(j)'
  <2>1. PlanSound(j) /\ RolledUpTo(j) /\ job[j].days \in R!TelemetryRawDays
    BY DEF RetentionInv, KeepTyped, PlanState
  <2>2. job'[j] = job[j] /\ now' = now /\ rolled' = rolled
    BY <1>2
  <2>3. \A u \in Tenant : R!Asks(job[j], u) \in Nat
    BY <2>1, AsksIs
  <2>4. RolledUpTo(j)'
    BY <2>1, <2>2 DEF RolledUpTo, UpToHere
  <2>5. PlanSound(j)'
    BY <1>7, <2>1, <2>2, <2>3 DEF PlanSound
  <2> QED
    BY <2>4, <2>5
<1>10. R!RolledFirst'
  BY <1>2 DEF RetentionInv, R!RolledFirst
<1> QED
  BY <1>8, <1>9, <1>10 DEF RetentionInv

LEMMA PassSlotSound ==
  ASSUME R!RetentionAssumption, RetentionInv, R!Pass
  PROVE  RetentionInv'
<1>1. now < LastSlot /\ now' = now + 1 /\ UNCHANGED <<days, asked, hourly, rolled, job>>
  BY DEF R!Pass
<1>2. now \in Nat /\ now \in 0..LastSlot /\ now' \in 0..LastSlot /\ now' \in Nat /\ now <= now'
  BY <1>1, NumbersAre DEF RetentionInv, KeepTyped, R!Slot
<1>3. \A o \in Tenant : raw'[o] = raw[o] \cup {now'}
  BY DEF R!Pass
<1>4. raw' \in R!Samples
  BY <1>2 DEF R!Pass, RetentionInv, KeepTyped, R!Samples, R!Slot
<1>5. KeepTyped'
  BY <1>1, <1>2, <1>4 DEF RetentionInv, KeepTyped, R!Slot, R!Keeps
<1>6. \A j \in Job : PlanSound(j)' /\ RolledUpTo(j)'
  <2>1. rolled' \in R!Samples /\ \A o \in Tenant : rolled[o] \subseteq rolled'[o]
    BY <1>1 DEF RetentionInv, KeepTyped
  <2> QED
    BY <1>1, <1>2, <2>1, OthersSound
<1>7. R!RolledFirst'
  <2>1. \A t \in 0..now' : t \in 0..now \/ t = now'
    BY <1>1, <1>2
  <2> QED
    BY <1>1, <1>3, <2>1 DEF RetentionInv, R!RolledFirst
<1> QED
  BY <1>5, <1>6, <1>7 DEF RetentionInv

LEMMA RetentionNext ==
  ASSUME R!RetentionAssumption, RetentionInv, R!Next
  PROVE  RetentionInv'
<1>1. ASSUME NEW j \in Job, R!Begin(j) \/ R!Work(j) \/ R!Fails(j) PROVE RetentionInv'
  BY <1>1, BeginSound, PlanStepSound, FindOldestSound, RollHourSound, PassesSound, FailsSound DEF R!Work
<1>2. ASSUME NEW o \in Tenant, R!SetRetention(o) PROVE RetentionInv'
  BY <1>2, SetRetentionSound
<1>3. CASE R!Pass
  BY <1>3, PassSlotSound
<1> QED
  BY <1>1, <1>2, <1>3 DEF R!Next

LEMMA RetentionRests ==
  ASSUME RetentionInv, UNCHANGED R!vars
  PROVE  RetentionInv'
<1>1. UNCHANGED <<now, days, asked, raw, hourly, rolled, job>>
  BY DEF R!vars
<1>2. ASSUME NEW j \in Job PROVE PlanSound(j)' /\ RolledUpTo(j)'
  <2>1. job'[j] = job[j] /\ PlanSound(j) /\ RolledUpTo(j)
    BY <1>1 DEF RetentionInv
  <2> QED
    BY <1>1, <2>1 DEF PlanSound, RolledUpTo, UpToHere
<1>3. KeepTyped' /\ R!RolledFirst'
  BY <1>1 DEF RetentionInv, KeepTyped, R!Keeps, R!RolledFirst
<1> QED
  BY <1>2, <1>3 DEF RetentionInv

\* Only a pass deletes, and what its owner no longer asked to keep.
LEMMA PassesKeep ==
  ASSUME R!RetentionAssumption, RetentionInv, R!Next
  PROVE  \A o \in Tenant : \A t \in raw[o] \ raw'[o] : R!Age(t) > asked[o]
<1>1. ASSUME NEW j \in Job, R!DeleteGlobal(j) \/ R!DeleteDefault(j) \/ R!DeleteOrg(j)
      PROVE  \A o \in Tenant : \A t \in raw[o] \ raw'[o] : R!Age(t) > asked[o]
  BY <1>1, PassesDelete DEF Deletable, R!Age
<1>2. ASSUME raw' = raw PROVE \A o \in Tenant : \A t \in raw[o] \ raw'[o] : R!Age(t) > asked[o]
  BY <1>2
<1>3. ASSUME R!Pass PROVE \A o \in Tenant : \A t \in raw[o] \ raw'[o] : R!Age(t) > asked[o]
  BY <1>3 DEF R!Pass
<1>4. \/ \E j \in Job : R!DeleteGlobal(j) \/ R!DeleteDefault(j) \/ R!DeleteOrg(j)
      \/ R!Pass
      \/ raw' = raw
  BY DEF R!Next, R!Work, R!Begin, R!Plan, R!FindOldest, R!RollHour, R!Fails, R!SetRetention
<1> QED
  BY <1>1, <1>2, <1>3, <1>4


(***************************************************************************)
(* Nothing goes that was not rolled up (orgs/retention.ts:25-27), nothing     *)
(* goes that its owner keeps (orgs/retention.ts:10-12): the safety half of    *)
(* Retained, for every number of replicas, default, override and fault.       *)
(***************************************************************************)
THEOREM TelemetryRetained ==
  TelemetrySpec => [](part = "retention" => R!RolledFirst) /\ R!KeptAsAsked
<1>0. R!RetentionAssumption
  BY TelemetryAssumption
<1>1. TelemetryInit => RetentionInv
  BY <1>0, RetentionInit DEF TelemetryInit
<1>2. RetentionInv /\ [TelemetryNext]_telemetryVars => RetentionInv'
  <2> SUFFICES ASSUME RetentionInv, [TelemetryNext]_telemetryVars PROVE RetentionInv'
    OBVIOUS
  <2>1. CASE R!Next
    BY <1>0, <2>1, RetentionNext
  <2>2. CASE UNCHANGED keeping
    BY <2>2, RetentionRests DEF keeping, R!vars
  <2> QED
    BY <2>1, <2>2 DEF TelemetryNext, telemetryVars
<1>3. RetentionInv => (part = "retention" => R!RolledFirst)
  BY DEF RetentionInv
<1>4. RetentionInv /\ [TelemetryNext]_telemetryVars =>
        [\A o \in Tenant : \A t \in raw[o] \ raw'[o] : R!Age(t) > asked[o]]_(R!vars)
  <2> SUFFICES ASSUME RetentionInv, [TelemetryNext]_telemetryVars
               PROVE  [\A o \in Tenant : \A t \in raw[o] \ raw'[o] : R!Age(t) > asked[o]]_(R!vars)
    OBVIOUS
  <2>1. CASE R!Next
    BY <1>0, <2>1, PassesKeep
  <2>2. CASE UNCHANGED keeping
    BY <2>2 DEF keeping, R!vars
  <2> QED
    BY <2>1, <2>2 DEF TelemetryNext, telemetryVars
<1> QED
  BY <1>1, <1>2, <1>3, <1>4, PTL DEF TelemetrySpec, R!KeptAsAsked

---------------------------------------------------------------------------
\* The writer among the others is the writer: its steps are its own or none.
LEMMA TelemetryIsWriter == TelemetrySpec => Spec
<1>1. TelemetryInit => Init
  BY DEF TelemetryInit
<1>2. [TelemetryNext]_telemetryVars => [Next]_vars
  BY DEF TelemetryNext, telemetryVars, writing
<1> QED
  BY <1>1, <1>2, PTL DEF TelemetrySpec, Spec

(***************************************************************************)
(* The writer as the run checks it, beside retention and the health sweep:   *)
(* while the disk works nothing queued is lost by a crash (index.ts:59-61),  *)
(* and nothing is lost that is not counted (index.ts:140).                   *)
(***************************************************************************)
THEOREM TelemetryLosesNothing == TelemetrySpec => [](Recoverable /\ LossCounted)
BY TelemetryIsWriter, WriterRecoverable, WriterLossCounted, PTL

---------------------------------------------------------------------------
(***************************************************************************)
(* The health sweep.  A row is what a walk over samples makes of it: the     *)
(* window is open from a sample on, and the last sample is at the cursor.    *)
(***************************************************************************)
Reading == Int \cup {None}
Sample == [at : Nat, soc : Reading, kw : Reading]
WindowState == [from : Nat, soc : Int, energy : Nat]
RowState ==
  [cursor : H!Bucket \cup {None}, prev : Sample \cup {None}, window : WindowState \cup {None},
   discharged : Nat, charged : Nat, travelled : Nat, samples : Nat]
RowTyped(h) ==
  /\ h \in RowState
  /\ h.prev # None => h.cursor # None /\ h.prev.at <= h.cursor
  /\ h.window # None => h.cursor # None /\ h.window.from <= h.cursor
SweepState == [pc : {"idle", "read", "loop", "silent"}, row : RowState, page : SUBSET H!Bucket]
SweepTyped(t) ==
  /\ RowTyped(t.row)
  /\ \A b \in t.page : series[b] # None /\ (t.row.cursor # None => t.row.cursor < b)
  /\ IsFiniteSet(t.page) /\ Cardinality(t.page) <= Page
  /\ t.pc = "silent" => t.row.cursor \in H!Bucket
HealthTyped ==
  /\ clock \in 0..LastBucket + Grace + 1
  /\ series \in Series
  /\ RowTyped(health)
  /\ \A e \in DOMAIN estimates : e.from < e.to /\ estimates[e] \in 1..2
  /\ worker \in [Worker -> SweepState]
  /\ \A w \in Worker : SweepTyped(worker[w])
  /\ lapses \in 0..MaxLapses

LEMMA HealthNumbers ==
  ASSUME H!SohAssumption
  PROVE  /\ LastBucket \in Nat /\ MaxGap \in Nat /\ Grace \in Nat /\ MinSpan \in Nat
         /\ Page \in Nat /\ Page > MaxGap /\ MaxLapses \in Nat
         /\ None \notin Int /\ None \notin Nat /\ None \notin Sample
         /\ H!Bucket \subseteq Nat /\ \A b \in H!Bucket : b # None
BY DEF H!SohAssumption, H!Bucket, Sample, Reading

LEMMA SampleIs ==
  ASSUME H!SohAssumption, series \in Series, NEW b \in H!Bucket, series[b] # None
  PROVE  H!SampleAt(b) \in Sample /\ H!SampleAt(b).at = b
<1>1. {series[b].soc, series[b].kw} \subseteq Reading /\ b \in Nat
  BY HealthNumbers DEF H!SohAssumption, H!Bucket, Reading
<1> QED
  BY <1>1 DEF H!SampleAt, Sample

LEMMA Quotient == ASSUME NEW a \in Nat, NEW b \in Nat, b > 0 PROVE a \div b \in Nat
OBVIOUS

LEMMA Square == ASSUME NEW a \in Int PROVE a * a \in Nat
<1>1. CASE a >= 0
  BY <1>1
<1>2. CASE a < 0
  <2>1. (-a) * (-a) = a * a /\ -a \in Nat
    BY <1>2
  <2>2. (-a) * (-a) \in Nat
    BY <2>1
  <2> QED
    BY <2>1, <2>2
<1> QED
  BY <1>1, <1>2

Energies == [discharged : Nat, charged : Nat]
LEMMA ThroughputIs ==
  ASSUME H!SohAssumption, NEW p \in Sample \cup {None}, NEW s \in Sample, p # None => p.at <= s.at
  PROVE  H!Throughput(p, s) \in Energies
<1>1. CASE ~H!Both(p, s, "kw") \/ s.at - p.at > MaxGap
  BY <1>1 DEF H!Throughput, Energies
<1>2. CASE H!Both(p, s, "kw") /\ ~(s.at - p.at > MaxGap)
  <2>1. p # None /\ p.kw # None /\ s.kw # None
    BY <1>2 DEF H!Both
  <2> DEFINE u == p.kw  v == s.kw  dt == s.at - p.at
  <2>2. u \in Int /\ v \in Int /\ dt \in Nat
    BY <2>1 DEF Sample, Reading
  <2>3. H!Abs(u) \in Nat /\ H!Abs(v) \in Nat /\ H!Abs(u + v) \in Nat
    BY <2>2 DEF H!Abs
  <2>4. (6 * u * u * dt) \in Nat /\ (6 * v * v * dt) \in Nat /\ 6 * H!Abs(u + v) * dt \in Nat
    <3>1. u * u \in Nat /\ v * v \in Nat
      BY <2>2, Square
    <3>2. 6 * u * u * dt = 6 * (u * u) * dt /\ 6 * v * v * dt = 6 * (v * v) * dt
      BY <2>2
    <3>3. \A n, m \in Nat : 6 * n * m \in Nat
      OBVIOUS
    <3> HIDE DEF u, v, dt
    <3> QED
      BY <2>2, <2>3, <3>1, <3>2, <3>3
  <2>5. u * v < 0 => H!Abs(u) + H!Abs(v) > 0
    <3>1. u = 0 => u * v = 0
      BY <2>2
    <3> HIDE DEF u, v
    <3> QED
      BY <2>2, <3>1 DEF H!Abs
  <2>6. u * v < 0 => /\ (6 * u * u * dt) \div (H!Abs(u) + H!Abs(v)) \in Nat
                     /\ (6 * v * v * dt) \div (H!Abs(u) + H!Abs(v)) \in Nat
    <3> HIDE DEF u, v, dt
    <3> QED
      BY <2>3, <2>4, <2>5, Quotient
  <2>7. H!Throughput(p, s) =
          IF u * v < 0 THEN IF u > 0 THEN [discharged |-> (6 * u * u * dt) \div (H!Abs(u) + H!Abs(v)),
                                           charged |-> (6 * v * v * dt) \div (H!Abs(u) + H!Abs(v))]
                            ELSE [discharged |-> (6 * v * v * dt) \div (H!Abs(u) + H!Abs(v)),
                                  charged |-> (6 * u * u * dt) \div (H!Abs(u) + H!Abs(v))]
          ELSE IF u + v >= 0 THEN [discharged |-> 6 * H!Abs(u + v) * dt, charged |-> 0]
          ELSE [discharged |-> 0, charged |-> 6 * H!Abs(u + v) * dt]
    BY <1>2 DEF H!Throughput
  <2> HIDE DEF u, v, dt
  <2> QED
    BY <2>4, <2>6, <2>7 DEF Energies
<1> QED
  BY <1>1, <1>2

LEMMA TravelledIs ==
  ASSUME NEW p \in Sample \cup {None}, NEW s \in Sample
  PROVE  H!Travelled(p, s) \in Nat
<1>1. CASE ~H!Both(p, s, "soc")
  BY <1>1 DEF H!Travelled
<1>2. CASE H!Both(p, s, "soc")
  <2>1. p.soc \in Int /\ s.soc \in Int
    BY <1>2 DEF H!Both, Sample, Reading
  <2> QED
    BY <1>2, <2>1 DEF H!Travelled, H!Abs
<1> QED
  BY <1>1, <1>2

LEMMA FirstIs ==
  ASSUME NEW S, S \subseteq Nat, S # {}
  PROVE  H!Min(S) \in S /\ \A x \in S : H!Min(S) <= x
BY LeastNumber DEF H!Min

\* What a page has to offer: closed buckets after the cursor, with a sample each.
LEMMA PageIs ==
  ASSUME H!SohAssumption, NEW c \in H!Bucket \cup {None}, clock \in 0..LastBucket + Grace + 1
  PROVE  /\ H!LastClosed \in Int /\ H!LastClosed <= LastBucket
         /\ H!FirstOf(c) \in Nat /\ H!LastOf(c) \in Int
         /\ H!LastOf(c) <= H!LastClosed /\ H!LastOf(c) <= H!FirstOf(c) + Page - 1
         /\ H!LastOf(c) = H!LastClosed \/ H!LastOf(c) = H!FirstOf(c) + Page - 1
         /\ H!FirstOf(c) <= H!LastClosed => H!LastOf(c) \in H!Bucket /\ H!FirstOf(c) <= H!LastOf(c)
         /\ H!PageOf(c) \subseteq H!Bucket
         /\ \A b \in H!PageOf(c) : series[b] # None /\ (c # None => c < b)
         /\ IsFiniteSet(H!PageOf(c)) /\ Cardinality(H!PageOf(c)) <= Page
<1>1. H!LastClosed \in Int /\ H!LastClosed <= LastBucket
  BY HealthNumbers DEF H!LastClosed
<1>2. H!FirstOf(c) \in Nat /\ (c # None => c < H!FirstOf(c))
  BY HealthNumbers DEF H!FirstOf
<1>3. H!LastOf(c) \in Int /\ H!LastOf(c) <= H!LastClosed /\ H!LastOf(c) <= H!FirstOf(c) + Page - 1
      /\ (H!LastOf(c) = H!LastClosed \/ H!LastOf(c) = H!FirstOf(c) + Page - 1)
  <2> DEFINE x == H!LastClosed  y == H!FirstOf(c) + Page - 1
  <2>1. x \in Int /\ y \in Int /\ Page > 0
    BY <1>1, <1>2, HealthNumbers
  <2>2. H!LastOf(c) = CHOOSE m \in {x, y} : \A k \in {x, y} : m <= k
    BY DEF H!LastOf, H!Min
  <2> HIDE DEF x, y
  <2>3. \E m \in {x, y} : \A k \in {x, y} : m <= k
    BY <2>1
  <2>4. H!LastOf(c) \in {x, y} /\ \A k \in {x, y} : H!LastOf(c) <= k
    BY <2>2, <2>3
  <2> QED
    BY <2>1, <2>4 DEF x, y
<1>4. H!FirstOf(c) <= H!LastClosed => H!LastOf(c) \in H!Bucket /\ H!FirstOf(c) <= H!LastOf(c)
  BY <1>1, <1>2, <1>3, HealthNumbers DEF H!Bucket
<1>5. H!PageOf(c) \subseteq H!FirstOf(c)..H!LastOf(c) /\ H!FirstOf(c)..H!LastOf(c) \subseteq H!Bucket
  BY <1>1, <1>2, <1>3, HealthNumbers DEF H!PageOf, H!Bucket
<1>6. IsFiniteSet(H!FirstOf(c)..H!LastOf(c)) /\ Cardinality(H!FirstOf(c)..H!LastOf(c)) <= Page
  <2>1. IsFiniteSet(H!FirstOf(c)..H!LastOf(c))
    BY <1>2, <1>3, FS_Interval
  <2>2. H!FirstOf(c) \in Int /\ H!LastOf(c) \in Int
    BY <1>2, <1>3
  <2> DEFINE a == H!FirstOf(c)  z == H!LastOf(c)
  <2> HIDE DEF a, z
  <2>3. Cardinality(a..z) = IF a > z THEN 0 ELSE z - a + 1
    BY <2>2, FS_Interval DEF a, z
  <2> QED
    BY <1>2, <1>3, <2>1, <2>3, HealthNumbers DEF a, z
<1>7. IsFiniteSet(H!PageOf(c)) /\ Cardinality(H!PageOf(c)) <= Cardinality(H!FirstOf(c)..H!LastOf(c))
      /\ Cardinality(H!PageOf(c)) \in Nat /\ Cardinality(H!FirstOf(c)..H!LastOf(c)) \in Nat
  BY <1>5, <1>6, FS_Subset, FS_CardinalityType
<1>8. \A b \in H!PageOf(c) : series[b] # None /\ (c # None => c < b)
  <2> TAKE b \in H!PageOf(c)
  <2>1. series[b] # None /\ b \in H!FirstOf(c)..H!LastOf(c)
    BY DEF H!PageOf
  <2>2. c # None => c \in Nat
    BY HealthNumbers
  <2> QED
    BY <1>2, <1>3, <2>1, <2>2
<1> QED
  BY <1>1, <1>2, <1>3, <1>4, <1>5, <1>6, <1>7, <1>8, HealthNumbers

LEMMA StepIs ==
  ASSUME H!SohAssumption, NEW h, RowTyped(h), NEW s \in Sample, s.at \in H!Bucket,
         h.cursor # None => h.cursor < s.at
  PROVE  /\ RowTyped(H!Step(h, s)) /\ H!Step(h, s).cursor = s.at
         /\ H!Closed(h.window, h.prev, s) => h.window \in WindowState /\ h.window.from < s.at
<1>1. /\ h.prev \in Sample \cup {None} /\ h.window \in WindowState \cup {None}
      /\ {h.discharged, h.charged, h.travelled, h.samples} \subseteq Nat
      /\ h.cursor \in H!Bucket \cup {None} /\ s.at \in Nat
  BY DEF RowTyped, RowState, Sample
<1>2. h.prev # None => h.prev.at <= s.at
  <2> HAVE h.prev # None
  <2>1. h.prev.at <= h.cursor /\ h.cursor < s.at /\ h.cursor \in Nat /\ h.prev.at \in Nat
    BY <1>1, HealthNumbers DEF RowTyped, Sample
  <2> QED
    BY <1>1, <2>1
<1>3. H!Throughput(h.prev, s) \in Energies /\ H!Travelled(h.prev, s) \in Nat
  BY <1>1, <1>2, ThroughputIs, TravelledIs
<1>4. h.window # None => h.window \in WindowState /\ h.window.from < s.at
  <2> HAVE h.window # None
  <2>1. h.window \in WindowState /\ h.window.from <= h.cursor /\ h.cursor < s.at /\ h.cursor \in Nat
    BY <1>1, HealthNumbers DEF RowTyped
  <2> QED
    BY <1>1, <2>1 DEF WindowState
<1>5. H!Window(h.window, h.prev, s) \in WindowState \cup {None}
      /\ (H!Window(h.window, h.prev, s) # None => H!Window(h.window, h.prev, s).from <= s.at)
  <2> DEFINE over == s.soc = None \/ ~H!Discharging(s)
  <2>1. CASE over
    BY <2>1 DEF H!Window
  <2>2. CASE ~over /\ h.window = None
    <3>1. H!Window(h.window, h.prev, s) = [from |-> s.at, soc |-> s.soc, energy |-> 0]
      BY <2>2 DEF H!Window
    <3>2. s.soc \in Int
      BY <2>2 DEF Sample, Reading
    <3> QED
      BY <1>1, <3>1, <3>2 DEF WindowState
  <2>3. CASE ~over /\ h.window # None
    <3> DEFINE more == [h.window EXCEPT !.energy = @ + H!Throughput(h.prev, s).discharged]
    <3>1. H!Window(h.window, h.prev, s) \in {None, more}
      BY <2>3 DEF H!Window
    <3>2. H!Throughput(h.prev, s).discharged \in Nat
      BY <1>3 DEF Energies
    <3>3. more \in WindowState /\ more.from = h.window.from
      BY <1>4, <2>3, <3>2 DEF WindowState
    <3> HIDE DEF more
    <3> QED
      BY <1>1, <1>4, <2>3, <3>1, <3>3 DEF WindowState
  <2> HIDE DEF over
  <2> QED
    BY <2>1, <2>2, <2>3
<1>6. H!Closed(h.window, h.prev, s) => h.window # None
  BY DEF H!Closed
<1>7. H!Step(h, s) \in RowState /\ H!Step(h, s).cursor = s.at /\ H!Step(h, s).prev = s
      /\ H!Step(h, s).window = H!Window(h.window, h.prev, s)
  BY <1>1, <1>3, <1>5 DEF H!Step, RowState, Energies
<1>8. s.at # None
  BY HealthNumbers
<1> QED
  BY <1>1, <1>4, <1>5, <1>6, <1>7, <1>8 DEF RowTyped

LEMMA MovedOnIs ==
  ASSUME H!SohAssumption, NEW h, RowTyped(h), NEW to \in H!Bucket
  PROVE  /\ RowTyped(H!MovedOn(h, to)) /\ H!MovedOn(h, to).cursor = to
BY DEF H!MovedOn, RowTyped, RowState

LEMMA RestingIs == ASSUME H!SohAssumption
                   PROVE  RowTyped(H!Empty) /\ H!Resting \in SweepState /\ SweepTyped(H!Resting)
<1>1. RowTyped(H!Empty)
  BY DEF H!Empty, RowTyped, RowState
<1>2. IsFiniteSet({}) /\ Cardinality({}) = 0
  BY FS_EmptySet
<1> QED
  BY <1>1, <1>2, HealthNumbers DEF H!Resting, SweepState, SweepTyped, RowTyped

\* One sweep goes on, the others stay.
LEMMA OneSweep ==
  ASSUME HealthTyped, NEW w \in Worker, NEW t \in SweepState, SweepTyped(t),
         worker' = [worker EXCEPT ![w] = t], UNCHANGED series
  PROVE  worker' \in [Worker -> SweepState] /\ \A v \in Worker : SweepTyped(worker[v])'
<1>1. worker' \in [Worker -> SweepState]
  BY DEF HealthTyped
<1>2. ASSUME NEW v \in Worker PROVE SweepTyped(worker[v])'
  <2>1. worker'[v] = IF v = w THEN t ELSE worker[v]
    BY DEF HealthTyped
  <2>2. SweepTyped(worker[v])
    BY DEF HealthTyped
  <2> QED
    BY <2>1, <2>2 DEF SweepTyped
<1> QED
  BY <1>1, <1>2

LEMMA HealthInit == ASSUME H!SohAssumption, H!Init PROVE HealthTyped
<1>1. RowTyped(H!Empty) /\ H!Resting \in SweepState /\ SweepTyped(H!Resting)
  BY RestingIs
<1> QED
  BY <1>1, HealthNumbers DEF H!Init, HealthTyped

LEMMA HealthNext == ASSUME H!SohAssumption, HealthTyped, H!Next PROVE HealthTyped'
<1>1. ASSUME NEW w \in Worker, H!Select(w) PROVE HealthTyped'
  <2> DEFINE t == [H!Resting EXCEPT !.pc = "read", !.row = health]
  <2>1. t \in SweepState /\ SweepTyped(t)
    BY RestingIs DEF HealthTyped, RowTyped, SweepTyped, SweepState, H!Resting
  <2>2. worker' = [worker EXCEPT ![w] = t] /\ UNCHANGED <<clock, series, health, estimates, lapses>>
    BY <1>1 DEF H!Select
  <2> HIDE DEF t
  <2> QED
    BY <2>1, <2>2, OneSweep DEF HealthTyped, RowTyped
<1>2. ASSUME NEW w \in Worker, H!Read(w) PROVE HealthTyped'
  <2> DEFINE h == worker[w].row
             t == IF H!FirstOf(h.cursor) > H!LastClosed THEN H!Resting
                  ELSE IF H!PageOf(h.cursor) # {} THEN [pc |-> "loop", row |-> h, page |-> H!PageOf(h.cursor)]
                  ELSE IF H!LongSilence(h)
                  THEN [pc |-> "silent", page |-> {}, row |-> H!MovedOn(h, H!LastOf(h.cursor))]
                  ELSE H!Resting
  <2>1. worker' = [worker EXCEPT ![w] = t] /\ UNCHANGED <<clock, series, health, estimates, lapses>>
    BY <1>2 DEF H!Read
  <2>2. h \in RowState /\ RowTyped(h) /\ h.cursor \in H!Bucket \cup {None}
    BY DEF HealthTyped, SweepState, SweepTyped, RowTyped, RowState
  <2>3. clock \in 0..LastBucket + Grace + 1
    BY DEF HealthTyped
  <2> DEFINE loop == [pc |-> "loop", row |-> h, page |-> H!PageOf(h.cursor)]
             silent == [pc |-> "silent", page |-> {}, row |-> H!MovedOn(h, H!LastOf(h.cursor))]
  <2>4. loop \in SweepState /\ SweepTyped(loop)
    <3> HIDE DEF h
    <3> QED
      BY <2>2, <2>3, PageIs DEF SweepState, SweepTyped
  <2>5. ~(H!FirstOf(h.cursor) > H!LastClosed) => silent \in SweepState /\ SweepTyped(silent)
    <3> HIDE DEF h
    <3> HAVE ~(H!FirstOf(h.cursor) > H!LastClosed)
    <3>1. H!LastOf(h.cursor) \in H!Bucket
      BY <2>2, <2>3, PageIs
    <3>2. RowTyped(silent.row) /\ silent.row.cursor \in H!Bucket
      BY <2>2, <3>1, MovedOnIs
    <3> QED
      BY <3>2, FS_EmptySet, HealthNumbers DEF SweepState, SweepTyped, RowTyped
  <2>6. t \in SweepState /\ SweepTyped(t)
    <3>1. t \in {H!Resting, loop} \/ (t = silent /\ ~(H!FirstOf(h.cursor) > H!LastClosed))
      OBVIOUS
    <3> HIDE DEF t, loop, silent, h
    <3> QED
      BY <2>4, <2>5, <3>1, RestingIs
  <2> HIDE DEF t
  <2> QED
    BY <2>1, <2>6, OneSweep DEF HealthTyped, RowTyped
<1>3. ASSUME NEW w \in Worker, H!Book(w) PROVE HealthTyped'
  <2> DEFINE h == worker[w].row  b == H!Min(worker[w].page)  s == H!SampleAt(b)
             page == worker[w].page \ {s.at}
             t == [worker[w] EXCEPT !.row = H!Step(h, s), !.page = page]
  <2>1. RowTyped(h) /\ worker[w] \in SweepState /\ SweepTyped(worker[w])
    BY DEF HealthTyped, SweepTyped
  <2>2. worker[w].page \subseteq H!Bucket /\ worker[w].page # {} /\ H!Bucket \subseteq Nat
    BY <1>3, <2>1, HealthNumbers DEF H!Book, SweepState
  <2>3. b \in worker[w].page /\ \A x \in worker[w].page : b <= x
    BY <2>2, FirstIs
  <2>4. b \in H!Bucket /\ series[b] # None /\ (h.cursor # None => h.cursor < b)
    BY <2>1, <2>2, <2>3 DEF SweepTyped
  <2>5. s \in Sample /\ s.at = b
    BY <2>4, SampleIs DEF HealthTyped
  <2>6. /\ RowTyped(H!Step(h, s)) /\ H!Step(h, s).cursor = b
        /\ H!Closed(h.window, h.prev, s) => h.window.from < b
    BY <2>1, <2>4, <2>5, StepIs
  <2>7. IsFiniteSet(page) /\ Cardinality(page) <= Page
    <3>1. IsFiniteSet(worker[w].page) /\ Cardinality(worker[w].page) <= Page
      BY <2>1 DEF SweepTyped
    <3>2. IsFiniteSet(page) /\ Cardinality(page) <= Cardinality(worker[w].page)
          /\ Cardinality(page) \in Nat /\ Cardinality(worker[w].page) \in Nat
      BY <3>1, FS_Subset, FS_CardinalityType
    <3> QED
      BY <3>1, <3>2, HealthNumbers
  <2>8. \A x \in page : series[x] # None /\ b < x
    <3> TAKE x \in page
    <3>1. x \in worker[w].page /\ x # b
      BY <2>5
    <3>2. x \in Nat /\ b \in Nat /\ b <= x
      BY <2>2, <2>3, <3>1
    <3> QED
      BY <2>1, <3>1, <3>2 DEF SweepTyped
  <2>9. t \in SweepState /\ SweepTyped(t)
    <3>1. t.row = H!Step(h, s) /\ t.page = page /\ t.pc = worker[w].pc /\ t \in SweepState
      <4> HIDE DEF s, b, h
      <4> QED
        BY <2>1, <2>2, <2>6 DEF SweepState, RowTyped
    <3>2. t.pc = "loop"
      BY <1>3, <3>1 DEF H!Book
    <3> HIDE DEF t, page, s, b, h
    <3> QED
      BY <2>6, <2>7, <2>8, <3>1, <3>2 DEF SweepTyped
  <2>10. worker' = [worker EXCEPT ![w] = t]
    BY <1>3 DEF H!Book, HealthTyped, SweepState
  <2>11. UNCHANGED <<clock, series, health, lapses>>
    BY <1>3 DEF H!Book
  <2>12. \A e \in DOMAIN estimates' : e.from < e.to /\ estimates'[e] \in 1..2
    <3> DEFINE e1 == [from |-> h.window.from, to |-> s.at,
                      span |-> h.window.soc - s.soc, energy |-> h.window.energy]
    <3>1. estimates' = IF H!Closed(h.window, h.prev, s) THEN H!Inserted(e1) ELSE estimates
      BY <1>3 DEF H!Book
    <3>2. CASE ~H!Closed(h.window, h.prev, s)
      BY <3>1, <3>2 DEF HealthTyped
    <3>3. CASE H!Closed(h.window, h.prev, s)
      <4>1. e1.from < e1.to
        BY <2>5, <2>6, <3>3
      <4>2. estimates' = H!Inserted(e1)
        BY <3>1, <3>3
      <4> HIDE DEF e1
      <4> QED
        BY <4>1, <4>2 DEF H!Inserted, HealthTyped
    <3> QED
      BY <3>2, <3>3
  <2> HIDE DEF t
  <2> QED
    BY <2>9, <2>10, <2>11, <2>12, OneSweep DEF HealthTyped, RowTyped
<1>4. ASSUME NEW w \in Worker, H!Update(w) \/ H!MoveOn(w) PROVE HealthTyped'
  <2>1. worker' = [worker EXCEPT ![w] = H!Resting] /\ UNCHANGED <<clock, series, estimates, lapses>>
    BY <1>4 DEF H!Update, H!MoveOn
  <2>2. CASE H!Update(w)
    BY <2>1, <2>2, RestingIs, OneSweep DEF HealthTyped, SweepTyped, RowTyped, H!Update
  <2>3. CASE H!MoveOn(w)
    <3>1. worker[w].row.cursor \in H!Bucket
      BY <2>3 DEF H!MoveOn, HealthTyped, SweepTyped
    <3>2. RowTyped(health)
      BY DEF HealthTyped
    <3>3. RowTyped(health')
      BY <2>3, <3>1, <3>2, MovedOnIs DEF H!MoveOn
    <3> QED
      BY <2>1, <3>3, RestingIs, OneSweep DEF HealthTyped, RowTyped
  <2> QED
    BY <1>4, <2>2, <2>3
<1>5. ASSUME NEW w \in Worker, H!Fails(w) PROVE HealthTyped'
  <2>1. worker' = [worker EXCEPT ![w] = H!Resting] /\ UNCHANGED <<clock, series, health, estimates>>
    BY <1>5 DEF H!Fails
  <2>2. lapses' \in 0..MaxLapses
    BY <1>5, HealthNumbers DEF H!Fails, HealthTyped
  <2> QED
    BY <2>1, <2>2, RestingIs, OneSweep DEF HealthTyped, RowTyped
<1>6. ASSUME H!Tick PROVE HealthTyped'
  <2>1. clock' \in 0..LastBucket + Grace + 1
    BY <1>6, HealthNumbers DEF H!Tick, HealthTyped
  <2> QED
    BY <1>6, <2>1 DEF H!Tick, HealthTyped, RowTyped, SweepTyped
<1> QED
  BY <1>1, <1>2, <1>3, <1>4, <1>5, <1>6 DEF H!Next, H!Work

\* A cardinality, in the words of either module.
LEMMA SameCardinality == \A S : H!Cardinality(S) = Cardinality(S)
BY Zenon DEF Cardinality, H!Cardinality

LEMMA HealthIsTyped == ASSUME H!SohAssumption, HealthTyped PROVE H!TypeOK
<1>1. \A w \in Worker : /\ worker[w].pc \in {"idle", "read", "loop", "silent"}
                        /\ H!Cardinality(worker[w].page) <= Page
  BY SameCardinality DEF HealthTyped, SweepTyped, SweepState
<1>2. /\ health.cursor \in H!Bucket \cup {None}
      /\ {health.discharged, health.charged, health.travelled, health.samples} \subseteq Nat
  BY DEF HealthTyped, RowTyped, RowState
<1> QED
  BY <1>1, <1>2 DEF HealthTyped, H!TypeOK

---------------------------------------------------------------------------
(***************************************************************************)
(* Sums over a function, as the fold computes them: an iteration over the    *)
(* subsets of its domain.  Induction is by a smallest set that would refute  *)
(* the fact (LeastNumber).                                                   *)
(***************************************************************************)
Pick(s) == CHOOSE x \in s : TRUE
Iterates(it, f, S) ==
  it = [s \in SUBSET S |-> IF s = {} THEN 0 ELSE f[Pick(s)] + it[s \ {Pick(s)}]]

LEMMA PickIs == ASSUME NEW s, s # {} PROVE Pick(s) \in s
BY DEF Pick

LEMMA SumIs ==
  ASSUME NEW f
  PROVE  H!Sum(f) = (CHOOSE it : Iterates(it, f, DOMAIN f))[DOMAIN f]
BY DEF H!Sum, H!MapThenSumSet, H!MapThenFoldSet, Iterates, Pick

\* The iteration up to a size.
Rounds(it, f, S, n) ==
  it = [s \in {t \in SUBSET S : Cardinality(t) <= n} |->
          IF s = {} THEN 0 ELSE f[Pick(s)] + it[s \ {Pick(s)}]]

LEMMA RoundsExist ==
  ASSUME NEW S, IsFiniteSet(S), NEW f, NEW n \in Nat
  PROVE  \E it : Rounds(it, f, S, n)
<1> DEFINE bad == {k \in Nat : ~ \E it : Rounds(it, f, S, k)}
<1>1. SUFFICES ASSUME bad # {} PROVE FALSE
  OBVIOUS
<1>2. PICK k \in bad : \A j \in bad : k <= j
  BY <1>1, LeastNumber
<1>3. \A t \in SUBSET S : Cardinality(t) \in Nat /\ (Cardinality(t) = 0 <=> t = {})
  BY FS_Subset, FS_CardinalityType, FS_EmptySet
<1>4. ASSUME NEW t \in SUBSET S, t # {}
      PROVE  /\ t \ {Pick(t)} \in SUBSET S
             /\ Cardinality(t \ {Pick(t)}) = Cardinality(t) - 1
  BY <1>4, PickIs, FS_Subset, FS_RemoveElement
<1>5. k \in Nat /\ ~ \E it : Rounds(it, f, S, k)
  OBVIOUS
<1>6. CASE k = 0
  <2> DEFINE it == [s \in {t \in SUBSET S : Cardinality(t) <= 0} |-> 0]
  <2>1. \A s \in {t \in SUBSET S : Cardinality(t) <= 0} : s = {}
    BY <1>3
  <2>2. it = [s \in {t \in SUBSET S : Cardinality(t) <= 0} |->
                IF s = {} THEN 0 ELSE f[Pick(s)] + it[s \ {Pick(s)}]]
    BY <2>1
  <2> HIDE DEF it
  <2>3. Rounds(it, f, S, 0)
    BY <2>2 DEF Rounds
  <2> QED
    BY <1>5, <1>6, <2>3
<1>7. CASE k # 0
  <2>1. k - 1 \in Nat
    BY <1>5, <1>7
  <2>2. k - 1 \notin bad
    BY <1>2, <1>5, <2>1
  <2>3. PICK it : Rounds(it, f, S, k - 1)
    BY <2>1, <2>2
  <2> DEFINE small == {t \in SUBSET S : Cardinality(t) <= k - 1}
             large == {t \in SUBSET S : Cardinality(t) <= k}
             more == [s \in large |-> IF s = {} THEN 0 ELSE f[Pick(s)] + it[s \ {Pick(s)}]]
  <2>4. \A s \in small : s \in large /\ more[s] = it[s]
    <3> TAKE s \in small
    <3>1. s \in large
      BY <1>3, <1>5
    <3>2. it[s] = IF s = {} THEN 0 ELSE f[Pick(s)] + it[s \ {Pick(s)}]
      BY <2>3 DEF Rounds
    <3> QED
      BY <3>1, <3>2
  <2>5. \A s \in large : s # {} => s \ {Pick(s)} \in small
    BY <1>3, <1>4, <1>5
  <2>6. more = [s \in large |-> IF s = {} THEN 0 ELSE f[Pick(s)] + more[s \ {Pick(s)}]]
    <3> DEFINE next == [s \in large |-> IF s = {} THEN 0 ELSE f[Pick(s)] + more[s \ {Pick(s)}]]
    <3>1. ASSUME NEW s \in large PROVE more[s] = next[s]
      <4>1. s # {} => more[s \ {Pick(s)}] = it[s \ {Pick(s)}]
        BY <2>4, <2>5
      <4> HIDE DEF large, small
      <4>2. more[s] = IF s = {} THEN 0 ELSE f[Pick(s)] + it[s \ {Pick(s)}]
        OBVIOUS
      <4>3. next[s] = IF s = {} THEN 0 ELSE f[Pick(s)] + more[s \ {Pick(s)}]
        OBVIOUS
      <4> HIDE DEF more, next
      <4> QED
        BY <4>1, <4>2, <4>3
    <3> HIDE DEF large
    <3>2. more = [s \in large |-> more[s]] /\ next = [s \in large |-> next[s]]
      OBVIOUS
    <3> HIDE DEF more, next
    <3>3. more = next
      BY <3>1, <3>2
    <3> QED
      BY <3>3 DEF next
  <2> HIDE DEF more
  <2>7. Rounds(more, f, S, k)
    BY <2>6 DEF Rounds
  <2> QED
    BY <1>5, <2>7
<1> QED
  BY <1>6, <1>7

LEMMA IterationExists ==
  ASSUME NEW S, IsFiniteSet(S), NEW f
  PROVE  \E it : Iterates(it, f, S)
<1>1. Cardinality(S) \in Nat
  BY FS_CardinalityType
<1>2. PICK it : Rounds(it, f, S, Cardinality(S))
  BY <1>1, RoundsExist
<1>3. {t \in SUBSET S : Cardinality(t) <= Cardinality(S)} = SUBSET S
  BY FS_Subset
<1>4. Iterates(it, f, S)
  BY <1>2, <1>3 DEF Rounds, Iterates
<1> QED
  BY <1>4

\* The sum of a subset is a number, and any element can be taken out of it first.
TakesFrom(it, f, s) == it[s] \in Int /\ \A x \in s : it[s] = f[x] + it[s \ {x}]
LEMMA IterationIs ==
  ASSUME NEW S, IsFiniteSet(S), NEW f, \A x \in S : f[x] \in Int, NEW it, Iterates(it, f, S)
  PROVE  it[{}] = 0 /\ TakesFrom(it, f, S)
<1>1. \A s \in SUBSET S : it[s] = IF s = {} THEN 0 ELSE f[Pick(s)] + it[s \ {Pick(s)}]
  BY DEF Iterates
<1>2. \A t \in SUBSET S : IsFiniteSet(t) /\ Cardinality(t) \in Nat
  BY FS_Subset, FS_CardinalityType
<1>3. ASSUME NEW t \in SUBSET S, NEW x \in t
      PROVE  t \ {x} \in SUBSET S /\ Cardinality(t \ {x}) < Cardinality(t)
  BY <1>2, FS_RemoveElement
<1> DEFINE Fine(s) == it[s] \in Int /\ \A x \in s : it[s] = f[x] + it[s \ {x}]
           bad == {n \in Nat : \E s \in SUBSET S : Cardinality(s) = n /\ ~Fine(s)}
<1>4. bad = {}
  <2>1. SUFFICES ASSUME bad # {} PROVE FALSE
    OBVIOUS
  <2>2. PICK n \in bad : \A m \in bad : n <= m
    BY <2>1, LeastNumber
  <2>3. PICK s \in SUBSET S : Cardinality(s) = n /\ ~Fine(s)
    OBVIOUS
  <2>4. \A t \in SUBSET S : Cardinality(t) < n => Fine(t)
    <3> TAKE t \in SUBSET S
    <3> HAVE Cardinality(t) < n
    <3>1. Cardinality(t) \in Nat /\ Cardinality(t) \notin bad
      BY <1>2, <2>2
    <3> HIDE DEF Fine
    <3> QED
      BY <3>1
  <2>5. CASE s = {}
    <3>1. it[s] = 0
      BY <1>1, <2>5
    <3> QED
      BY <2>3, <2>5, <3>1
  <2>6. CASE s # {}
    <3> DEFINE p == Pick(s)
    <3>1. p \in s /\ s \ {p} \in SUBSET S /\ Cardinality(s \ {p}) < n
      BY <1>3, <2>3, <2>6, PickIs
    <3>2. it[s] = f[p] + it[s \ {p}] /\ it[s \ {p}] \in Int /\ f[p] \in Int
      BY <1>1, <2>4, <2>6, <3>1
    <3>3. ASSUME NEW x \in s PROVE it[s] = f[x] + it[s \ {x}]
      <4>1. CASE x = p
        BY <3>2, <4>1
      <4>2. CASE x # p
        <5>1. x \in s \ {p} /\ p \in s \ {x} /\ (s \ {p}) \ {x} = (s \ {x}) \ {p}
          BY <3>1, <4>2
        <5>2. it[s \ {p}] = f[x] + it[(s \ {p}) \ {x}]
          BY <2>4, <3>1, <5>1
        <5>3. s \ {x} \in SUBSET S /\ Cardinality(s \ {x}) < n
          BY <1>3, <2>3
        <5>4. it[s \ {x}] = f[p] + it[(s \ {x}) \ {p}]
          BY <2>4, <5>1, <5>3
        <5>5. (s \ {x}) \ {p} \in SUBSET S /\ Cardinality((s \ {x}) \ {p}) < n
          <6>1. Cardinality((s \ {x}) \ {p}) < Cardinality(s \ {x})
            BY <1>3, <5>1, <5>3
          <6> QED
            BY <1>2, <5>3, <6>1
        <5>6. it[(s \ {x}) \ {p}] \in Int /\ f[x] \in Int
          BY <2>4, <5>5
        <5> DEFINE rest == it[(s \ {x}) \ {p}]
        <5>7. it[s \ {p}] = f[x] + rest /\ it[s \ {x}] = f[p] + rest
          BY <5>1, <5>2, <5>4
        <5> HIDE DEF p, rest
        <5> QED
          BY <3>2, <5>6, <5>7 DEF rest
      <4> QED
        BY <4>1, <4>2
    <3>4. it[s] \in Int
      <4> HIDE DEF p
      <4> QED
        BY <3>2
    <3>5. Fine(s)
      BY <3>3, <3>4
    <3> HIDE DEF Fine
    <3> QED
      BY <2>3, <3>5
  <2> QED
    BY <2>5, <2>6
<1>5. ASSUME NEW s \in SUBSET S PROVE Fine(s)
  <2>1. Cardinality(s) \in Nat /\ Cardinality(s) \notin bad
    BY <1>2, <1>4
  <2> HIDE DEF Fine
  <2> QED
    BY <2>1
<1>6. it[{}] = 0
  BY <1>1
<1>7. TakesFrom(it, f, S)
  BY <1>5 DEF TakesFrom
<1> QED
  BY <1>6, <1>7

\* Two functions that agree on a set have the same sum of it.
LEMMA SameSum ==
  ASSUME NEW S, NEW T, IsFiniteSet(S), IsFiniteSet(T), S \subseteq T, NEW f, NEW g,
         \A x \in S : f[x] = g[x] /\ f[x] \in Int, \A x \in T : g[x] \in Int,
         NEW it, Iterates(it, f, S), NEW jt, Iterates(jt, g, T)
  PROVE  it[S] = jt[S]
<1>1. \A s \in SUBSET S : it[s] = IF s = {} THEN 0 ELSE f[Pick(s)] + it[s \ {Pick(s)}]
  BY DEF Iterates
<1>2. \A s \in SUBSET S : jt[s] = IF s = {} THEN 0 ELSE g[Pick(s)] + jt[s \ {Pick(s)}]
  BY DEF Iterates
<1>3. \A t \in SUBSET S : IsFiniteSet(t) /\ Cardinality(t) \in Nat
  BY FS_Subset, FS_CardinalityType
<1> DEFINE bad == {n \in Nat : \E s \in SUBSET S : Cardinality(s) = n /\ it[s] # jt[s]}
<1>4. bad = {}
  <2>1. SUFFICES ASSUME bad # {} PROVE FALSE
    OBVIOUS
  <2>2. PICK n \in bad : \A m \in bad : n <= m
    BY <2>1, LeastNumber
  <2>3. PICK s \in SUBSET S : Cardinality(s) = n /\ it[s] # jt[s]
    OBVIOUS
  <2>4. s # {}
    BY <1>1, <1>2, <2>3
  <2> DEFINE p == Pick(s)  t == s \ {p}
  <2>5. p \in s /\ t \in SUBSET S
    BY <2>4, PickIs
  <2>6. Cardinality(t) < n /\ Cardinality(t) \in Nat
    BY <1>3, <2>3, <2>5, FS_RemoveElement
  <2>7. it[t] = jt[t]
    <3>1. n \in Nat /\ \A m \in bad : n <= m
      BY <2>2
    <3>2. Cardinality(t) \notin bad
      <4> HIDE DEF bad, t
      <4> QED
        BY <2>6, <3>1
    <3> HIDE DEF t
    <3> QED
      BY <2>5, <2>6, <3>2
  <2>8. it[s] = f[p] + it[t] /\ jt[s] = g[p] + jt[t] /\ f[p] = g[p]
    BY <1>1, <1>2, <2>4, <2>5
  <2> QED
    BY <2>3, <2>7, <2>8
<1>5. Cardinality(S) \in Nat /\ Cardinality(S) \notin bad /\ S \in SUBSET S
  BY <1>3, <1>4
<1> QED
  BY <1>5

LEMMA SumOfNone == ASSUME NEW f, DOMAIN f = {} PROVE H!Sum(f) = 0
<1>1. IsFiniteSet({}) /\ \E it : Iterates(it, f, {})
  BY FS_EmptySet, IterationExists
<1> DEFINE it == CHOOSE it : Iterates(it, f, {})
<1>2. Iterates(it, f, {})
  BY <1>1
<1>3. H!Sum(f) = it[{}]
  BY SumIs
<1> HIDE DEF it
<1> QED
  BY <1>1, <1>2, <1>3, IterationIs

LEMMA SumOfMore ==
  ASSUME NEW f, NEW g, NEW y, IsFiniteSet(DOMAIN f), DOMAIN g = DOMAIN f \cup {y}, y \notin DOMAIN f,
         \A x \in DOMAIN f : f[x] = g[x] /\ f[x] \in Int, g[y] \in Int
  PROVE  H!Sum(f) \in Int /\ H!Sum(g) = H!Sum(f) + g[y]
<1> DEFINE S == DOMAIN f  T == DOMAIN g
           it == CHOOSE it : Iterates(it, f, S)
           jt == CHOOSE jt : Iterates(jt, g, T)
<1>1. IsFiniteSet(S) /\ IsFiniteSet(T) /\ S \subseteq T /\ y \in T /\ T \ {y} = S
  BY FS_AddElement
<1>2. \A x \in S : f[x] \in Int /\ f[x] = g[x]
  OBVIOUS
<1>3. \A x \in T : g[x] \in Int
  OBVIOUS
<1>4. Iterates(it, f, S) /\ Iterates(jt, g, T)
  BY <1>1, IterationExists
<1>5. H!Sum(f) = it[S] /\ H!Sum(g) = jt[T]
  BY SumIs
<1> HIDE DEF S, T, it, jt
<1>6. it[S] \in Int
  BY <1>1, <1>2, <1>4, IterationIs DEF TakesFrom
<1>7. jt[T] = g[y] + jt[T \ {y}]
  <2>1. TakesFrom(jt, g, T)
    BY <1>1, <1>3, <1>4, IterationIs
  <2> QED
    BY <1>1, <2>1 DEF TakesFrom
<1>8. it[S] = jt[S]
  BY <1>1, <1>2, <1>3, <1>4, SameSum
<1>9. g[y] \in Int
  OBVIOUS
<1>10. jt[T] = g[y] + it[S]
  BY <1>1, <1>7, <1>8
<1> QED
  BY <1>5, <1>6, <1>9, <1>10

---------------------------------------------------------------------------
\* The buckets that were sent, and what flowed between those of a set.
Sent == {b \in H!Bucket : series[b] # None}
Discharge(S) == [x \in H!Neighbours(S) |-> H!Flow(S)[x].discharged]
Charge(S) == [x \in H!Neighbours(S) |-> H!Flow(S)[x].charged]
Last(S, m) == m \in S /\ \A x \in S : x <= m

LEMMA SentIs == ASSUME H!SohAssumption PROVE Sent \subseteq Nat /\ Sent \subseteq H!Bucket /\ IsFiniteSet(Sent)
<1>1. Sent \subseteq H!Bucket /\ Sent \subseteq Nat
  BY HealthNumbers DEF Sent
<1>2. IsFiniteSet(0..LastBucket)
  BY FS_Interval, HealthNumbers
<1> QED
  BY <1>1, <1>2, FS_Subset DEF H!Bucket

LEMMA LastExists ==
  ASSUME H!SohAssumption, NEW S \in SUBSET Sent, S # {}
  PROVE  \E m \in S : Last(S, m)
<1> DEFINE Up == {n \in Nat : \A x \in S : x <= n}
<1>1. S \subseteq Nat /\ LastBucket \in Up
  BY SentIs, HealthNumbers DEF Sent, H!Bucket
<1>2. PICK n \in Up : \A k \in Up : n <= k
  BY <1>1, LeastNumber
<1>3. n \in Nat /\ \A x \in S : x <= n
  OBVIOUS
<1>4. n \in S
  <2>1. SUFFICES ASSUME n \notin S PROVE FALSE
    OBVIOUS
  <2>2. PICK y \in S : TRUE
    OBVIOUS
  <2>3. y \in Nat /\ y <= n /\ y # n
    BY <1>1, <1>3, <2>1
  <2>4. n - 1 \in Nat
    BY <1>3, <2>3
  <2>5. \A x \in S : x <= n - 1
    <3> TAKE x \in S
    <3>1. x \in Nat /\ x <= n /\ x # n
      BY <1>1, <1>3, <2>1
    <3> QED
      BY <1>3, <3>1
  <2>6. n - 1 \in Up
    BY <2>4, <2>5
  <2>7. n <= n - 1
    BY <1>2, <2>6
  <2> QED
    BY <1>3, <2>7
<1> QED
  BY <1>3, <1>4 DEF Last

LEMMA NeighboursOf ==
  ASSUME H!SohAssumption, NEW S \in SUBSET Sent
  PROVE  /\ IsFiniteSet(H!Neighbours(S))
         /\ \A x \in H!Neighbours(S) : x[1] \in S /\ x[2] \in S /\ x[1] < x[2]
<1>1. IsFiniteSet(S)
  BY SentIs, FS_Subset
<1>2. IsFiniteSet(S \X S) /\ H!Neighbours(S) \subseteq S \X S
  BY <1>1, FS_Product DEF H!Neighbours
<1>3. IsFiniteSet(H!Neighbours(S))
  BY <1>2, FS_Subset
<1> QED
  BY <1>3 DEF H!Neighbours

LEMMA OneMore ==
  ASSUME H!SohAssumption, NEW S \in SUBSET Sent, NEW b \in Sent, \A x \in S : x < b
  PROVE  /\ S = {} => H!Neighbours(S \cup {b}) = {}
         /\ \A m : Last(S, m) => /\ H!Neighbours(S \cup {b}) = H!Neighbours(S) \cup {<<m, b>>}
                                 /\ <<m, b>> \notin H!Neighbours(S)
<1>1. S \subseteq Nat /\ b \in Nat
  BY SentIs
<1>2. ASSUME S = {} PROVE H!Neighbours(S \cup {b}) = {}
  BY <1>1, <1>2 DEF H!Neighbours
<1>3. ASSUME NEW m, Last(S, m)
      PROVE  /\ H!Neighbours(S \cup {b}) = H!Neighbours(S) \cup {<<m, b>>}
             /\ <<m, b>> \notin H!Neighbours(S)
  <2> DEFINE T == S \cup {b}
  <2>1. m \in S /\ m \in Nat /\ m < b /\ \A x \in S : x <= m
    BY <1>1, <1>3 DEF Last
  <2>2. b \notin S
    BY <1>1
  <2>3. <<m, b>> \notin H!Neighbours(S)
    BY <2>2 DEF H!Neighbours
  <2>4. ASSUME NEW x \in H!Neighbours(T) PROVE x \in H!Neighbours(S) \cup {<<m, b>>}
    <3>1. x \in T \X T /\ x[1] < x[2] /\ \A c \in T : c <= x[1] \/ c >= x[2]
      BY DEF H!Neighbours
    <3>2. PICK u \in T, v \in T : x = <<u, v>>
      BY <3>1
    <3>3. u < v /\ \A c \in T : c <= u \/ c >= v
      BY <3>1, <3>2
    <3>4. u \in Nat /\ v \in Nat /\ u # b
      BY <1>1, <3>2, <3>3
    <3>5. u \in S
      BY <3>4
    <3>6. CASE v = b
      <4>1. m <= u \/ m >= v
        BY <2>1, <3>3
      <4>2. u = m
        BY <2>1, <3>4, <3>5, <3>6, <4>1
      <4> QED
        BY <3>2, <3>6, <4>2
    <3>7. CASE v # b
      <4>1. v \in S /\ <<u, v>> \in S \X S
        BY <3>5, <3>7
      <4>2. <<u, v>> \in H!Neighbours(S)
        BY <3>3, <4>1 DEF H!Neighbours
      <4> QED
        BY <3>2, <4>2
    <3> QED
      BY <3>6, <3>7
  <2>5. ASSUME NEW x \in H!Neighbours(S) PROVE x \in H!Neighbours(T)
    <3>1. x \in S \X S /\ x[1] < x[2] /\ \A c \in S : c <= x[1] \/ c >= x[2]
      BY DEF H!Neighbours
    <3>2. PICK u \in S, v \in S : x = <<u, v>>
      BY <3>1
    <3>3. u < v /\ \A c \in S : c <= u \/ c >= v
      BY <3>1, <3>2
    <3>4. v \in Nat /\ b >= v /\ <<u, v>> \in T \X T
      BY <1>1
    <3>5. \A c \in T : c <= u \/ c >= v
      BY <3>3, <3>4
    <3>6. <<u, v>> \in H!Neighbours(T)
      BY <3>3, <3>4, <3>5 DEF H!Neighbours
    <3> QED
      BY <3>2, <3>6
  <2>6. <<m, b>> \in H!Neighbours(T)
    <3>1. <<m, b>> \in T \X T
      BY <2>1
    <3>2. \A c \in T : c <= m \/ c >= b
      BY <1>1, <2>1
    <3> QED
      BY <2>1, <3>1, <3>2 DEF H!Neighbours
  <2> HIDE DEF T
  <2>7. H!Neighbours(T) = H!Neighbours(S) \cup {<<m, b>>}
    BY <2>4, <2>5, <2>6
  <2> QED
    BY <2>3, <2>7 DEF T
<1> QED
  BY <1>2, <1>3

LEMMA FlowIs ==
  ASSUME H!SohAssumption, series \in Series, NEW S \in SUBSET Sent, NEW x \in H!Neighbours(S)
  PROVE  /\ H!Flow(S)[x] = H!Throughput(H!SampleAt(x[1]), H!SampleAt(x[2])) /\ H!Flow(S)[x] \in Energies
         /\ Discharge(S)[x] = H!Throughput(H!SampleAt(x[1]), H!SampleAt(x[2])).discharged /\ Discharge(S)[x] \in Nat
         /\ Charge(S)[x] = H!Throughput(H!SampleAt(x[1]), H!SampleAt(x[2])).charged /\ Charge(S)[x] \in Nat
<1>1. x[1] \in Sent /\ x[2] \in Sent /\ x[1] \in Nat /\ x[2] \in Nat /\ x[1] < x[2]
  BY NeighboursOf, SentIs
<1>2. H!SampleAt(x[1]) \in Sample /\ H!SampleAt(x[2]) \in Sample /\ H!SampleAt(x[1]).at = x[1] /\ H!SampleAt(x[2]).at = x[2]
  BY <1>1, SampleIs DEF Sent
<1> DEFINE p == H!SampleAt(x[1])  s == H!SampleAt(x[2])
<1>3. p.at <= s.at
  BY <1>1, <1>2
<1> HIDE DEF p, s
<1>4. H!Throughput(p, s) \in Energies
  BY <1>2, <1>3, ThroughputIs DEF p, s
<1>5. H!Flow(S)[x] = H!Throughput(p, s)
  BY DEF H!Flow, p, s
<1>6. Discharge(S)[x] = H!Flow(S)[x].discharged /\ Charge(S)[x] = H!Flow(S)[x].charged
  BY DEF Discharge, Charge
<1>7. H!Throughput(p, s).discharged \in Nat /\ H!Throughput(p, s).charged \in Nat
  BY <1>4 DEF Energies
<1> HIDE DEF p, s
<1> QED
  BY <1>4, <1>5, <1>6, <1>7 DEF p, s

\* The next sample adds what flowed since the last one.
LEMMA OutGrows ==
  ASSUME H!SohAssumption, series \in Series, NEW S \in SUBSET Sent, NEW b \in Sent, \A x \in S : x < b
  PROVE  /\ S = {} => H!Out(S) = 0 /\ H!In(S) = 0 /\ H!Out(S \cup {b}) = 0 /\ H!In(S \cup {b}) = 0
         /\ \A m : Last(S, m) =>
              /\ H!Out(S) \in Int /\ H!In(S) \in Int
              /\ H!Out(S \cup {b}) = H!Out(S) + H!Throughput(H!SampleAt(m), H!SampleAt(b)).discharged
              /\ H!In(S \cup {b}) = H!In(S) + H!Throughput(H!SampleAt(m), H!SampleAt(b)).charged
<1>1. \A T : H!Out(T) = H!Sum(Discharge(T)) /\ H!In(T) = H!Sum(Charge(T))
  BY DEF H!Out, H!In, Discharge, Charge
<1>2. \A T : DOMAIN Discharge(T) = H!Neighbours(T) /\ DOMAIN Charge(T) = H!Neighbours(T)
  BY DEF Discharge, Charge
<1>3. ASSUME S = {} PROVE H!Out(S) = 0 /\ H!In(S) = 0 /\ H!Out(S \cup {b}) = 0 /\ H!In(S \cup {b}) = 0
  <2>1. H!Neighbours(S) = {}
    BY <1>3 DEF H!Neighbours
  <2>2. H!Neighbours(S \cup {b}) = {}
    BY <1>3, OneMore
  <2> QED
    BY <1>1, <1>2, <2>1, <2>2, SumOfNone
<1>4. ASSUME NEW m, Last(S, m)
      PROVE  /\ H!Out(S) \in Int /\ H!In(S) \in Int
             /\ H!Out(S \cup {b}) = H!Out(S) + H!Throughput(H!SampleAt(m), H!SampleAt(b)).discharged
             /\ H!In(S \cup {b}) = H!In(S) + H!Throughput(H!SampleAt(m), H!SampleAt(b)).charged
  <2> DEFINE T == S \cup {b}  y == <<m, b>>
  <2>1. H!Neighbours(T) = H!Neighbours(S) \cup {y} /\ y \notin H!Neighbours(S)
    BY <1>4, OneMore
  <2>2. T \in SUBSET Sent /\ IsFiniteSet(H!Neighbours(S))
    BY NeighboursOf
  <2>3. y[1] = m /\ y[2] = b
    OBVIOUS
  <2> HIDE DEF T, y
  <2>4. \A x \in H!Neighbours(S) : /\ Discharge(S)[x] \in Int /\ Discharge(S)[x] = Discharge(T)[x]
                                 /\ Charge(S)[x] \in Int /\ Charge(S)[x] = Charge(T)[x]
    <3> TAKE x \in H!Neighbours(S)
    <3>1. x \in H!Neighbours(T)
      BY <2>1
    <3>2. Discharge(S)[x] = H!Throughput(H!SampleAt(x[1]), H!SampleAt(x[2])).discharged /\ Discharge(S)[x] \in Nat
          /\ Charge(S)[x] = H!Throughput(H!SampleAt(x[1]), H!SampleAt(x[2])).charged /\ Charge(S)[x] \in Nat
      BY FlowIs
    <3>3. Discharge(T)[x] = H!Throughput(H!SampleAt(x[1]), H!SampleAt(x[2])).discharged
          /\ Charge(T)[x] = H!Throughput(H!SampleAt(x[1]), H!SampleAt(x[2])).charged
      BY <2>2, <3>1, FlowIs
    <3> QED
      BY <3>2, <3>3
  <2>5. /\ Discharge(T)[y] = H!Throughput(H!SampleAt(m), H!SampleAt(b)).discharged /\ Discharge(T)[y] \in Int
        /\ Charge(T)[y] = H!Throughput(H!SampleAt(m), H!SampleAt(b)).charged /\ Charge(T)[y] \in Int
    <3>1. y \in H!Neighbours(T)
      BY <2>1
    <3>2. /\ Discharge(T)[y] = H!Throughput(H!SampleAt(y[1]), H!SampleAt(y[2])).discharged /\ Discharge(T)[y] \in Nat
          /\ Charge(T)[y] = H!Throughput(H!SampleAt(y[1]), H!SampleAt(y[2])).charged /\ Charge(T)[y] \in Nat
      BY <2>2, <3>1, FlowIs
    <3> QED
      BY <2>3, <3>2
  <2>6. H!Sum(Discharge(S)) \in Int /\ H!Sum(Discharge(T)) = H!Sum(Discharge(S)) + Discharge(T)[y]
    <3> DEFINE f == Discharge(S)  g == Discharge(T)
    <3>1. DOMAIN f = H!Neighbours(S) /\ DOMAIN g = H!Neighbours(T)
      BY <1>2
    <3> HIDE DEF f, g
    <3>2. H!Sum(f) \in Int /\ H!Sum(g) = H!Sum(f) + g[y]
      <4>1. IsFiniteSet(DOMAIN f) /\ DOMAIN g = DOMAIN f \cup {y} /\ y \notin DOMAIN f
        BY <2>1, <2>2, <3>1
      <4>2. (\A x \in DOMAIN f : f[x] = g[x] /\ f[x] \in Int) /\ g[y] \in Int
        BY <2>4, <2>5, <3>1 DEF f, g
      <4> QED
        BY <4>1, <4>2, SumOfMore
    <3> QED
      BY <3>2 DEF f, g
  <2>7. H!Sum(Charge(S)) \in Int /\ H!Sum(Charge(T)) = H!Sum(Charge(S)) + Charge(T)[y]
    <3> DEFINE f == Charge(S)  g == Charge(T)
    <3>1. DOMAIN f = H!Neighbours(S) /\ DOMAIN g = H!Neighbours(T)
      BY <1>2
    <3> HIDE DEF f, g
    <3>2. H!Sum(f) \in Int /\ H!Sum(g) = H!Sum(f) + g[y]
      <4>1. IsFiniteSet(DOMAIN f) /\ DOMAIN g = DOMAIN f \cup {y} /\ y \notin DOMAIN f
        BY <2>1, <2>2, <3>1
      <4>2. (\A x \in DOMAIN f : f[x] = g[x] /\ f[x] \in Int) /\ g[y] \in Int
        BY <2>4, <2>5, <3>1 DEF f, g
      <4> QED
        BY <4>1, <4>2, SumOfMore
    <3> QED
      BY <3>2 DEF f, g
  <2>8. H!Out(S) \in Int /\ H!In(S) \in Int /\ H!Out(T) = H!Out(S) + Discharge(T)[y] /\ H!In(T) = H!In(S) + Charge(T)[y]
    BY <1>1, <2>6, <2>7
  <2> QED
    BY <2>5, <2>8 DEF T
<1> QED
  BY <1>3, <1>4

---------------------------------------------------------------------------
(***************************************************************************)
(* What a row is worth: everything up to the cursor is booked, prev is the   *)
(* sample at the cursor or too far back to matter, and an open window is an  *)
(* unbroken discharge up to the cursor.                                      *)
(***************************************************************************)
Between(from, to) == {b \in from..to : series[b] # None}
Unbroken(Q) ==
  /\ \A b \in Q : series[b].soc # None /\ H!Discharging(series[b])
  /\ \A x \in H!Neighbours(Q) : x[2] - x[1] <= MaxGap
WindowSound(h) ==
  LET run == Between(h.window.from, h.cursor) IN
  /\ h.prev # None /\ h.window.from \in Sent
  /\ Unbroken(run)
  /\ h.window.soc = series[h.window.from].soc /\ h.window.energy = H!Out(run)
BookedRow(h) ==
  /\ h.prev # None => h.cursor \in Sent /\ h.prev = H!SampleAt(h.cursor)
  /\ h.prev = None => \A b \in H!UpTo(h.cursor) : b + MaxGap < h.cursor
  /\ h.discharged = H!Out(H!UpTo(h.cursor)) /\ h.charged = H!In(H!UpTo(h.cursor))
  /\ h.window # None => WindowSound(h)

Above(b, h) == h.cursor # None => h.cursor < b
NextSample(h, b) == b \in Sent /\ Above(b, h) /\ \A x \in Sent : Above(x, h) => b <= x

Made(h, b) == [from |-> h.window.from, to |-> b,
               span |-> h.window.soc - H!SampleAt(b).soc, energy |-> h.window.energy]
EstimateSound(e) ==
  LET there == Between(e.from, e.to)
      inside == there \ {e.to}
  IN /\ {e.from, e.to} \subseteq there /\ e.from \in Sent /\ e.to \in Sent
     /\ \A b \in inside : series[b].soc # None /\ H!Discharging(series[b])
     /\ \A x \in H!Neighbours(there) : x[2] - x[1] <= MaxGap
     /\ e.span = series[e.from].soc - series[e.to].soc /\ e.span >= MinSpan
     /\ e.energy = H!Out(inside)

LEMMA UpToIs ==
  ASSUME H!SohAssumption, NEW c \in H!Bucket \cup {None}
  PROVE  /\ H!UpTo(c) \in SUBSET Sent
         /\ H!UpTo(c) = {x \in Sent : c # None /\ x <= c}
<1>1. CASE c = None
  BY <1>1 DEF H!UpTo
<1>2. CASE c # None
  <2>1. c \in Nat /\ c <= LastBucket /\ LastBucket \in Nat
    BY <1>2, HealthNumbers DEF H!Bucket
  <2>2. H!UpTo(c) = {x \in 0..c : series[x] # None}
    BY <1>2 DEF H!UpTo
  <2>3. \A x : x \in 0..c <=> x \in H!Bucket /\ x <= c
    BY <2>1 DEF H!Bucket
  <2>4. H!UpTo(c) = {x \in Sent : c # None /\ x <= c}
    BY <1>2, <2>2, <2>3 DEF Sent
  <2> QED
    BY <2>4
<1> QED
  BY <1>1, <1>2

LEMMA SampleIsSent ==
  ASSUME H!SohAssumption, series \in Series, NEW b \in Sent
  PROVE  /\ H!SampleAt(b) \in Sample /\ H!SampleAt(b) # None /\ H!SampleAt(b).at = b
         /\ H!SampleAt(b).soc = series[b].soc /\ H!SampleAt(b).kw = series[b].kw
         /\ H!Discharging(H!SampleAt(b)) <=> H!Discharging(series[b])
<1>1. H!SampleAt(b) \in Sample
  BY SampleIs DEF Sent
<1> QED
  BY <1>1, HealthNumbers DEF H!SampleAt, H!Discharging

LEMMA NoThroughput ==
  ASSUME NEW p, NEW s, p = None \/ s.at - p.at > MaxGap
  PROVE  H!Throughput(p, s) = [discharged |-> 0, charged |-> 0]
BY DEF H!Throughput, H!Both

LEMMA UpToNext ==
  ASSUME H!SohAssumption, NEW h, RowTyped(h), NEW b, NextSample(h, b)
  PROVE  /\ H!UpTo(b) = H!UpTo(h.cursor) \cup {b} /\ \A x \in H!UpTo(h.cursor) : x < b
         /\ H!UpTo(h.cursor) \in SUBSET Sent
<1>1. h.cursor \in H!Bucket \cup {None} /\ b \in Sent /\ b \in H!Bucket /\ b \in Nat /\ b # None
      /\ (h.cursor # None => h.cursor \in Nat)
  BY SentIs, HealthNumbers DEF NextSample, RowTyped, RowState
<1>2. H!UpTo(b) = {x \in Sent : x <= b}
      /\ H!UpTo(h.cursor) = {x \in Sent : h.cursor # None /\ x <= h.cursor}
  BY <1>1, UpToIs
<1>3. \A x \in Sent : x \in Nat
  BY SentIs
<1>4. ASSUME NEW x \in Sent
      PROVE  /\ h.cursor # None /\ x <= h.cursor => x < b
             /\ x <= b <=> (h.cursor # None /\ x <= h.cursor) \/ x = b
  <2>1. x \in Nat
    BY <1>3
  <2>2. h.cursor # None => h.cursor < b
    BY DEF NextSample, Above
  <2>3. (h.cursor # None => h.cursor < x) => b <= x
    BY DEF NextSample, Above
  <2> QED
    BY <1>1, <2>1, <2>2, <2>3
<1> QED
  BY <1>1, <1>2, <1>4

\* An open window, grown by the next sample.
LEMMA RunGrows ==
  ASSUME H!SohAssumption, series \in Series, NEW h, RowTyped(h), BookedRow(h), NEW b, NextSample(h, b),
         h.window # None
  PROVE  LET Q == Between(h.window.from, h.cursor) IN
         /\ Q \in SUBSET Sent /\ (\A x \in Q : x < b) /\ Last(Q, h.cursor) /\ h.window.from \in Q
         /\ Between(h.window.from, b) = Q \cup {b}
         /\ H!Neighbours(Q \cup {b}) = H!Neighbours(Q) \cup {<<h.cursor, b>>}
         /\ H!Out(Q \cup {b}) = H!Out(Q) + H!Throughput(h.prev, H!SampleAt(b)).discharged
<1> DEFINE Q == Between(h.window.from, h.cursor)
<1>1. /\ h.prev # None /\ h.window.from \in Sent /\ h.cursor \in Sent /\ h.prev = H!SampleAt(h.cursor)
      /\ h.window.from <= h.cursor /\ h.cursor # None /\ b \in Sent /\ h.cursor < b
  BY DEF BookedRow, WindowSound, RowTyped, NextSample, Above
<1>2. h.window.from \in Nat /\ h.cursor \in Nat /\ b \in Nat
  BY <1>1, SentIs
<1>3. \A x \in Sent : x \in Nat /\ (h.cursor < x => b <= x)
  BY SentIs, <1>1 DEF NextSample, Above
<1>4. b <= LastBucket /\ LastBucket \in Nat
  BY <1>1, HealthNumbers DEF Sent, H!Bucket
<1> DEFINE a == h.window.from  c == h.cursor
<1>5. Q = {x \in Sent : a <= x /\ x <= c} /\ Between(a, b) = {x \in Sent : a <= x /\ x <= b}
  BY <1>1, <1>2, <1>4 DEF Between, Sent, H!Bucket
<1>6. \A x \in Sent : x <= b <=> x <= c \/ x = b
  BY <1>1, <1>2, <1>3
<1>7. Q \in SUBSET Sent /\ (\A x \in Q : x < b) /\ Last(Q, c) /\ a \in Q
  <2> HIDE DEF Q
  <2>1. Q \in SUBSET Sent /\ a \in Q /\ c \in Q /\ \A x \in Q : x <= c
    BY <1>1, <1>2, <1>5
  <2>2. \A x \in Q : x < b
    <3> TAKE x \in Q
    <3>1. x \in Nat /\ x <= c
      BY <1>3, <2>1
    <3> QED
      BY <1>1, <1>2, <3>1
  <2> QED
    BY <2>1, <2>2 DEF Last
<1>8. Between(a, b) = Q \cup {b}
  BY <1>1, <1>2, <1>5, <1>6
<1> HIDE DEF Q
<1>9. H!Neighbours(Q \cup {b}) = H!Neighbours(Q) \cup {<<c, b>>}
  BY <1>1, <1>7, OneMore
<1>10. H!Out(Q \cup {b}) = H!Out(Q) + H!Throughput(H!SampleAt(c), H!SampleAt(b)).discharged
  BY <1>1, <1>7, OutGrows
<1> QED
  BY <1>1, <1>7, <1>8, <1>9, <1>10 DEF Q

LEMMA StepBooks ==
  ASSUME H!SohAssumption, series \in Series, NEW h, RowTyped(h), BookedRow(h), NEW b, NextSample(h, b)
  PROVE  /\ BookedRow(H!Step(h, H!SampleAt(b)))
         /\ H!Closed(h.window, h.prev, H!SampleAt(b)) => EstimateSound(Made(h, b))
<1> DEFINE S == H!UpTo(h.cursor)  s == H!SampleAt(b)  g == H!Step(h, s)
           flow == H!Throughput(h.prev, s)
<1>1. b \in Sent /\ b \in Nat /\ s # None /\ s.at = b
  BY SentIs, SampleIsSent DEF NextSample
<1>2. H!UpTo(b) = S \cup {b} /\ (\A x \in S : x < b) /\ S \in SUBSET Sent
  BY UpToNext
<1>3. /\ g.cursor = b /\ g.prev = s /\ g.window = H!Window(h.window, h.prev, s)
      /\ g.discharged = h.discharged + flow.discharged /\ g.charged = h.charged + flow.charged
  BY <1>1 DEF H!Step
<1>4. h.cursor # None => h.cursor \in Nat /\ h.cursor \in H!Bucket
  BY HealthNumbers DEF RowTyped, RowState
<1>5. g.discharged = H!Out(H!UpTo(b)) /\ g.charged = H!In(H!UpTo(b))
  <2>1. CASE S = {}
    <3>1. h.prev = None
      <4>1. SUFFICES ASSUME h.prev # None PROVE FALSE
        OBVIOUS
      <4>2. h.cursor \in Sent /\ h.cursor \in H!Bucket
        BY <4>1, SentIs DEF BookedRow
      <4>3. h.cursor \in Nat /\ h.cursor # None
        BY <4>2, HealthNumbers
      <4>4. h.cursor \in S
        BY <4>2, <4>3, UpToIs
      <4> QED
        BY <2>1, <4>4
    <3>2. flow.discharged = 0 /\ flow.charged = 0
      BY <3>1, NoThroughput
    <3>3. H!Out(S) = 0 /\ H!In(S) = 0 /\ H!Out(S \cup {b}) = 0 /\ H!In(S \cup {b}) = 0
      BY <1>1, <1>2, <2>1, OutGrows
    <3>4. h.discharged = 0 /\ h.charged = 0
      BY <3>3 DEF BookedRow
    <3> HIDE DEF S, g, flow
    <3> QED
      BY <1>2, <1>3, <3>2, <3>3, <3>4
  <2>2. CASE S # {}
    <3>1. PICK m \in S : Last(S, m)
      BY <1>2, <2>2, LastExists
    <3>2. /\ H!Out(S \cup {b}) = H!Out(S) + H!Throughput(H!SampleAt(m), s).discharged
          /\ H!In(S \cup {b}) = H!In(S) + H!Throughput(H!SampleAt(m), s).charged
      BY <1>1, <1>2, <3>1, OutGrows
    <3>3. H!Throughput(H!SampleAt(m), s) = flow
      <4>0. m \in Nat /\ m \in Sent /\ h.cursor # None /\ m <= h.cursor
        BY <1>2, <3>1, SentIs, UpToIs DEF RowTyped, RowState
      <4>1. CASE h.prev # None
        <5>1. h.cursor \in Sent /\ h.prev = H!SampleAt(h.cursor)
          BY <4>1 DEF BookedRow
        <5>2. h.cursor \in S
          BY <1>4, <4>0, <5>1, UpToIs
        <5>3. h.cursor <= m
          BY <3>1, <5>2 DEF Last
        <5>4. m = h.cursor
          BY <1>4, <4>0, <5>3
        <5> QED
          BY <5>1, <5>4
      <4>2. CASE h.prev = None
        <5>1. m + MaxGap < h.cursor
          BY <3>1, <4>2 DEF BookedRow
        <5>2. h.cursor < b
          BY <4>0 DEF NextSample, Above
        <5>3. H!SampleAt(m).at = m
          BY DEF H!SampleAt
        <5>4. s.at - H!SampleAt(m).at > MaxGap
          BY <1>1, <1>4, <4>0, <5>1, <5>2, <5>3, HealthNumbers
        <5>5. H!Throughput(H!SampleAt(m), s) = [discharged |-> 0, charged |-> 0]
          BY <5>4, NoThroughput
        <5> QED
          BY <4>2, <5>5, NoThroughput
      <4> QED
        BY <4>1, <4>2
    <3>4. h.discharged = H!Out(S) /\ h.charged = H!In(S)
      BY DEF BookedRow
    <3> HIDE DEF S, g, flow
    <3> QED
      BY <1>2, <1>3, <3>2, <3>3, <3>4
  <2> QED
    BY <2>1, <2>2
<1>6. ASSUME h.window # None
      PROVE  LET Q == Between(h.window.from, h.cursor) IN
             /\ Q \in SUBSET Sent /\ (\A x \in Q : x < b) /\ Last(Q, h.cursor) /\ h.window.from \in Q
             /\ Between(h.window.from, b) = Q \cup {b}
             /\ H!Neighbours(Q \cup {b}) = H!Neighbours(Q) \cup {<<h.cursor, b>>}
             /\ H!Out(Q \cup {b}) = H!Out(Q) + H!Throughput(h.prev, H!SampleAt(b)).discharged
  BY <1>6, RunGrows
<1>7. ASSUME h.window # None
      PROVE  h.prev # None /\ h.prev = H!SampleAt(h.cursor) /\ h.prev.at = h.cursor /\ WindowSound(h)
  BY <1>7 DEF BookedRow, WindowSound, H!SampleAt
<1>8. ASSUME g.window # None PROVE WindowSound(g)
  <2>1. s.soc # None /\ H!Discharging(s)
    BY <1>3, <1>8 DEF H!Window
  <2>2. series[b].soc # None /\ H!Discharging(series[b]) /\ s.soc = series[b].soc
    BY <1>1, <2>1, SampleIsSent
  <2>3. CASE h.window = None
    <3>1. g.window = [from |-> b, soc |-> s.soc, energy |-> 0]
      BY <1>1, <1>3, <2>1, <2>3 DEF H!Window
    <3>2. Between(b, b) = {b}
      BY <1>1 DEF Between, Sent
    <3>3. H!Neighbours({b}) = {}
      <4>1. H!Neighbours({} \cup {b}) = {}
        BY <1>1, OneMore
      <4> QED
        BY <4>1
    <3>4. H!Out({b}) = 0
      <4>1. H!Out({} \cup {b}) = 0
        BY <1>1, OutGrows
      <4>2. {} \cup {b} = {b}
        OBVIOUS
      <4> QED
        BY <4>1, <4>2
    <3>5. Unbroken({b})
      BY <2>2, <3>3 DEF Unbroken
    <3> HIDE DEF g
    <3>6. g.window.from = b /\ g.window.soc = s.soc /\ g.window.energy = 0
      BY <3>1
    <3> QED
      BY <1>1, <1>3, <2>2, <3>2, <3>4, <3>5, <3>6 DEF WindowSound
  <2>4. CASE h.window # None
    <3> DEFINE Q == Between(h.window.from, h.cursor)
    <3>1. /\ Q \in SUBSET Sent /\ (\A x \in Q : x < b) /\ h.window.from \in Q
          /\ Between(h.window.from, b) = Q \cup {b}
          /\ H!Neighbours(Q \cup {b}) = H!Neighbours(Q) \cup {<<h.cursor, b>>}
          /\ H!Out(Q \cup {b}) = H!Out(Q) + flow.discharged
      BY <1>6, <2>4
    <3>2. /\ h.prev # None /\ h.prev.at = h.cursor /\ h.window.from \in Sent /\ Unbroken(Q)
          /\ h.window.soc = series[h.window.from].soc /\ h.window.energy = H!Out(Q)
      BY <1>7, <2>4 DEF WindowSound
    <3>3. ~(s.at - h.prev.at > MaxGap)
      BY <1>3, <1>8, <2>1, <2>4, <3>2 DEF H!Window
    <3>4. g.window = [h.window EXCEPT !.energy = @ + flow.discharged]
      BY <1>3, <2>1, <2>4, <3>3 DEF H!Window
    <3>5. h.window \in WindowState
      BY <2>4 DEF RowTyped, RowState
    <3>6. g.window.from = h.window.from /\ g.window.soc = h.window.soc
          /\ g.window.energy = h.window.energy + flow.discharged
      <4> HIDE DEF g, flow
      <4> QED
        BY <3>4, <3>5 DEF WindowState
    <3>7. b - h.cursor <= MaxGap
      <4>1. h.cursor \in Nat
        BY <1>4, <2>4 DEF RowTyped
      <4> QED
        BY <1>1, <3>2, <3>3, <4>1, HealthNumbers
    <3> HIDE DEF Q, flow, g, s
    <3>8. Unbroken(Q \cup {b})
      <4>1. \A x \in Q \cup {b} : series[x].soc # None /\ H!Discharging(series[x])
        BY <2>2, <3>2 DEF Unbroken
      <4>2. \A x \in H!Neighbours(Q \cup {b}) : x[2] - x[1] <= MaxGap
        BY <3>1, <3>2, <3>7 DEF Unbroken
      <4> QED
        BY <4>1, <4>2 DEF Unbroken
    <3>9. g.window.energy = H!Out(Q \cup {b})
      BY <3>1, <3>2, <3>6
    <3> QED
      BY <1>1, <1>3, <3>1, <3>2, <3>6, <3>8, <3>9 DEF WindowSound
  <2> QED
    BY <2>3, <2>4
<1>9. ASSUME H!Closed(h.window, h.prev, s) PROVE EstimateSound(Made(h, b))
  <2> DEFINE e == Made(h, b)  Q == Between(h.window.from, h.cursor)
  <2>1. /\ h.window # None /\ (h.prev = None \/ s.at - h.prev.at <= MaxGap)
        /\ h.window.soc - s.soc >= MinSpan
    BY <1>9 DEF H!Closed
  <2>2. /\ Q \in SUBSET Sent /\ (\A x \in Q : x < b) /\ h.window.from \in Q
        /\ Between(h.window.from, b) = Q \cup {b}
        /\ H!Neighbours(Q \cup {b}) = H!Neighbours(Q) \cup {<<h.cursor, b>>}
    BY <1>6, <2>1
  <2>3. /\ h.prev # None /\ h.prev.at = h.cursor /\ h.window.from \in Sent /\ Unbroken(Q)
        /\ h.window.soc = series[h.window.from].soc /\ h.window.energy = H!Out(Q)
    BY <1>7, <2>1 DEF WindowSound
  <2>4. b - h.cursor <= MaxGap
    BY <1>1, <2>1, <2>3
  <2>5. e.from = h.window.from /\ e.to = b /\ e.span = h.window.soc - s.soc /\ e.energy = h.window.energy
    BY DEF Made
  <2>6. s.soc = series[b].soc
    BY <1>1, SampleIsSent
  <2>7. (Q \cup {b}) \ {b} = Q
    <3> HIDE DEF Q
    <3> QED
      BY <1>1, <2>2, SentIs
  <2> HIDE DEF Q, e, s
  <2>8. \A x \in H!Neighbours(Q \cup {b}) : x[2] - x[1] <= MaxGap
    BY <2>2, <2>3, <2>4 DEF Unbroken
  <2>9. \A x \in Q : series[x].soc # None /\ H!Discharging(series[x])
    BY <2>3 DEF Unbroken
  <2>10. Between(e.from, e.to) = Q \cup {b} /\ {e.from, e.to} \subseteq Q \cup {b}
    BY <2>2, <2>5
  <2> QED
    BY <1>1, <2>1, <2>3, <2>5, <2>6, <2>7, <2>8, <2>9, <2>10 DEF EstimateSound, e
<1> HIDE DEF g, s
<1>10. BookedRow(g)
  BY <1>1, <1>3, <1>5, <1>8 DEF BookedRow, s
<1> QED
  BY <1>9, <1>10 DEF g, s

LEMMA MovedOnBooks ==
  ASSUME H!SohAssumption, series \in Series, NEW h, RowTyped(h), BookedRow(h), NEW to \in H!Bucket,
         \A x \in Sent : Above(x, h) => to < x, h.cursor # None => h.cursor + MaxGap < to
  PROVE  BookedRow(H!MovedOn(h, to)) /\ H!UpTo(to) = H!UpTo(h.cursor)
<1> DEFINE g == H!MovedOn(h, to)
<1>1. g.cursor = to /\ g.prev = None /\ g.window = None /\ g.discharged = h.discharged /\ g.charged = h.charged
  BY DEF H!MovedOn, RowTyped, RowState
<1>2. h.cursor \in H!Bucket \cup {None} /\ to \in Nat /\ to # None /\ (h.cursor # None => h.cursor \in Nat)
  BY HealthNumbers DEF RowTyped, RowState
<1>3. H!UpTo(to) = {x \in Sent : x <= to} /\ H!UpTo(h.cursor) = {x \in Sent : h.cursor # None /\ x <= h.cursor}
  BY <1>2, UpToIs
<1>4. ASSUME NEW x \in Sent PROVE x <= to <=> h.cursor # None /\ x <= h.cursor
  <2>1. x \in Nat
    BY SentIs
  <2>2. (h.cursor # None => h.cursor < x) => to < x
    BY DEF Above
  <2> QED
    BY <1>2, <2>1, <2>2, HealthNumbers
<1>5. H!UpTo(to) = H!UpTo(h.cursor)
  BY <1>3, <1>4
<1>6. \A b \in H!UpTo(to) : b + MaxGap < to
  <2> TAKE b \in H!UpTo(to)
  <2>1. b \in Nat /\ h.cursor # None /\ b <= h.cursor
    BY <1>3, <1>4, SentIs
  <2> QED
    BY <1>2, <2>1, HealthNumbers
<1> HIDE DEF g
<1>7. BookedRow(g)
  BY <1>1, <1>5, <1>6 DEF BookedRow
<1> QED
  BY <1>5, <1>7 DEF g

---------------------------------------------------------------------------
(***************************************************************************)
(* One sweep at a time.  A sweep that did not come to its update leaves the  *)
(* estimates it made ahead of the cursor, and the next one comes to the same *)
(* ones: from one row there is one way to walk the samples.  Trail has that  *)
(* walk as far as one has come, `f` the row after each bucket of A.          *)
(***************************************************************************)
OneWorker == \A v \in Worker : \A w \in Worker : v = w

WorkingUpTo(h) == {e \in DOMAIN estimates : h.cursor # None /\ e.to <= h.cursor}
KeepsWorking(h) == h.samples = Cardinality(WorkingUpTo(h))
Prior(f, A, b, r) ==
  \/ r = health /\ \A x \in A : ~(x < b)
  \/ \E m \in A : m < b /\ (\A x \in A : x < b => x <= m) /\ r = f[m]
Estimated(r, b, e) == H!Closed(r.window, r.prev, H!SampleAt(b)) /\ e = Made(r, b)
OnTrail(t, f, A) == t.pc = "loop" => t.row = health \/ (t.row.cursor \in A /\ t.row = f[t.row.cursor])
Trail(f, A) ==
  /\ A \subseteq H!PageOf(health.cursor)
  /\ \A b \in A : \A x \in Sent : Above(x, health) /\ x < b => x \in A
  /\ \A b \in A : \A r : Prior(f, A, b, r) => f[b] = H!Step(r, H!SampleAt(b))
  /\ \A e \in DOMAIN estimates :
       Above(e.to, health) => e.to \in A /\ \A r : Prior(f, A, e.to, r) => Estimated(r, e.to, e)
  /\ \A w \in Worker : OnTrail(worker[w], f, A)

SweepSound(t) ==
  /\ t.pc = "read" => t.row = health
  /\ t.pc = "loop" =>
       /\ BookedRow(t.row) /\ KeepsWorking(t.row)
       /\ t.page \subseteq H!PageOf(health.cursor)
       /\ \A b \in t.page : \A x \in Sent : Above(x, t.row) /\ x < b => x \in t.page
       /\ health.cursor # None => t.row.cursor # None /\ health.cursor <= t.row.cursor
  /\ t.pc = "silent" =>
       /\ \A x \in Sent : Above(x, health) => t.row.cursor < x
       /\ health.cursor # None => health.cursor + MaxGap < t.row.cursor
       /\ \A e \in DOMAIN estimates : ~Above(e.to, health)

HealthSound ==
  /\ IsFiniteSet(DOMAIN estimates)
  /\ BookedRow(health) /\ KeepsWorking(health)
  /\ \A e \in DOMAIN estimates : EstimateSound(e)
  /\ \A w \in Worker : SweepSound(worker[w])
  /\ \E f : \E A : Trail(f, A)
HealthInv == HealthTyped /\ HealthSound

LEMMA SameSamples ==
  ASSUME UNCHANGED series
  PROVE  /\ Sent' = Sent
         /\ \A b : H!SampleAt(b)' = H!SampleAt(b)
         /\ \A c : H!UpTo(c)' = H!UpTo(c)
         /\ \A a : \A b : Between(a, b)' = Between(a, b)
         /\ \A S : H!Out(S)' = H!Out(S) /\ H!In(S)' = H!In(S)
<1>1. \A b : H!SampleAt(b)' = H!SampleAt(b)
  BY DEF H!SampleAt
<1>2. Sent' = Sent
  BY DEF Sent
<1>3. \A c : H!UpTo(c)' = H!UpTo(c)
  BY DEF H!UpTo
<1>4. \A a : \A b : Between(a, b)' = Between(a, b)
  BY DEF Between
<1>5. \A S : H!Flow(S)' = H!Flow(S)
  BY <1>1 DEF H!Flow, H!SampleAt
<1>6. \A S : H!Out(S)' = H!Out(S) /\ H!In(S)' = H!In(S)
  BY <1>5 DEF H!Out, H!In
<1> QED
  BY <1>1, <1>2, <1>3, <1>4, <1>6

LEMMA SameWorth ==
  ASSUME UNCHANGED series
  PROVE  /\ \A h : BookedRow(h)' <=> BookedRow(h)
         /\ \A e : EstimateSound(e)' <=> EstimateSound(e)
         /\ \A h : \A b : Made(h, b)' = Made(h, b)
         /\ \A r : \A b : \A e : Estimated(r, b, e)' <=> Estimated(r, b, e)
<1>1. \A Q : Unbroken(Q)' <=> Unbroken(Q)
  BY DEF Unbroken
<1>2. \A h : WindowSound(h)' <=> WindowSound(h)
  BY <1>1, SameSamples DEF WindowSound
<1>3. \A h : BookedRow(h)' <=> BookedRow(h)
  BY <1>2, SameSamples DEF BookedRow
<1>4. \A e : EstimateSound(e)' <=> EstimateSound(e)
  BY SameSamples DEF EstimateSound
<1>5. \A h : \A b : Made(h, b)' = Made(h, b)
  BY DEF Made, H!SampleAt
<1>6. \A r : \A b : \A e : Estimated(r, b, e)' <=> Estimated(r, b, e)
  BY <1>5, SameSamples DEF Estimated
<1> QED
  BY <1>3, <1>4, <1>5, <1>6

LEMMA PageSent ==
  ASSUME H!SohAssumption, HealthTyped, NEW c \in H!Bucket \cup {None}
  PROVE  /\ H!PageOf(c) = {b \in Sent : (c # None => c < b) /\ b <= H!LastOf(c)}
         /\ H!LastOf(c) \in Int
<1>1. clock \in 0..LastBucket + Grace + 1
  BY DEF HealthTyped
<1>2. /\ H!LastOf(c) \in Int /\ H!LastOf(c) <= LastBucket /\ H!FirstOf(c) \in Nat
      /\ H!PageOf(c) \subseteq H!Bucket
  BY <1>1, PageIs, HealthNumbers
<1>3. \A b \in H!Bucket : (c # None => c < b) <=> H!FirstOf(c) <= b
  BY HealthNumbers DEF H!FirstOf
<1>4. \A b : b \in H!PageOf(c) <=> b \in H!FirstOf(c)..H!LastOf(c) /\ series[b] # None
  BY DEF H!PageOf
<1>5. \A b \in H!Bucket : b \in Nat
  BY HealthNumbers
<1>6. \A b \in H!Bucket : b \in H!PageOf(c) <=> series[b] # None /\ (c # None => c < b) /\ b <= H!LastOf(c)
  BY <1>2, <1>3, <1>4, <1>5
<1> QED
  BY <1>2, <1>6 DEF Sent

\* A page only grows: with the clock, and with the cursor.
LEMMA PageGrows ==
  ASSUME H!SohAssumption, HealthTyped, HealthTyped', UNCHANGED series, clock <= clock',
         NEW c \in H!Bucket \cup {None}, NEW d \in H!Bucket \cup {None}, c # None => d # None /\ c <= d,
         NEW b \in H!PageOf(c), d # None => d < b
  PROVE  b \in H!PageOf(d)'
<1>1. clock \in 0..LastBucket + Grace + 1 /\ clock' \in 0..LastBucket + Grace + 1
  BY DEF HealthTyped
<1>2. H!LastOf(c) \in Int /\ H!LastOf(c) <= H!LastClosed /\ H!LastOf(c) <= H!FirstOf(c) + Page - 1 /\ H!FirstOf(c) \in Nat
      /\ H!LastClosed \in Int /\ H!PageOf(c) \subseteq H!Bucket
  BY <1>1, PageIs
<1>3. H!LastOf(d)' = H!Min({H!LastClosed', H!FirstOf(d) + Page - 1}) /\ H!FirstOf(d) \in Nat
  BY <1>1, PageIs DEF H!LastOf, H!FirstOf
<1>4. H!LastClosed' \in Int /\ H!LastClosed <= H!LastClosed'
  BY <1>1, HealthNumbers DEF H!LastClosed
<1>5. H!FirstOf(c) <= H!FirstOf(d)
  BY HealthNumbers DEF H!FirstOf
<1>6. H!LastOf(c) <= H!LastOf(d)' /\ H!LastOf(d)' \in Int
  <2> DEFINE x == H!LastClosed'  y == H!FirstOf(d) + Page - 1
  <2>1. x \in Int /\ y \in Int
    BY <1>3, <1>4, HealthNumbers
  <2>2. H!LastOf(d)' = CHOOSE m \in {x, y} : \A k \in {x, y} : m <= k
    BY <1>3 DEF H!Min
  <2>3. H!LastOf(c) <= x /\ H!LastOf(c) <= y
    BY <1>2, <1>3, <1>4, <1>5, HealthNumbers
  <2> HIDE DEF x, y
  <2>4. \E m \in {x, y} : \A k \in {x, y} : m <= k
    BY <2>1
  <2>5. H!LastOf(d)' \in {x, y}
    BY <2>2, <2>4
  <2> QED
    BY <2>1, <2>3, <2>5
<1>7. b \in H!FirstOf(c)..H!LastOf(c) /\ series[b] # None
  BY DEF H!PageOf
<1>8. H!FirstOf(d) <= b
  BY <1>2, <1>3, <1>7, HealthNumbers DEF H!FirstOf
<1>9. b \in H!FirstOf(d)..H!LastOf(d)'
  BY <1>2, <1>3, <1>6, <1>7, <1>8
<1> QED
  BY <1>7, <1>9 DEF H!PageOf, H!FirstOf

\* With one worker, what it is now is what every worker is.
LEMMA TheSweep ==
  ASSUME OneWorker, HealthTyped, NEW w \in Worker, NEW t, worker' = [worker EXCEPT ![w] = t]
  PROVE  \A v \in Worker : worker'[v] = t
BY DEF OneWorker, HealthTyped

LEMMA SoundInit == ASSUME H!SohAssumption, H!Init PROVE HealthSound
<1>1. health.cursor = None /\ health.prev = None /\ health.window = None
      /\ health.discharged = 0 /\ health.charged = 0 /\ health.samples = 0
  BY DEF H!Init, H!Empty
<1>2. DOMAIN estimates = {}
  BY DEF H!Init
<1>3. H!UpTo(None) = {} /\ H!Out({}) = 0 /\ H!In({}) = 0
  <2>1. H!Neighbours({}) = {} /\ H!UpTo(None) = {}
    BY DEF H!Neighbours, H!UpTo
  <2>2. H!Out({}) = H!Sum(Discharge({})) /\ H!In({}) = H!Sum(Charge({}))
    BY DEF H!Out, H!In, Discharge, Charge
  <2>3. DOMAIN Discharge({}) = {} /\ DOMAIN Charge({}) = {}
    BY <2>1 DEF Discharge, Charge
  <2> QED
    BY <2>1, <2>2, <2>3, SumOfNone
<1>4. BookedRow(health)
  BY <1>1, <1>3 DEF BookedRow
<1>5. KeepsWorking(health) /\ IsFiniteSet(DOMAIN estimates)
  BY <1>1, <1>2, FS_EmptySet DEF KeepsWorking, WorkingUpTo
<1>6. \A w \in Worker : worker[w].pc = "idle"
  BY DEF H!Init, H!Resting
<1>7. \A w \in Worker : SweepSound(worker[w])
  BY <1>6 DEF SweepSound
<1>8. Trail(<<>>, {})
  BY <1>2, <1>6 DEF Trail, OnTrail
<1> QED
  BY <1>2, <1>4, <1>5, <1>7, <1>8 DEF HealthSound

\* What a step leaves of the trail when row and estimates stay and no loop begins.
LEMMA TrailStays ==
  ASSUME H!SohAssumption, HealthInv, HealthTyped', UNCHANGED <<series, health, estimates>>, clock <= clock',
         NEW f, NEW A, Trail(f, A), \A w \in Worker : OnTrail(worker[w], f, A)'
  PROVE  Trail(f, A)'
<1>1. health.cursor \in H!Bucket \cup {None}
  BY DEF HealthInv, HealthTyped, RowTyped, RowState
<1>2. HealthTyped
  BY DEF HealthInv
<1>3. A \subseteq H!PageOf(health.cursor)'
  <2>1. ASSUME NEW c, c = health.cursor PROVE A \subseteq H!PageOf(c)'
    <3>1. c \in H!Bucket \cup {None} /\ (c # None => c <= c)
      BY <1>1, <2>1, HealthNumbers
    <3>2. A \subseteq H!PageOf(c) /\ \A b \in A : c # None => c < b
      BY <1>1, <1>2, <2>1, PageSent DEF Trail
    <3> QED
      BY <1>2, <3>1, <3>2, PageGrows
  <2> QED
    BY <2>1 DEF H!PageOf, H!LastOf, H!FirstOf
<1>4. \A b : \A r : Prior(f, A, b, r)' <=> Prior(f, A, b, r)
  BY DEF Prior
<1> QED
  BY <1>3, <1>4, SameSamples, SameWorth DEF Trail, Above

LEMMA RowStays ==
  ASSUME H!SohAssumption, HealthInv, HealthTyped', UNCHANGED <<series, health, estimates>>, clock <= clock',
         \A w \in Worker : SweepSound(worker[w])',
         \A f : \A A : Trail(f, A) => \A w \in Worker : OnTrail(worker[w], f, A)'
  PROVE  HealthSound'
<1>1. PICK f, A : Trail(f, A)
  BY DEF HealthInv, HealthSound
<1>2. Trail(f, A)'
  BY <1>1, TrailStays
<1>3. IsFiniteSet(DOMAIN estimates) /\ BookedRow(health) /\ KeepsWorking(health)
      /\ \A e \in DOMAIN estimates : EstimateSound(e)
  BY DEF HealthInv, HealthSound
<1>4. BookedRow(health)'
  <2>1. ASSUME NEW h, h = health PROVE BookedRow(h)'
    BY <1>3, <2>1, SameWorth
  <2> QED
    BY <2>1 DEF BookedRow, WindowSound
<1>5. KeepsWorking(health)'
  BY <1>3 DEF KeepsWorking, WorkingUpTo
<1>6. \A e \in DOMAIN estimates' : EstimateSound(e)'
  BY <1>3, SameWorth
<1> QED
  BY <1>2, <1>3, <1>4, <1>5, <1>6 DEF HealthSound

LEMMA SelectSound == ASSUME H!SohAssumption, OneWorker, HealthInv, NEW w \in Worker, H!Select(w), HealthTyped'
                     PROVE  HealthSound'
<1> DEFINE t == [H!Resting EXCEPT !.pc = "read", !.row = health]
<1>1. worker' = [worker EXCEPT ![w] = t] /\ UNCHANGED <<clock, series, health, estimates, lapses>>
  BY DEF H!Select
<1>2. t.pc = "read" /\ t.row = health
  BY DEF H!Resting
<1> HIDE DEF t
<1>3. \A v \in Worker : worker'[v] = t
  BY <1>1, TheSweep DEF HealthInv
<1>4. \A v \in Worker : SweepSound(worker[v])'
  BY <1>1, <1>2, <1>3 DEF SweepSound
<1>5. \A f : \A A : \A v \in Worker : OnTrail(worker[v], f, A)'
  BY <1>2, <1>3 DEF OnTrail
<1>6. clock <= clock'
  BY <1>1, HealthNumbers DEF HealthInv, HealthTyped
<1> QED
  BY <1>1, <1>4, <1>5, <1>6, RowStays

LEMMA RestSound ==
  ASSUME H!SohAssumption, OneWorker, HealthInv, NEW w \in Worker, HealthTyped',
         worker' = [worker EXCEPT ![w] = H!Resting], UNCHANGED <<clock, series, health, estimates>>
  PROVE  HealthSound'
<1>1. H!Resting.pc = "idle"
  BY DEF H!Resting
<1>2. \A v \in Worker : worker'[v] = H!Resting
  BY TheSweep DEF HealthInv
<1>3. \A v \in Worker : SweepSound(worker[v])'
  BY <1>1, <1>2 DEF SweepSound
<1>4. \A f : \A A : \A v \in Worker : OnTrail(worker[v], f, A)'
  BY <1>1, <1>2 DEF OnTrail
<1>5. clock <= clock'
  BY HealthNumbers DEF HealthInv, HealthTyped
<1> QED
  BY <1>3, <1>4, <1>5, RowStays

LEMMA ReadSound == ASSUME H!SohAssumption, OneWorker, HealthInv, NEW w \in Worker, H!Read(w), HealthTyped'
                   PROVE  HealthSound'
<1> DEFINE c == health.cursor  page == H!PageOf(c)  to == H!LastOf(c)
           loop == [pc |-> "loop", row |-> health, page |-> page]
           silent == [pc |-> "silent", page |-> {}, row |-> H!MovedOn(health, to)]
<1>1. worker[w].row = health
  BY DEF H!Read, HealthInv, HealthSound, SweepSound
<1>2. UNCHANGED <<clock, series, health, estimates, lapses>>
  BY DEF H!Read
<1>3. \/ worker' = [worker EXCEPT ![w] = H!Resting]
      \/ worker' = [worker EXCEPT ![w] = loop]
      \/ /\ worker' = [worker EXCEPT ![w] = silent] /\ page = {}
         /\ H!LongSilence(health)
  BY <1>1 DEF H!Read
<1>4. c \in H!Bucket \cup {None} /\ HealthTyped /\ (c # None => c \in Nat)
  BY HealthNumbers DEF HealthInv, HealthTyped, RowTyped, RowState
<1>5. page = {b \in Sent : (c # None => c < b) /\ b <= to} /\ to \in Int
  BY <1>4, PageSent
<1>6. clock <= clock'
  BY <1>2, HealthNumbers DEF HealthInv, HealthTyped
<1>7. CASE worker' = [worker EXCEPT ![w] = H!Resting]
  BY <1>2, <1>7, RestSound
<1>8. CASE worker' = [worker EXCEPT ![w] = loop]
  <2>0. PICK t : t = loop
    OBVIOUS
  <2>1. \A v \in Worker : worker'[v] = t
    BY <1>4, <1>8, <2>0, TheSweep
  <2>2. t.pc = "loop" /\ t.row = health /\ t.page = page
    BY <2>0
  <2>3. BookedRow(health) /\ KeepsWorking(health)
    BY DEF HealthInv, HealthSound
  <2>4. \A b \in page : \A x \in Sent : Above(x, health) /\ x < b => x \in page
    <3> TAKE b \in page
    <3> TAKE x \in Sent
    <3> HAVE Above(x, health) /\ x < b
    <3>1. x \in Nat /\ b \in Nat /\ b <= to
      BY <1>5, SentIs
    <3>2. x <= to
      BY <1>5, <3>1
    <3> QED
      BY <1>5, <3>2 DEF Above
  <2>5. c # None => c <= c
    BY <1>4
  <2>6. \A v \in Worker : SweepSound(worker[v])'
    <3>1. BookedRow(t.row)' /\ KeepsWorking(t.row)'
      <4>1. BookedRow(t.row)'
        BY <1>2, <2>2, <2>3, SameWorth
      <4> QED
        BY <1>2, <2>2, <2>3, <4>1 DEF KeepsWorking, WorkingUpTo
    <3>2. t.page \subseteq H!PageOf(health.cursor)'
      BY <1>2, <2>2 DEF H!PageOf, H!LastOf, H!FirstOf, H!LastClosed
    <3>3. \A b \in t.page : \A x \in Sent' : Above(x, t.row) /\ x < b => x \in t.page
      BY <1>2, <2>2, <2>4, SameSamples
    <3>4. \A v \in Worker : worker'[v].pc = "loop" /\ worker'[v].row = t.row /\ worker'[v].page = t.page
      BY <2>1, <2>2
    <3>5. health'.cursor # None => t.row.cursor # None /\ health'.cursor <= t.row.cursor
      BY <1>2, <2>2, <2>5
    <3> TAKE v \in Worker
    <3>6. worker'[v] = t
      BY <2>1
    <3>7. SweepSound(t)'
      BY <2>2, <3>1, <3>2, <3>3, <3>5 DEF SweepSound, Above
    <3> QED
      BY <3>6, <3>7 DEF SweepSound, BookedRow, WindowSound, KeepsWorking, WorkingUpTo
  <2>7. \A f : \A A : \A v \in Worker : OnTrail(worker[v], f, A)'
    BY <1>2, <2>1, <2>2 DEF OnTrail
  <2> QED
    BY <1>2, <1>6, <2>6, <2>7, RowStays
<1>9. CASE worker' = [worker EXCEPT ![w] = silent] /\ page = {} /\ H!LongSilence(health)
  <2>1. \A v \in Worker : worker'[v] = silent
    BY <1>4, <1>9, TheSweep
  <2>2. silent.pc = "silent" /\ silent.row.cursor = to
    BY DEF H!MovedOn, HealthInv, HealthTyped, RowTyped, RowState
  <2>3. \A x \in Sent : Above(x, health) => to < x
    <3> TAKE x \in Sent
    <3>1. x \in Nat
      BY SentIs
    <3> QED
      BY <1>5, <1>9, <3>1 DEF Above
  <2>4. c # None => c + MaxGap < to
    BY <1>4, <1>5, <1>9, HealthNumbers DEF H!LongSilence
  <2>5. \A e \in DOMAIN estimates : ~Above(e.to, health)
    BY <1>9 DEF HealthInv, HealthSound, Trail
  <2> HIDE DEF silent
  <2>6. \A v \in Worker : SweepSound(worker[v])'
    BY <1>2, <2>1, <2>2, <2>3, <2>4, <2>5, SameSamples DEF SweepSound, Above
  <2>7. \A f : \A A : \A v \in Worker : OnTrail(worker[v], f, A)'
    BY <2>1, <2>2 DEF OnTrail
  <2> QED
    BY <1>2, <1>6, <2>6, <2>7, RowStays
<1> QED
  BY <1>3, <1>7, <1>8, <1>9

\* Time passes, or nothing happens.
LEMMA TimeSound ==
  ASSUME H!SohAssumption, HealthInv, HealthTyped', clock <= clock',
         UNCHANGED <<series, health, estimates, worker>>
  PROVE  HealthSound'
<1>1. UNCHANGED <<series, health, estimates, worker>>
  OBVIOUS
<1>2. clock <= clock'
  OBVIOUS
<1>3. \A f : \A A : Trail(f, A) => \A w \in Worker : OnTrail(worker[w], f, A)'
  BY <1>1 DEF Trail, OnTrail
<1>4. ASSUME NEW w \in Worker PROVE SweepSound(worker[w])'
  <2> DEFINE t == worker[w]
  <2>1. SweepSound(t)
    BY DEF HealthInv, HealthSound
  <2>2. t.pc = "read" => t.row = health
    BY <2>1 DEF SweepSound
  <2>3. ASSUME t.pc = "loop"
        PROVE  /\ BookedRow(t.row)' /\ KeepsWorking(t.row)'
               /\ t.page \subseteq H!PageOf(health.cursor)'
    <3>1. BookedRow(t.row) /\ KeepsWorking(t.row) /\ t.page \subseteq H!PageOf(health.cursor)
      BY <2>1, <2>3 DEF SweepSound
    <3>2. ASSUME NEW h, h = t.row PROVE BookedRow(h)'
      BY <1>1, <3>1, <3>2, SameWorth
    <3>3. BookedRow(t.row)'
      BY <1>1, <3>2 DEF BookedRow, WindowSound
    <3>4. KeepsWorking(t.row)'
      BY <1>1, <3>1 DEF KeepsWorking, WorkingUpTo
    <3>5. ASSUME NEW d, d = health.cursor PROVE t.page \subseteq H!PageOf(d)'
      <4>1. d \in H!Bucket \cup {None} /\ (d # None => d <= d) /\ HealthTyped
        BY <3>5, HealthNumbers DEF HealthInv, HealthTyped, RowTyped, RowState
      <4>2. t.page \subseteq H!PageOf(d) /\ \A b \in H!PageOf(d) : d # None => d < b
        BY <3>1, <3>5, <4>1, PageSent
      <4> QED
        BY <1>1, <1>2, <4>1, <4>2, PageGrows
    <3>6. t.page \subseteq H!PageOf(health.cursor)'
      BY <1>1, <3>5 DEF H!PageOf, H!LastOf, H!FirstOf
    <3> QED
      BY <3>3, <3>4, <3>6
  <2> QED
    BY <1>1, <2>1, <2>2, <2>3, SameSamples DEF SweepSound, Above
<1> QED
  BY <1>1, <1>2, <1>3, <1>4, RowStays

LEMMA UpdateSound == ASSUME H!SohAssumption, OneWorker, HealthInv, NEW w \in Worker, H!Update(w), HealthTyped'
                     PROVE  HealthSound'
<1>0. PICK h : h = worker[w].row
  OBVIOUS
<1>1. health' = h /\ worker' = [worker EXCEPT ![w] = H!Resting] /\ UNCHANGED <<clock, series, estimates, lapses>>
  BY <1>0 DEF H!Update
<1>2. /\ BookedRow(h) /\ KeepsWorking(h)
      /\ health.cursor # None => h.cursor # None /\ health.cursor <= h.cursor
  BY <1>0 DEF H!Update, HealthInv, HealthSound, SweepSound
<1>3. PICK f, A : Trail(f, A)
  BY DEF HealthInv, HealthSound
<1>4. h = health \/ (h.cursor \in A /\ h = f[h.cursor])
  BY <1>0, <1>3 DEF Trail, OnTrail, H!Update
<1>5. \A v \in Worker : worker'[v] = H!Resting
  BY <1>1, TheSweep DEF HealthInv
<1>6. H!Resting.pc = "idle"
  BY DEF H!Resting
<1>7. health.cursor \in H!Bucket \cup {None} /\ h.cursor \in H!Bucket \cup {None} /\ HealthTyped
      /\ (h.cursor # None => h.cursor \in Nat) /\ (health.cursor # None => health.cursor \in Nat)
  BY <1>0, HealthNumbers DEF HealthInv, HealthTyped, RowTyped, RowState, SweepTyped
<1>8. A \subseteq Sent /\ A \subseteq Nat /\ \A x \in A : Above(x, health)
  BY <1>3, <1>7, PageSent, SentIs DEF Trail, Above
<1>16. PICK B : B = {x \in A : Above(x, h)}
  OBVIOUS
<1>9. \A e \in DOMAIN estimates : e.to \in Sent /\ e.to \in Nat
  BY SentIs DEF HealthInv, HealthSound, EstimateSound
<1>10. ASSUME NEW b \in B, NEW r, Prior(f, B, b, r)' PROVE Prior(f, A, b, r)
  <2>1. b \in A /\ Above(b, h) /\ b \in Nat
    BY <1>8, <1>16
  <2>2. CASE r = h /\ \A x \in B : ~(x < b)
    <3>1. CASE h = health
      <4>1. B = A
        BY <1>8, <1>16, <3>1
      <4> QED
        BY <2>2, <3>1, <4>1 DEF Prior
    <3>2. CASE h # health
      <4>1. h.cursor \in A /\ h = f[h.cursor] /\ h.cursor \in Nat /\ h.cursor # None
        BY <1>4, <1>8, <3>2, HealthNumbers
      <4>2. h.cursor < b
        BY <2>1, <4>1 DEF Above
      <4>3. \A x \in A : x < b => x <= h.cursor
        <5> TAKE x \in A
        <5> HAVE x < b
        <5>1. x \in Nat /\ ~Above(x, h)
          BY <1>8, <1>16, <2>2
        <5> QED
          BY <4>1, <5>1 DEF Above
      <4> QED
        BY <2>2, <4>1, <4>2, <4>3 DEF Prior
    <3> QED
      BY <3>1, <3>2
  <2>3. ASSUME NEW m \in B, m < b, \A x \in B : x < b => x <= m, r = f[m] PROVE Prior(f, A, b, r)
    <3>1. m \in A /\ Above(m, h) /\ m \in Nat
      BY <1>8, <1>16
    <3>2. \A x \in A : x < b => x <= m
      <4> TAKE x \in A
      <4> HAVE x < b
      <4>1. x \in Nat
        BY <1>8
      <4>2. CASE Above(x, h)
        BY <1>16, <2>3, <4>2
      <4>3. CASE ~Above(x, h)
        BY <1>7, <3>1, <4>1, <4>3 DEF Above
      <4> QED
        BY <4>2, <4>3
    <3> QED
      BY <2>3, <3>1, <3>2 DEF Prior
  <2>4. \/ r = health' /\ \A x \in B : ~(x < b)
        \/ \E m \in B : m < b /\ (\A x \in B : x < b => x <= m) /\ r = f[m]
    BY <1>10 DEF Prior
  <2> QED
    BY <1>1, <2>2, <2>3, <2>4
<1>11. Trail(f, B)'
  <2>1. B \subseteq H!PageOf(health.cursor)'
    <3>1. ASSUME NEW d, d = h.cursor PROVE B \subseteq H!PageOf(d)'
      <4> SUFFICES ASSUME NEW b \in B PROVE b \in H!PageOf(d)'
        OBVIOUS
      <4>1. b \in H!PageOf(health.cursor) /\ (d # None => d < b) /\ clock <= clock'
        BY <1>1, <1>3, <1>7, <1>16, <3>1, HealthNumbers DEF Trail, Above, HealthTyped
      <4>2. d \in H!Bucket \cup {None} /\ (health.cursor # None => d # None /\ health.cursor <= d)
        BY <1>2, <1>7, <3>1
      <4> QED
        BY <1>1, <1>7, <4>1, <4>2, PageGrows
    <3> QED
      BY <1>1, <3>1 DEF H!PageOf, H!LastOf, H!FirstOf
  <2>2. \A b \in B : \A x \in Sent' : Above(x, h) /\ x < b => x \in B
    <3> TAKE b \in B
    <3> TAKE x \in Sent'
    <3> HAVE Above(x, h) /\ x < b
    <3>1. x \in Sent /\ x \in Nat
      BY <1>1, SameSamples, SentIs
    <3>2. Above(x, health)
      BY <1>2, <1>7, <3>1 DEF Above
    <3>3. x \in A
      BY <1>3, <1>16, <3>1, <3>2 DEF Trail
    <3> QED
      BY <1>16, <3>3
  <2>3. \A b \in B : \A r : Prior(f, B, b, r)' => f[b] = H!Step(r, H!SampleAt(b)')
    <3> TAKE b \in B
    <3> TAKE r
    <3> HAVE Prior(f, B, b, r)'
    <3>1. Prior(f, A, b, r) /\ b \in A
      BY <1>10, <1>16
    <3>2. H!SampleAt(b)' = H!SampleAt(b)
      BY <1>1, SameSamples
    <3> QED
      BY <1>3, <3>1, <3>2 DEF Trail
  <2>4. \A e \in DOMAIN estimates' : Above(e.to, h) => e.to \in B /\ \A r : Prior(f, B, e.to, r)' => Estimated(r, e.to, e)'
    <3> TAKE e \in DOMAIN estimates'
    <3> HAVE Above(e.to, h)
    <3>1. e \in DOMAIN estimates /\ e.to \in Nat
      BY <1>1, <1>9
    <3>2. Above(e.to, health)
      BY <1>2, <1>7, <3>1 DEF Above
    <3>3. e.to \in A /\ \A r : Prior(f, A, e.to, r) => Estimated(r, e.to, e)
      BY <1>3, <3>1, <3>2 DEF Trail
    <3>4. e.to \in B
      BY <1>16, <3>3
    <3> QED
      BY <1>1, <1>10, <3>3, <3>4, SameWorth
  <2>5. \A v \in Worker : OnTrail(worker[v], f, B)'
    BY <1>5, <1>6 DEF OnTrail
  <2>6. \A x : Above(x, health)' <=> Above(x, h)
    BY <1>1 DEF Above
  <2> QED
    BY <2>1, <2>2, <2>3, <2>4, <2>5, <2>6 DEF Trail
<1>12. BookedRow(health)'
  <2>1. ASSUME NEW g, g = h PROVE BookedRow(g)'
    BY <1>1, <1>2, <2>1, SameWorth
  <2> QED
    BY <1>1, <2>1 DEF BookedRow, WindowSound
<1>13. KeepsWorking(health)'
  BY <1>1, <1>2 DEF KeepsWorking, WorkingUpTo
<1>14. \A v \in Worker : SweepSound(worker[v])'
  BY <1>5, <1>6 DEF SweepSound
<1>15. IsFiniteSet(DOMAIN estimates)' /\ \A e \in DOMAIN estimates' : EstimateSound(e)'
  BY <1>1, SameWorth DEF HealthInv, HealthSound
<1> QED
  BY <1>11, <1>12, <1>13, <1>14, <1>15 DEF HealthSound

LEMMA MoveOnSound == ASSUME H!SohAssumption, OneWorker, HealthInv, NEW w \in Worker, H!MoveOn(w), HealthTyped'
                     PROVE  HealthSound'
<1>0. PICK to : to = worker[w].row.cursor
  OBVIOUS
<1>1. health' = H!MovedOn(health, to) /\ worker' = [worker EXCEPT ![w] = H!Resting]
      /\ UNCHANGED <<clock, series, estimates, lapses>>
  BY <1>0 DEF H!MoveOn
<1>2. /\ \A x \in Sent : Above(x, health) => to < x
      /\ health.cursor # None => health.cursor + MaxGap < to
      /\ \A e \in DOMAIN estimates : ~Above(e.to, health)
  BY <1>0 DEF H!MoveOn, HealthInv, HealthSound, SweepSound
<1>3. to \in H!Bucket /\ RowTyped(health) /\ HealthTyped /\ series \in Series
  BY <1>0 DEF H!MoveOn, HealthInv, HealthTyped, SweepTyped
<1>4. to \in Nat /\ to # None /\ (health.cursor # None => health.cursor \in Nat) /\ MaxGap \in Nat
  BY <1>3, HealthNumbers DEF RowTyped, RowState
<1>5. \A v \in Worker : worker'[v] = H!Resting
  BY <1>1, <1>3, TheSweep
<1>6. H!Resting.pc = "idle"
  BY DEF H!Resting
<1>7. \A v \in Worker : SweepSound(worker[v])'
  BY <1>5, <1>6 DEF SweepSound
<1>8. health'.cursor = to /\ health'.samples = health.samples
  BY <1>1, <1>3 DEF H!MovedOn, RowTyped, RowState
<1>9. BookedRow(health)'
  <2>1. BookedRow(H!MovedOn(health, to))
    BY <1>2, <1>3, MovedOnBooks DEF HealthInv, HealthSound
  <2>2. ASSUME NEW g, g = H!MovedOn(health, to) PROVE BookedRow(g)'
    BY <1>1, <2>1, <2>2, SameWorth
  <2> QED
    BY <1>1, <2>2 DEF BookedRow, WindowSound
<1>10. \A e \in DOMAIN estimates : e.to \in Nat
  BY SentIs DEF HealthInv, HealthSound, EstimateSound
<1>11. \A e \in DOMAIN estimates : health.cursor # None /\ e.to <= health.cursor /\ e.to <= to
  BY <1>2, <1>4, <1>10 DEF Above
<1>12. KeepsWorking(health)'
  <2>1. WorkingUpTo(health) = DOMAIN estimates /\ WorkingUpTo(health)' = DOMAIN estimates
    BY <1>1, <1>4, <1>8, <1>11 DEF WorkingUpTo
  <2>2. health.samples = Cardinality(WorkingUpTo(health))
    BY DEF HealthInv, HealthSound, KeepsWorking
  <2> QED
    BY <1>8, <2>1, <2>2 DEF KeepsWorking
<1>13. Trail(<<>>, {})'
  <2>1. \A e \in DOMAIN estimates' : ~Above(e.to, health)'
    BY <1>1, <1>4, <1>8, <1>10, <1>11 DEF Above
  <2>2. \A v \in Worker : OnTrail(worker[v], <<>>, {})'
    BY <1>5, <1>6 DEF OnTrail
  <2> QED
    BY <2>1, <2>2 DEF Trail
<1>14. IsFiniteSet(DOMAIN estimates)' /\ \A e \in DOMAIN estimates' : EstimateSound(e)'
  BY <1>1, SameWorth DEF HealthInv, HealthSound
<1> QED
  BY <1>7, <1>9, <1>12, <1>13, <1>14 DEF HealthSound

LEMMA BookSound == ASSUME H!SohAssumption, OneWorker, HealthInv, NEW w \in Worker, H!Book(w), HealthTyped'
                   PROVE  HealthSound'
<1>1. PICK h : h = worker[w].row
  OBVIOUS
<1>2. PICK page : page = worker[w].page
  OBVIOUS
<1>3. PICK b : b = H!Min(page)
  OBVIOUS
<1>4. PICK s : s = H!SampleAt(b)
  OBVIOUS
<1>5. PICK e1 : e1 = Made(h, b)
  OBVIOUS
<1>6. PICK g : g = H!Step(h, s)
  OBVIOUS
<1>7. PICK t : t = [worker[w] EXCEPT !.row = g, !.page = page \ {b}]
  OBVIOUS
<1>8. HealthTyped /\ RowTyped(h) /\ worker[w] \in SweepState /\ SweepTyped(worker[w]) /\ series \in Series
  BY <1>1 DEF HealthInv, HealthTyped, SweepTyped
<1>9. worker[w].pc = "loop" /\ page # {} /\ s.at = b
  BY <1>2, <1>4 DEF H!Book, H!SampleAt
<1>10. /\ worker' = [worker EXCEPT ![w] = t] /\ t.pc = "loop" /\ t.row = g /\ t.page = page \ {b}
       /\ UNCHANGED <<clock, series, health, lapses>>
  <2>1. worker' = [worker EXCEPT ![w].row = g, ![w].page = @ \ {b}]
    BY <1>1, <1>2, <1>3, <1>4, <1>6, <1>9 DEF H!Book
  <2>2. worker' = [worker EXCEPT ![w] = t]
    BY <1>2, <1>7, <1>8, <2>1 DEF HealthTyped, SweepState
  <2>3. t.pc = "loop" /\ t.row = g /\ t.page = page \ {b}
    BY <1>7, <1>8, <1>9 DEF SweepState
  <2> QED
    BY <2>2, <2>3 DEF H!Book
<1>11. estimates' = IF H!Closed(h.window, h.prev, s) THEN H!Inserted(e1) ELSE estimates
  <2>1. e1 = [from |-> h.window.from, to |-> s.at, span |-> h.window.soc - s.soc, energy |-> h.window.energy]
    BY <1>4, <1>5, <1>9 DEF Made
  <2> QED
    BY <1>1, <1>2, <1>3, <1>4, <2>1 DEF H!Book
<1>12. SweepSound(worker[w])
  BY DEF HealthInv, HealthSound
<1>13. /\ BookedRow(h) /\ KeepsWorking(h) /\ page \subseteq H!PageOf(health.cursor)
       /\ \A x \in page : \A y \in Sent : Above(y, h) /\ y < x => y \in page
       /\ health.cursor # None => h.cursor # None /\ health.cursor <= h.cursor
  BY <1>1, <1>2, <1>9, <1>12 DEF SweepSound
<1>14. /\ health.cursor \in H!Bucket \cup {None} /\ (health.cursor # None => health.cursor \in Nat)
       /\ h.cursor \in H!Bucket \cup {None} /\ (h.cursor # None => h.cursor \in Nat)
  BY <1>8, HealthNumbers DEF HealthTyped, RowTyped, RowState
<1>15. \A x \in H!PageOf(health.cursor) : x \in Sent /\ x \in Nat /\ Above(x, health)
  BY <1>8, <1>14, PageSent, SentIs DEF Above
<1>16. b \in page /\ (\A x \in page : b <= x) /\ b \in Sent /\ b \in Nat /\ Above(b, health)
  <2>1. page \subseteq Nat
    BY <1>13, <1>15
  <2>2. b \in page /\ \A x \in page : b <= x
    BY <1>3, <1>9, <2>1, FirstIs
  <2> QED
    BY <1>13, <1>15, <2>2
<1>17. Above(b, h) /\ NextSample(h, b)
  <2>1. Above(b, h)
    BY <1>1, <1>2, <1>8, <1>16 DEF SweepTyped, Above
  <2>2. \A x \in Sent : Above(x, h) => b <= x
    <3> TAKE x \in Sent
    <3> HAVE Above(x, h)
    <3>1. x \in Nat
      BY SentIs
    <3>2. x < b => x \in page
      BY <1>13, <1>16
    <3> QED
      BY <1>16, <3>1, <3>2
  <2> QED
    BY <1>16, <2>1, <2>2 DEF NextSample
<1>18. BookedRow(g) /\ (H!Closed(h.window, h.prev, s) => EstimateSound(e1))
  BY <1>4, <1>5, <1>6, <1>8, <1>13, <1>17, StepBooks
<1>19. g.cursor = b /\ g.samples = h.samples + IF H!Closed(h.window, h.prev, s) THEN 1 ELSE 0
  BY <1>4, <1>6, <1>9 DEF H!Step
<1>20. PICK f, A : Trail(f, A)
  BY DEF HealthInv, HealthSound
<1>21. /\ A \subseteq H!PageOf(health.cursor) /\ A \subseteq Sent /\ A \subseteq Nat
       /\ \A x \in A : Above(x, health)
       /\ \A x \in A : \A y \in Sent : Above(y, health) /\ y < x => y \in A
       /\ h = health \/ (h.cursor \in A /\ h = f[h.cursor] /\ h.cursor # None)
  <2>1. A \subseteq H!PageOf(health.cursor) /\ \A x \in A : \A y \in Sent : Above(y, health) /\ y < x => y \in A
    BY <1>20 DEF Trail
  <2>2. h = health \/ (h.cursor \in A /\ h = f[h.cursor])
    BY <1>1, <1>9, <1>20 DEF Trail, OnTrail
  <2>3. A \subseteq Nat
    BY <1>15, <2>1
  <2>4. h.cursor \in A => h.cursor # None
    BY <2>3, HealthNumbers
  <2> QED
    BY <1>15, <2>1, <2>2, <2>3, <2>4
<1>22. PICK B : B = A \cup {b}
  OBVIOUS
<1>23. PICK k : k = [x \in B |-> IF x \in A THEN f[x] ELSE g]
  OBVIOUS
\* The row in hand is what comes before b on the trail, and nothing else does.
<1>24. \A x \in A : x < b => h # health /\ x <= h.cursor
  <2> TAKE x \in A
  <2> HAVE x < b
  <2>1. x \in Sent /\ x \in Nat /\ Above(x, health)
    BY <1>21
  <2>2. ~Above(x, h)
    BY <1>16, <1>17, <2>1 DEF NextSample
  <2> QED
    BY <1>14, <2>1, <2>2 DEF Above
<1>25. \A r : Prior(f, A, b, r) => r = h
  <2> TAKE r
  <2> HAVE Prior(f, A, b, r)
  <2>1. CASE h = health
    BY <1>24, <2>1 DEF Prior
  <2>2. CASE h # health
    <3>1. h.cursor \in A /\ h = f[h.cursor] /\ h.cursor < b /\ h.cursor \in Nat
      BY <1>14, <1>17, <1>21, <2>2 DEF Above
    <3>2. PICK m \in A : m < b /\ (\A x \in A : x < b => x <= m) /\ r = f[m]
      BY <3>1 DEF Prior
    <3>3. m \in Nat /\ m <= h.cursor /\ h.cursor <= m
      BY <1>21, <1>24, <3>1, <3>2
    <3>4. m = h.cursor
      BY <3>1, <3>3
    <3> QED
      BY <3>1, <3>2, <3>4
  <2> QED
    BY <2>1, <2>2
<1>26. Prior(f, A, b, h)
  <2>1. CASE h = health
    BY <1>24, <2>1 DEF Prior
  <2>2. CASE h # health
    <3>1. h.cursor \in A /\ h = f[h.cursor] /\ h.cursor < b
      BY <1>17, <1>21, <2>2 DEF Above
    <3> QED
      BY <1>24, <3>1 DEF Prior
  <2> QED
    BY <2>1, <2>2
<1>27. b \in A => f[b] = g
  BY <1>4, <1>6, <1>20, <1>26 DEF Trail
<1>28. k[b] = g /\ \A x \in A : k[x] = f[x]
  BY <1>22, <1>23, <1>27
<1>29. \A x \in B : \A y \in B : y < x => y \in A
  <2> TAKE x \in B
  <2> TAKE y \in B
  <2> HAVE y < x
  <2>1. CASE y \in A
    BY <2>1
  <2>2. CASE y \notin A
    <3>1. y = b
      BY <1>22, <2>2
    <3>2. x \in A
      BY <1>16, <1>22, <3>1
    <3> QED
      BY <1>16, <1>21, <3>1, <3>2
  <2> QED
    BY <2>1, <2>2
<1>30. ASSUME NEW x \in B, NEW r, Prior(k, B, x, r)' PROVE Prior(f, A, x, r)
  <2>1. \/ r = health /\ \A y \in B : ~(y < x)
        \/ \E m \in B : m < x /\ (\A y \in B : y < x => y <= m) /\ r = k[m]
    BY <1>10, <1>30 DEF Prior
  <2>2. CASE r = health /\ \A y \in B : ~(y < x)
    BY <1>22, <2>2 DEF Prior
  <2>3. CASE \E m \in B : m < x /\ (\A y \in B : y < x => y <= m) /\ r = k[m]
    <3>1. PICK m \in B : m < x /\ (\A y \in B : y < x => y <= m) /\ r = k[m]
      BY <2>3
    <3>2. m \in A /\ r = f[m]
      BY <1>28, <1>29, <3>1
    <3>3. \A y \in A : y < x => y <= m
      BY <1>22, <3>1
    <3> QED
      BY <3>1, <3>2, <3>3 DEF Prior
  <2> QED
    BY <2>1, <2>2, <2>3
<1>31. DOMAIN estimates' = IF H!Closed(h.window, h.prev, s) THEN DOMAIN estimates \cup {e1} ELSE DOMAIN estimates
  BY <1>11 DEF H!Inserted
<1>32. \A v \in Worker : worker'[v] = t
  BY <1>8, <1>10, TheSweep
<1>33. e1.to = b
  BY <1>5 DEF Made
<1>34. Trail(k, B)'
  <2>1. B \subseteq H!PageOf(health.cursor)'
    <3>1. B \subseteq H!PageOf(health.cursor)
      BY <1>13, <1>16, <1>21, <1>22
    <3> QED
      BY <1>10, <3>1 DEF H!PageOf, H!LastOf, H!FirstOf, H!LastClosed
  <2>2. \A x \in B : \A y \in Sent' : Above(y, health) /\ y < x => y \in B
    <3> TAKE x \in B
    <3> TAKE y \in Sent'
    <3> HAVE Above(y, health) /\ y < x
    <3>1. y \in Sent /\ y \in Nat
      BY <1>10, SameSamples, SentIs
    <3>2. CASE x \in A
      BY <1>21, <1>22, <3>1, <3>2
    <3>3. CASE x = b
      <4>1. ~Above(y, h)
        BY <1>16, <1>17, <3>1, <3>3 DEF NextSample
      <4>2. h # health /\ h.cursor \in A /\ h.cursor \in Nat /\ y <= h.cursor
        BY <1>14, <1>21, <3>1, <4>1 DEF Above
      <4>3. y = h.cursor \/ y < h.cursor
        BY <3>1, <4>2
      <4> QED
        BY <1>21, <1>22, <3>1, <4>2, <4>3
    <3> QED
      BY <1>22, <3>2, <3>3
  <2>3. \A x \in B : \A r : Prior(k, B, x, r)' => k[x] = H!Step(r, H!SampleAt(x)')
    <3> TAKE x \in B
    <3> TAKE r
    <3> HAVE Prior(k, B, x, r)'
    <3>1. Prior(f, A, x, r) /\ H!SampleAt(x)' = H!SampleAt(x)
      BY <1>10, <1>30, SameSamples
    <3>2. CASE x \in A
      BY <1>20, <1>28, <3>1, <3>2 DEF Trail
    <3>3. CASE x = b
      <4>1. r = h
        BY <1>25, <3>1, <3>3
      <4> QED
        BY <1>4, <1>6, <1>28, <3>1, <3>3, <4>1
    <3> QED
      BY <1>22, <3>2, <3>3
  <2>4. \A e \in DOMAIN estimates' : Above(e.to, health) =>
          e.to \in B /\ \A r : Prior(k, B, e.to, r)' => Estimated(r, e.to, e)'
    <3> TAKE e \in DOMAIN estimates'
    <3> HAVE Above(e.to, health)
    <3>1. CASE e \in DOMAIN estimates
      <4>1. e.to \in A /\ \A r : Prior(f, A, e.to, r) => Estimated(r, e.to, e)
        BY <1>20, <3>1 DEF Trail
      <4>2. e.to \in B
        BY <1>22, <4>1
      <4> QED
        BY <1>10, <1>30, <4>1, <4>2, SameWorth
    <3>2. CASE e \notin DOMAIN estimates
      <4>1. e = e1 /\ H!Closed(h.window, h.prev, s) /\ e.to = b /\ b \in B
        BY <1>22, <1>31, <1>33, <3>2
      <4>2. Estimated(h, b, e)
        BY <1>4, <1>5, <4>1 DEF Estimated
      <4>3. ASSUME NEW r, Prior(k, B, b, r)' PROVE r = h
        BY <1>25, <1>30, <4>1, <4>3
      <4> QED
        BY <1>10, <4>1, <4>2, <4>3, SameWorth
    <3> QED
      BY <3>1, <3>2
  <2>5. \A v \in Worker : OnTrail(worker[v], k, B)'
    BY <1>10, <1>19, <1>22, <1>28, <1>32 DEF OnTrail
  <2>6. \A x : Above(x, health)' <=> Above(x, health)
    BY <1>10 DEF Above
  <2> QED
    BY <1>10, <2>1, <2>2, <2>3, <2>4, <2>5, <2>6 DEF Trail
\* What is kept up to b: what was, and what b closes.
<1>35. \A e \in DOMAIN estimates : e.to \in Sent /\ e.to \in Nat
  BY SentIs DEF HealthInv, HealthSound, EstimateSound
<1>36. \A e \in DOMAIN estimates : e.to = b => H!Closed(h.window, h.prev, s) /\ e = e1
  BY <1>4, <1>5, <1>16, <1>20, <1>26 DEF Trail, Estimated
<1>37. \A e \in DOMAIN estimates : e.to <= b <=> (h.cursor # None /\ e.to <= h.cursor) \/ e.to = b
  <2> TAKE e \in DOMAIN estimates
  <2>1. Above(e.to, h) => b <= e.to
    BY <1>17, <1>35 DEF NextSample
  <2> QED
    BY <1>14, <1>16, <1>17, <1>35, <2>1 DEF Above
<1>38. IsFiniteSet(DOMAIN estimates)
  BY DEF HealthInv, HealthSound
<1>39. KeepsWorking(g)'
  <2>1. WorkingUpTo(g)' = {e \in DOMAIN estimates' : e.to <= b}
    BY <1>16, <1>19, HealthNumbers DEF WorkingUpTo
  <2>2. h.samples = Cardinality(WorkingUpTo(h)) /\ IsFiniteSet(WorkingUpTo(h))
    BY <1>13, <1>38, FS_Subset DEF KeepsWorking, WorkingUpTo
  <2>3. CASE ~H!Closed(h.window, h.prev, s)
    <3>1. WorkingUpTo(g)' = WorkingUpTo(h)
      BY <1>31, <1>36, <1>37, <2>1, <2>3 DEF WorkingUpTo
    <3>2. Cardinality(WorkingUpTo(h)) \in Nat
      BY <2>2, FS_CardinalityType
    <3> QED
      BY <1>19, <2>2, <2>3, <3>1, <3>2 DEF KeepsWorking
  <2>4. CASE H!Closed(h.window, h.prev, s)
    <3>1. WorkingUpTo(g)' = WorkingUpTo(h) \cup {e1}
      BY <1>16, <1>31, <1>33, <1>36, <1>37, <2>1, <2>4 DEF WorkingUpTo
    <3>2. e1 \notin WorkingUpTo(h)
      BY <1>14, <1>16, <1>17, <1>33 DEF WorkingUpTo, Above
    <3>3. Cardinality(WorkingUpTo(h) \cup {e1}) = Cardinality(WorkingUpTo(h)) + 1
      BY <2>2, <3>2, FS_AddElement
    <3> QED
      BY <1>19, <2>2, <2>4, <3>1, <3>3 DEF KeepsWorking
  <2> QED
    BY <2>3, <2>4
<1>40. KeepsWorking(health)'
  <2>1. H!Closed(h.window, h.prev, s) => ~(health.cursor # None /\ e1.to <= health.cursor)
    BY <1>14, <1>16, <1>33 DEF Above
  <2>2. WorkingUpTo(health)' = WorkingUpTo(health)
    BY <1>10, <1>31, <2>1 DEF WorkingUpTo
  <2>3. health.samples = Cardinality(WorkingUpTo(health))
    BY DEF HealthInv, HealthSound, KeepsWorking
  <2> QED
    BY <1>10, <2>2, <2>3 DEF KeepsWorking
<1>41. BookedRow(health)'
  <2>1. ASSUME NEW r, r = health PROVE BookedRow(r)'
    BY <1>10, <2>1, SameWorth DEF HealthInv, HealthSound
  <2> QED
    BY <1>10, <2>1 DEF BookedRow, WindowSound
<1>42. IsFiniteSet(DOMAIN estimates') /\ \A e \in DOMAIN estimates' : EstimateSound(e)'
  <2>1. IsFiniteSet(DOMAIN estimates')
    BY <1>31, <1>38, FS_AddElement
  <2>2. \A e \in DOMAIN estimates' : EstimateSound(e)
    BY <1>18, <1>31 DEF HealthInv, HealthSound
  <2> QED
    BY <1>10, <2>1, <2>2, SameWorth
<1>43. SweepSound(t)'
  <2>1. BookedRow(t.row)'
    BY <1>10, <1>18, SameWorth
  <2>2. KeepsWorking(t.row)'
    BY <1>10, <1>39
  <2>3. t.page \subseteq H!PageOf(health.cursor)'
    BY <1>10, <1>13 DEF H!PageOf, H!LastOf, H!FirstOf, H!LastClosed
  <2>4. \A x \in t.page : \A y \in Sent' : Above(y, t.row) /\ y < x => y \in t.page
    <3> TAKE x \in t.page
    <3> TAKE y \in Sent'
    <3> HAVE Above(y, t.row) /\ y < x
    <3>1. y \in Sent /\ y \in Nat /\ x \in page
      BY <1>10, SameSamples, SentIs
    <3>2. b < y
      BY <1>10, <1>16, <1>19, HealthNumbers DEF Above
    <3>3. Above(y, h)
      BY <1>14, <1>16, <1>17, <3>1, <3>2 DEF Above
    <3>4. y \in page /\ y # b
      BY <1>13, <1>16, <3>1, <3>2, <3>3
    <3> QED
      BY <1>10, <3>4
  <2>5. health'.cursor # None => t.row.cursor # None /\ health'.cursor <= t.row.cursor
    BY <1>10, <1>13, <1>14, <1>16, <1>17, <1>19, HealthNumbers DEF Above
  <2> QED
    BY <1>10, <2>1, <2>2, <2>3, <2>4, <2>5 DEF SweepSound, Above
<1>44. \A v \in Worker : SweepSound(worker[v])'
  BY <1>32, <1>43 DEF SweepSound, BookedRow, WindowSound, KeepsWorking, WorkingUpTo
<1> QED
  BY <1>34, <1>40, <1>41, <1>42, <1>44 DEF HealthSound

LEMMA HealthInvNext == ASSUME H!SohAssumption, OneWorker, HealthInv, H!Next PROVE HealthInv'
<1>1. HealthTyped'
  BY HealthNext DEF HealthInv
<1>2. HealthSound'
  <2>1. CASE H!Tick
    <3>1. clock <= clock' /\ UNCHANGED <<series, health, estimates, worker>>
      BY <2>1, HealthNumbers DEF H!Tick, HealthInv, HealthTyped
    <3> QED
      BY <1>1, <3>1, TimeSound
  <2>2. ASSUME NEW w \in Worker, H!Select(w) PROVE HealthSound'
    BY <1>1, <2>2, SelectSound
  <2>3. ASSUME NEW w \in Worker, H!Read(w) PROVE HealthSound'
    BY <1>1, <2>3, ReadSound
  <2>4. ASSUME NEW w \in Worker, H!Book(w) PROVE HealthSound'
    BY <1>1, <2>4, BookSound
  <2>5. ASSUME NEW w \in Worker, H!Update(w) PROVE HealthSound'
    BY <1>1, <2>5, UpdateSound
  <2>6. ASSUME NEW w \in Worker, H!MoveOn(w) PROVE HealthSound'
    BY <1>1, <2>6, MoveOnSound
  <2>7. ASSUME NEW w \in Worker, H!Fails(w) PROVE HealthSound'
    <3>1. worker' = [worker EXCEPT ![w] = H!Resting] /\ UNCHANGED <<clock, series, health, estimates>>
      BY <2>7 DEF H!Fails
    <3> QED
      BY <1>1, <3>1, RestSound
  <2> QED
    BY <2>1, <2>2, <2>3, <2>4, <2>5, <2>6, <2>7 DEF H!Next, H!Work
<1> QED
  BY <1>1, <1>2 DEF HealthInv

LEMMA HealthIsBooked == ASSUME H!SohAssumption, HealthInv PROVE H!BookedOnce /\ H!WindowsSound /\ H!WorkingKept
<1>1. BookedRow(health) /\ KeepsWorking(health) /\ \A e \in DOMAIN estimates : EstimateSound(e)
  BY DEF HealthInv, HealthSound
<1>2. H!BookedOnce
  BY <1>1 DEF BookedRow, H!BookedOnce
<1>3. H!WindowsSound
  BY <1>1 DEF EstimateSound, H!WindowsSound, Between
<1>4. H!WorkingKept
  BY <1>1, SameCardinality DEF KeepsWorking, WorkingUpTo, H!WorkingKept
<1> QED
  BY <1>2, <1>3, <1>4

LEMMA HealthRests == ASSUME HealthTyped, UNCHANGED health_tracking PROVE HealthTyped'
<1>1. UNCHANGED <<clock, series, health, estimates, worker, lapses>>
  BY DEF health_tracking
<1>2. \A w \in Worker : SweepTyped(worker[w])'
  BY <1>1 DEF HealthTyped, SweepTyped, RowTyped
<1> QED
  BY <1>1, <1>2 DEF HealthTyped, RowTyped

LEMMA HealthInvRests ==
  ASSUME H!SohAssumption, HealthInv, UNCHANGED health_tracking PROVE HealthInv'
<1>1. HealthTyped'
  BY HealthRests DEF HealthInv
<1>2. clock <= clock' /\ UNCHANGED <<series, health, estimates, worker>>
  BY HealthNumbers DEF health_tracking, HealthInv, HealthTyped
<1> QED
  BY <1>1, <1>2, TimeSound DEF HealthInv

(***************************************************************************)
(* The safety half of HealthBooked, for every battery, page, gap, grace,     *)
(* span and number of failures, when a sweep ends before the next one        *)
(* begins: a restart, a slow tick or a backfill neither double-counts nor    *)
(* skips a stretch (soh-tracker.ts:7-10), a window never reaches across a    *)
(* charge or a hole (soh.ts:162-164), and the working of every estimate is   *)
(* kept (soh-tracker.ts:136).                                                *)
(***************************************************************************)
THEOREM TelemetryHealthBooked ==
  ASSUME OneWorker
  PROVE  TelemetrySpec => [](part = "health" => H!BookedOnce /\ H!WindowsSound /\ H!WorkingKept)
<1>0. H!SohAssumption
  BY TelemetryAssumption
<1>1. TelemetryInit => HealthInv
  BY <1>0, HealthInit, SoundInit DEF TelemetryInit, HealthInv
<1>2. HealthInv /\ [TelemetryNext]_telemetryVars => HealthInv'
  <2> SUFFICES ASSUME HealthInv, [TelemetryNext]_telemetryVars PROVE HealthInv'
    OBVIOUS
  <2>1. CASE H!Next
    BY <1>0, <2>1, HealthInvNext
  <2>2. CASE UNCHANGED health_tracking
    BY <1>0, <2>2, HealthInvRests
  <2> QED
    BY <2>1, <2>2 DEF TelemetryNext, telemetryVars
<1>3. HealthInv => (part = "health" => H!BookedOnce /\ H!WindowsSound /\ H!WorkingKept)
  BY <1>0, HealthIsBooked
<1> QED
  BY <1>1, <1>2, <1>3, PTL DEF TelemetrySpec

(***************************************************************************)
(* The faults of retention stay within their bound; the rest of its types is *)
(* KeepTyped.                                                                *)
(***************************************************************************)
LEMMA FaultsBounded ==
  ASSUME R!RetentionAssumption, faults \in 0..MaxFaults, R!Next
  PROVE  faults' \in 0..MaxFaults
<1>1. MaxFaults \in Nat
  BY DEF R!RetentionAssumption
<1>2. \/ faults' = faults
      \/ faults < MaxFaults /\ faults' = faults + 1
  BY Zenon DEF R!Next, R!Begin, R!Work, R!Plan, R!FindOldest, R!RollHour, R!DeleteGlobal, R!DeleteDefault,
         R!DeleteOrg, R!Fails, R!SetRetention, R!Pass
<1> QED
  BY <1>1, <1>2

LEMMA RetentionIsTyped ==
  ASSUME R!RetentionAssumption, KeepTyped, faults \in 0..MaxFaults
  PROVE  R!TypeOK
BY DEF KeepTyped, R!TypeOK, PlanState

(***************************************************************************)
(* What each of the three keeps stays of its type, whoever moves: the queue  *)
(* and the files of the writer, the plans of retention, the row, the pages   *)
(* and the estimates of the health sweep - sweeps may overlap here.          *)
(***************************************************************************)
THEOREM TelemetryTypeCorrect == TelemetrySpec => []TelemetryTypeOK
<1>0. R!RetentionAssumption /\ H!SohAssumption
  BY TelemetryAssumption
<1> DEFINE Typed == /\ part \in {"writer", "retention", "health"}
                    /\ RetentionInv /\ faults \in 0..MaxFaults
                    /\ HealthTyped
<1>1. TelemetryInit => Typed
  <2>1. TelemetryInit => faults \in 0..MaxFaults
    BY <1>0 DEF TelemetryInit, R!Init, R!RetentionAssumption
  <2> QED
    BY <1>0, <2>1, RetentionInit, HealthInit DEF TelemetryInit
<1>2. Typed /\ [TelemetryNext]_telemetryVars => Typed'
  <2> SUFFICES ASSUME Typed, [TelemetryNext]_telemetryVars PROVE Typed'
    OBVIOUS
  <2>1. part' = part
    BY DEF TelemetryNext, telemetryVars
  <2>2. RetentionInv' /\ faults' \in 0..MaxFaults
    <3>1. CASE R!Next
      BY <1>0, <3>1, RetentionNext, FaultsBounded
    <3>2. CASE UNCHANGED keeping
      BY <3>2, RetentionRests DEF keeping, R!vars
    <3> QED
      BY <3>1, <3>2 DEF TelemetryNext, telemetryVars
  <2>3. HealthTyped'
    <3>1. CASE H!Next
      BY <1>0, <3>1, HealthNext
    <3>2. CASE UNCHANGED health_tracking
      BY <3>2, HealthRests
    <3> QED
      BY <3>1, <3>2 DEF TelemetryNext, telemetryVars
  <2> QED
    BY <2>1, <2>2, <2>3
<1>3. Typed /\ TypeOK => TelemetryTypeOK
  BY <1>0, RetentionIsTyped, HealthIsTyped DEF RetentionInv, TelemetryTypeOK
<1> HIDE DEF Typed
<1> QED
  BY <1>1, <1>2, <1>3, TelemetryIsWriter, WriterTypeCorrect, PTL DEF TelemetrySpec

=============================================================================
