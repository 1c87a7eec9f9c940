---------------------------- MODULE SohTracker ----------------------------
(***************************************************************************)
(* The battery health tracker (api/ems/soh-tracker.ts, soh.ts): sweeps walk  *)
(* one battery's samples forward from the cursor in its row, page by page,   *)
(* add up throughput and cycles, follow the discharge windows, keep the      *)
(* working of every capacity estimate and write the row back.  The lease     *)
(* (LeaderLease) keeps replicas apart, not the ticks of one: sweeps overlap. *)
(*                                                                           *)
(* A bucket is one minute.  Energy is in twelfths of a kW-bucket and cycles  *)
(* in points of SoC travelled, which keeps both whole.                       *)
(***************************************************************************)
EXTENDS Integers, FiniteSets, FiniteSetsExt

CONSTANTS
  None,
  Series,        \* what a battery may send, bucket by bucket; None: nothing
  LastBucket, Page, MaxGap, Grace, MinSpan,
  Worker,        \* sweeps that can be under way at once
  MaxFaults      \* bound: failing statements and process ends

SohAssumption ==
  /\ LastBucket \in Nat /\ MaxGap \in Nat /\ Grace \in Nat /\ MinSpan \in Nat
  /\ Page \in Nat /\ Page > MaxGap   \* 5000 buckets and 15
  /\ MaxFaults \in Nat
  /\ None \notin Int \cup [at : Nat, soc : Int \cup {None}, kw : Int \cup {None}]
  /\ \A s \in Series : \A b \in 0..LastBucket :
       s[b] # None => {s[b].soc, s[b].kw} \subseteq Int \cup {None}

VARIABLES
  clock,       \* the bucket being filled
  series,      \* what the battery sends
  health,      \* the row of battery_health
  estimates,   \* battery_capacity_estimates: how often each was inserted
  worker, lapses

vars == <<clock, series, health, estimates, worker, lapses>>

Bucket == 0..LastBucket
\* Every bucket's reading is in the store once the grace is over.
LastClosed == clock - Grace - 1

\* Where a tracker is: the last sample, the open window and what is booked.
Empty == [cursor |-> None, prev |-> None, window |-> None, discharged |-> 0,
          charged |-> 0, travelled |-> 0, samples |-> 0]
Resting == [pc |-> "idle", row |-> Empty, page |-> {}]

TypeOK ==
  /\ clock \in 0..LastBucket + Grace + 1
  /\ series \in Series
  /\ health.cursor \in Bucket \cup {None}
  /\ {health.discharged, health.charged, health.travelled, health.samples} \subseteq Nat
  /\ \A e \in DOMAIN estimates : e.from < e.to /\ estimates[e] \in 1..2
  /\ \A w \in Worker : worker[w].pc \in {"idle", "read", "loop", "silent"} /\ Cardinality(worker[w].page) <= Page
  /\ lapses \in 0..MaxFaults

---------------------------------------------------------------------------
Abs(n) == IF n < 0 THEN -n ELSE n

\* A sample; a reading that is missing is None.
SampleAt(b) == [at |-> b, soc |-> series[b].soc, kw |-> series[b].kw]
Both(p, s, key) == p # None /\ p[key] # None /\ s[key] # None

\* efcDelta
Travelled(p, s) == IF Both(p, s, "soc") THEN Abs(s.soc - p.soc) ELSE 0

\* throughputDelta: trapezoids, split where the sign changes, none over a gap.
Throughput(p, s) ==
  LET dt == s.at - p.at
      first == (6 * p.kw * p.kw * dt) \div (Abs(p.kw) + Abs(s.kw))
      second == (6 * s.kw * s.kw * dt) \div (Abs(p.kw) + Abs(s.kw))
      mean == 6 * Abs(p.kw + s.kw) * dt
  IN IF ~Both(p, s, "kw") \/ dt > MaxGap THEN [discharged |-> 0, charged |-> 0]
     ELSE IF p.kw * s.kw < 0
     THEN IF p.kw > 0 THEN [discharged |-> first, charged |-> second]
          ELSE [discharged |-> second, charged |-> first]
     ELSE IF p.kw + s.kw >= 0 THEN [discharged |-> mean, charged |-> 0]
     ELSE [discharged |-> 0, charged |-> mean]

Discharging(s) == s.kw # None /\ s.kw > 0

\* windowStep: the window after sample s; what closes is Closed's.
Window(w, p, s) ==
  LET holed == p # None /\ s.at - p.at > MaxGap IN
  IF s.soc = None \/ ~Discharging(s) THEN None
  ELSE IF w = None THEN [from |-> s.at, soc |-> s.soc, energy |-> 0]
  ELSE IF holed THEN None
  ELSE [w EXCEPT !.energy = @ + Throughput(p, s).discharged]
\* Mutant: the end of a discharge is looked for before the hole.
ClosedHoled(w, p, s) ==
  /\ w # None /\ s.soc # None /\ s.kw # None /\ ~Discharging(s)
  /\ w.soc - s.soc >= MinSpan /\ w.energy > 0
\* capacityFromWindow: a window that ends with a reading, no hole in it, energy
\* out of it and a span that is worth an estimate.
Closed(w, p, s) ==
  /\ w # None /\ s.soc # None /\ s.kw # None /\ ~Discharging(s)
  /\ p = None \/ s.at - p.at <= MaxGap
  /\ w.soc - s.soc >= MinSpan /\ w.energy > 0

\* One sample of the loop of trackBattery.
Step(h, s) ==
  LET e == Throughput(h.prev, s) IN
     [cursor |-> s.at, prev |-> s, window |-> Window(h.window, h.prev, s),
      discharged |-> h.discharged + e.discharged, charged |-> h.charged + e.charged,
      travelled |-> h.travelled + Travelled(h.prev, s),
      samples |-> h.samples + IF Closed(h.window, h.prev, s) THEN 1 ELSE 0]

\* Mutant: a page starts a bucket late.
FirstOfLater(cursor) == IF cursor = None THEN 0 ELSE cursor + 2
\* sohReadRange: closed buckets only, from the cursor on, a page of them.
FirstOf(cursor) == IF cursor = None THEN 0 ELSE cursor + 1
LastOf(cursor) == Min({LastClosed, FirstOf(cursor) + Page - 1})

\* samplesFromBuckets
PageOf(cursor) == {b \in FirstOf(cursor)..LastOf(cursor) : series[b] # None}

\* Mutant: nothing sent, nothing to do.
LongSilenceNever(h) == h.cursor = None
\* cursorAfterSilence: only a long one moves the cursor ...
LongSilence(h) == h.cursor = None \/ LastOf(h.cursor) - h.cursor > MaxGap
\* Mutant: the open window stays.
MovedOnOpen(h, to) == [h EXCEPT !.cursor = to, !.prev = None]
\* ... and takes the last reading and the window with it; the sums stay.
MovedOn(h, to) == [h EXCEPT !.cursor = to, !.prev = None, !.window = None]

---------------------------------------------------------------------------
Init ==
  /\ clock = 0
  /\ series \in Series
  /\ health = Empty
  /\ estimates = [e \in {} |-> 0]
  /\ worker = [w \in Worker |-> Resting]
  /\ lapses = 0

\* sohSweep's select of the rows.
Select(w) ==
  /\ worker[w].pc = "idle"
  /\ worker' = [worker EXCEPT ![w] = [Resting EXCEPT !.pc = "read", !.row = health]]
  /\ UNCHANGED <<clock, series, health, estimates, lapses>>

\* trackBattery reads a page.  Nothing closed since, or a short silence: it is done.
Read(w) ==
  LET h == worker[w].row
      page == PageOf(h.cursor)
      next == IF FirstOf(h.cursor) > LastClosed THEN Resting
              ELSE IF page # {} THEN [pc |-> "loop", row |-> h, page |-> page]
              ELSE IF LongSilence(h)
              THEN [pc |-> "silent", page |-> {}, row |-> MovedOn(h, LastOf(h.cursor))]
              ELSE Resting
  IN /\ worker[w].pc = "read"
     /\ worker' = [worker EXCEPT ![w] = next]
     /\ UNCHANGED <<clock, series, health, estimates, lapses>>

Inserted(e) ==
  [x \in DOMAIN estimates \cup {e} |->
     IF x # e THEN estimates[x] ELSE IF e \in DOMAIN estimates THEN 2 ELSE 1]
\* The loop, a sample at a time; the working of an estimate is inserted in it.
Book(w) ==
  LET h == worker[w].row
      s == SampleAt(Min(worker[w].page))
  IN /\ worker[w].pc = "loop" /\ worker[w].page # {}
     /\ worker' = [worker EXCEPT ![w].row = Step(h, s), ![w].page = @ \ {s.at}]
     /\ estimates' = IF Closed(h.window, h.prev, s)
          THEN Inserted([from |-> h.window.from, to |-> s.at,
                         span |-> h.window.soc - s.soc, energy |-> h.window.energy])
          ELSE estimates
     /\ UNCHANGED <<clock, series, health, lapses>>

\* Then the row is written, whatever it is by now.
Update(w) ==
  /\ worker[w].pc = "loop" /\ worker[w].page = {}
  /\ health' = worker[w].row
  /\ worker' = [worker EXCEPT ![w] = Resting]
  /\ UNCHANGED <<clock, series, estimates, lapses>>

\* The other update, after a long silence.
MoveOn(w) ==
  /\ worker[w].pc = "silent"
  /\ health' = MovedOn(health, worker[w].row.cursor)
  /\ worker' = [worker EXCEPT ![w] = Resting]
  /\ UNCHANGED <<clock, series, estimates, lapses>>

\* A statement fails, or the process ends.
Fails(w) ==
  /\ worker[w].pc # "idle"
  /\ lapses < MaxFaults /\ lapses' = lapses + 1
  /\ worker' = [worker EXCEPT ![w] = Resting]
  /\ UNCHANGED <<clock, series, health, estimates>>

Tick ==
  /\ clock <= LastBucket + Grace /\ clock' = clock + 1
  /\ UNCHANGED <<series, health, estimates, worker, lapses>>

Work(w) == Read(w) \/ Book(w) \/ Update(w) \/ MoveOn(w)

Next ==
  \/ \E w \in Worker : Select(w) \/ Work(w) \/ Fails(w)
  \/ Tick

Spec == Init /\ [][Next]_vars

\* The timer fires, statements come back, time passes.
FairSpec ==
  /\ Spec
  /\ \A w \in Worker : WF_vars(Select(w)) /\ WF_vars(Work(w))
  /\ WF_vars(Tick)

---------------------------------------------------------------------------
\* The battery's samples up to a bucket, and those that follow one another.
UpTo(c) == IF c = None THEN {} ELSE {b \in 0..c : series[b] # None}
Neighbours(S) == {x \in S \X S : x[1] < x[2] /\ \A c \in S : c <= x[1] \/ c >= x[2]}
Sum(f) == MapThenSumSet(LAMBDA x : f[x], DOMAIN f)
\* What flowed between neighbours, out of the battery and into it.
Flow(S) == [x \in Neighbours(S) |-> Throughput(SampleAt(x[1]), SampleAt(x[2]))]
Out(S) == Sum([x \in Neighbours(S) |-> Flow(S)[x].discharged])
In(S) == Sum([x \in Neighbours(S) |-> Flow(S)[x].charged])

(***************************************************************************)
(* "a restart, a slow tick or a backfill must not double-count throughput or *)
(* skip a stretch" (soh-tracker.ts:7-10): whatever pages the samples came    *)
(* in, and whichever sweep wrote last, the row has booked what lies between  *)
(* the neighbouring samples up to its cursor, each pair once.                *)
(***************************************************************************)
BookedOnce ==
  /\ health.discharged = Out(UpTo(health.cursor))
  /\ health.charged = In(UpTo(health.cursor))

(***************************************************************************)
(* A window "is never extended across a charge" (soh.ts:162-164), and a hole *)
(* in the data leaves no estimate: every one kept covers an unbroken         *)
(* discharge, with the energy and the span that were read in it.             *)
(***************************************************************************)
WindowsSound ==
  \A e \in DOMAIN estimates :
    LET there == {b \in e.from..e.to : series[b] # None}
        inside == there \ {e.to}
    IN /\ {e.from, e.to} \subseteq there
       /\ \A b \in inside : series[b].soc # None /\ Discharging(series[b])
       /\ \A x \in Neighbours(there) : x[2] - x[1] <= MaxGap
       /\ e.span = series[e.from].soc - series[e.to].soc /\ e.span >= MinSpan
       /\ e.energy = Out(inside)

(***************************************************************************)
(* "The working is kept, not just the conclusion" (soh-tracker.ts:136): the  *)
(* row has blended as many estimates as the table has working of, up to its  *)
(* cursor.                                                                   *)
(***************************************************************************)
WorkingKept ==
  health.samples = Cardinality({e \in DOMAIN estimates : health.cursor # None /\ e.to <= health.cursor})

(***************************************************************************)
(* "every battery that is processed moves to the back of the queue"          *)
(* (soh-tracker.ts:213-214), and "a battery that has been offline for longer *)
(* than a page" gets past the hole (soh.ts:280-282): nothing that was sent   *)
(* stays unread.                                                             *)
(***************************************************************************)
CatchesUp == <>[](UpTo(LastBucket) \subseteq UpTo(health.cursor))

=============================================================================
