-------------------------- MODULE Webhooks_proofs --------------------------
(***************************************************************************)
(* Theorems about Webhooks: whatever overlapping sweeps, process ends and an *)
(* operator do, a row is closed for a reason its receiver or its owner gave, *)
(* and every step of the queue is one that Outbox allows.                    *)
(***************************************************************************)
EXTENDS Webhooks, TLAPS

Todo == UNION {[D -> 0..(MAX_ATTEMPTS - 1)] : D \in SUBSET Delivery}
Snapshot == [todo : Todo, enabled : BOOLEAN, at : Delivery \cup {None},
             answer : {"2xx", "4xx", "later", None}]

\* The variables have their types.
Typed ==
  /\ wanted \in BOOLEAN
  /\ queue \in [Delivery -> Row]
  /\ sweep \in [Dispatch -> Snapshot]
  /\ taken \subseteq Delivery /\ refused \subseteq Delivery
  /\ sends \in [Delivery -> 0..MAX_ATTEMPTS]
  /\ toggles \in Nat

\* What a sweep read of a row: at most as many attempts as were made of it.
SnapshotSound(s) ==
  /\ sweep[s].enabled \/ toggles > 0
  /\ \A d \in DOMAIN sweep[s].todo :
       queue[d].status # "unused" /\ sweep[s].todo[d] <= sends[d]

\* The attempt a sweep is about to record was made, and was answered as it says.
AttemptSound(s) ==
  sweep[s].at # None =>
    /\ sweep[s].at \in DOMAIN sweep[s].todo
    /\ sweep[s].todo[sweep[s].at] + 1 <= sends[sweep[s].at]
    /\ sweep[s].answer = "2xx" => sweep[s].at \in taken
    /\ sweep[s].answer = "4xx" => sweep[s].at \in refused
    /\ sweep[s].answer \in {"2xx", "4xx", "later"}

\* A row counts no attempt that was not made, and a pending one has some left.
RowSound(d) ==
  /\ queue[d].attempts <= sends[d]
  /\ queue[d].status = "pending" => queue[d].attempts < MAX_ATTEMPTS

SwitchSound == wanted \/ toggles > 0

QueueInv ==
  /\ Typed
  /\ \A s \in Dispatch : SnapshotSound(s)
  /\ \A s \in Dispatch : AttemptSound(s)
  /\ \A d \in Delivery : RowSound(d)
  /\ SwitchSound
  /\ ClosedHonest

---------------------------------------------------------------------------
LEMMA AsleepTyped ==
  ASSUME WebhookAssumption
  PROVE  /\ Asleep \in Snapshot
         /\ DOMAIN Asleep.todo = {} /\ Asleep.enabled = TRUE /\ Asleep.at = None
<1> DEFINE none == [d \in {} |-> 0]
<1>1. none \in [{} -> 0..(MAX_ATTEMPTS - 1)]
  OBVIOUS
<1>2. {} \in SUBSET Delivery
  OBVIOUS
<1>3. none \in Todo
  BY <1>1, <1>2 DEF Todo
<1> QED
  BY <1>3 DEF Asleep, Snapshot

LEMMA TodoTyped ==
  ASSUME NEW f \in Todo
  PROVE  /\ DOMAIN f \subseteq Delivery
         /\ \A d \in DOMAIN f : f[d] \in 0..(MAX_ATTEMPTS - 1)
         /\ \A d : [e \in DOMAIN f \ {d} |-> f[e]] \in Todo
<1>1. PICK D \in SUBSET Delivery : f \in [D -> 0..(MAX_ATTEMPTS - 1)]
  BY DEF Todo
<1>2. ASSUME NEW d PROVE [e \in DOMAIN f \ {d} |-> f[e]] \in Todo
  <2>1. [e \in DOMAIN f \ {d} |-> f[e]] \in [D \ {d} -> 0..(MAX_ATTEMPTS - 1)]
    BY <1>1
  <2>2. D \ {d} \in SUBSET Delivery
    OBVIOUS
  <2> QED
    BY <2>1, <2>2 DEF Todo
<1> QED
  BY <1>1, <1>2

LEMMA QueueInit ==
  ASSUME WebhookAssumption, Init
  PROVE  QueueInv
<1>1. Typed
  BY AsleepTyped DEF Init, Typed, Row, WebhookAssumption
<1>2. \A s \in Dispatch : SnapshotSound(s) /\ AttemptSound(s)
  BY AsleepTyped DEF Init, SnapshotSound, AttemptSound
<1>3. \A d \in Delivery : RowSound(d)
  <2> SUFFICES ASSUME NEW d \in Delivery PROVE RowSound(d)
    OBVIOUS
  <2>1. queue[d].attempts = 0 /\ queue[d].status = "unused" /\ sends[d] = 0
    BY DEF Init
  <2> QED
    BY <2>1 DEF RowSound
<1> QED
  BY <1>1, <1>2, <1>3 DEF Init, QueueInv, SwitchSound, ClosedHonest

\* A sweep wakes, goes to sleep or moves on; the rest is as before.
LEMMA SweepMoves ==
  ASSUME WebhookAssumption, Typed, NEW s \in Dispatch, NEW state \in Snapshot,
         sweep' = [sweep EXCEPT ![s] = state]
  PROVE  /\ sweep' \in [Dispatch -> Snapshot] /\ sweep'[s] = state
         /\ \A r \in Dispatch : r # s => sweep'[r] = sweep[r]
BY DEF Typed

\* What a sweep records of its attempt.
Number(s) == sweep[s].todo[sweep[s].at] + 1
Outcome(s) == Classify(sweep[s].answer, Number(s))

LEMMA Recording ==
  ASSUME WebhookAssumption, QueueInv, NEW s \in Dispatch, Record(s), NEW d, d = sweep[s].at
  PROVE  /\ d \in DOMAIN sweep[s].todo /\ d \in Delivery
         /\ Number(s) \in 0..MAX_ATTEMPTS /\ Number(s) <= sends[d]
         /\ Outcome(s) = "delivered" => d \in taken
         /\ Outcome(s) = "dead" => d \in refused \/ Number(s) = MAX_ATTEMPTS
         /\ Outcome(s) = "retry" => Number(s) < MAX_ATTEMPTS
         /\ Outcome(s) \in {"delivered", "dead", "retry"}
         /\ queue' \in [Delivery -> Row]
         /\ queue'[d].attempts = Number(s)
         /\ queue'[d].status = IF Outcome(s) = "retry" THEN queue[d].status ELSE Outcome(s)
         /\ \A e \in Delivery : e # d => queue'[e] = queue[e]
<1> USE DEF QueueInv
<1>a. MAX_ATTEMPTS \in Nat \ {0}
  BY DEF WebhookAssumption
<1>b. /\ DOMAIN sweep[s].todo \subseteq Delivery
      /\ \A e \in DOMAIN sweep[s].todo : sweep[s].todo[e] \in 0..(MAX_ATTEMPTS - 1)
  BY TodoTyped DEF Typed, Snapshot
<1>1. /\ d \in DOMAIN sweep[s].todo /\ d \in Delivery
      /\ queue' = [queue EXCEPT ![d] = Recorded(@, Outcome(s), Number(s))]
  BY <1>b DEF Record, AttemptSound, Outcome, Number
<1>2. /\ Number(s) \in 0..MAX_ATTEMPTS /\ Number(s) <= sends[d]
      /\ sweep[s].answer = "2xx" => d \in taken
      /\ sweep[s].answer = "4xx" => d \in refused
      /\ sweep[s].answer \in {"2xx", "4xx", "later"}
  BY <1>a, <1>b, <1>1 DEF Record, AttemptSound, Number
<1>3. /\ Outcome(s) = "delivered" => d \in taken
      /\ Outcome(s) = "dead" => d \in refused \/ Number(s) = MAX_ATTEMPTS
      /\ Outcome(s) = "retry" => Number(s) < MAX_ATTEMPTS
      /\ Outcome(s) \in {"delivered", "dead", "retry"}
  BY <1>a, <1>2 DEF Classify, Outcome
<1>4. Recorded(queue[d], Outcome(s), Number(s)) \in Row
  BY <1>1, <1>2, <1>3 DEF Recorded, Row, Typed
<1>5. /\ queue' \in [Delivery -> Row] /\ queue'[d] = Recorded(queue[d], Outcome(s), Number(s))
      /\ \A e \in Delivery : e # d => queue'[e] = queue[e]
  BY <1>1, <1>4 DEF Typed
<1> QED
  BY <1>1, <1>2, <1>3, <1>5 DEF Recorded

\* A step that leaves the queue, its sweeps and its history alone.
LEMMA QueueRests ==
  ASSUME QueueInv, UNCHANGED <<wanted, queue, sweep, history, toggles>>
  PROVE  QueueInv'
BY DEF QueueInv, history, Typed, SnapshotSound, AttemptSound, RowSound, SwitchSound, ClosedHonest

LEMMA QueueNext ==
  ASSUME WebhookAssumption, QueueInv, [Next]_vars
  PROVE  QueueInv'
<1> USE DEF QueueInv
<1>a. MAX_ATTEMPTS \in Nat \ {0}
  BY DEF WebhookAssumption
<1>b. \A s \in Dispatch :
        /\ sweep[s] \in Snapshot /\ sweep[s].todo \in Todo
        /\ DOMAIN sweep[s].todo \subseteq Delivery
        /\ \A d \in DOMAIN sweep[s].todo : sweep[s].todo[d] \in 0..(MAX_ATTEMPTS - 1)
  BY TodoTyped DEF Typed, Snapshot
<1>c. \A d \in Delivery :
        /\ queue[d] \in Row /\ sends[d] \in 0..MAX_ATTEMPTS
        /\ queue[d].attempts \in 0..MAX_ATTEMPTS
  BY DEF Typed, Row
<1>1. ASSUME NEW d \in Delivery, Emit(d) PROVE QueueInv'
  <2>1. /\ queue' \in [Delivery -> Row]
        /\ queue'[d] = [status |-> "pending", attempts |-> 0, due |-> TRUE]
        /\ \A e \in Delivery : e # d => queue'[e] = queue[e]
    BY <1>1, <1>a DEF Emit, Typed, Row
  <2>2. Typed' /\ SwitchSound'
    BY <1>1, <2>1 DEF Emit, Typed, history, SwitchSound
  <2>3. (\A s \in Dispatch : SnapshotSound(s))' /\ (\A s \in Dispatch : AttemptSound(s))'
    BY <1>1, <1>b, <2>1 DEF Emit, history, SnapshotSound, AttemptSound
  <2>4. (\A e \in Delivery : RowSound(e))' /\ ClosedHonest'
    BY <1>1, <1>a, <1>c, <2>1 DEF Emit, history, RowSound, ClosedHonest
  <2> QED
    BY <2>2, <2>3, <2>4
<1>2. ASSUME NEW d \in Delivery, Due(d) PROVE QueueInv'
  <2>1. /\ queue' \in [Delivery -> Row]
        /\ \A e \in Delivery : /\ queue'[e].status = queue[e].status
                               /\ queue'[e].attempts = queue[e].attempts
    BY <1>2, <1>c DEF Due, Typed, Row
  <2>2. Typed' /\ SwitchSound'
    BY <1>2, <2>1 DEF Due, Typed, history, SwitchSound
  <2>3. (\A s \in Dispatch : SnapshotSound(s))' /\ (\A s \in Dispatch : AttemptSound(s))'
    BY <1>2, <1>b, <2>1 DEF Due, history, SnapshotSound, AttemptSound
  <2>4. (\A e \in Delivery : RowSound(e))' /\ ClosedHonest'
    BY <1>2, <2>1 DEF Due, history, RowSound, ClosedHonest
  <2> QED
    BY <2>2, <2>3, <2>4
<1>3. ASSUME NEW s \in Dispatch, Select(s) PROVE QueueInv'
  <2> DEFINE read == [d \in DueRows |-> queue[d].attempts]
             state == [Asleep EXCEPT !.todo = read, !.enabled = wanted]
  <2>1. DueRows \subseteq Delivery /\ \A d \in DueRows : queue[d].status = "pending"
    BY DEF DueRows
  <2>2. \A d \in DueRows : queue[d].attempts \in 0..(MAX_ATTEMPTS - 1) /\ queue[d].attempts <= sends[d]
    BY <2>1, <1>a, <1>c DEF RowSound
  <2>3. read \in Todo
    <3>1. read \in [DueRows -> 0..(MAX_ATTEMPTS - 1)]
      BY <2>2
    <3> QED
      BY <2>1, <3>1 DEF Todo
  <2>4. state \in Snapshot /\ state.todo = read /\ state.enabled = wanted /\ state.at = None
    BY <2>3, AsleepTyped DEF Typed, Snapshot
  <2>5. /\ sweep' \in [Dispatch -> Snapshot] /\ sweep'[s] = state
        /\ \A r \in Dispatch : r # s => sweep'[r] = sweep[r]
    BY <1>3, <2>4, SweepMoves DEF Select
  <2>6. SnapshotSound(s)' /\ AttemptSound(s)'
    BY <1>3, <2>1, <2>2, <2>4, <2>5
    DEF Select, history, SnapshotSound, AttemptSound, SwitchSound
  <2>7. \A r \in Dispatch : r # s => SnapshotSound(r)' /\ AttemptSound(r)'
    BY <1>3, <2>5 DEF Select, history, SnapshotSound, AttemptSound
  <2>8. Typed' /\ SwitchSound' /\ (\A d \in Delivery : RowSound(d))' /\ ClosedHonest'
    BY <1>3, <2>5 DEF Select, history, Typed, SwitchSound, RowSound, ClosedHonest
  <2> QED
    BY <2>6, <2>7, <2>8
<1>4. ASSUME NEW s \in Dispatch, CloseDisabled(s) PROVE QueueInv'
  <2>1. toggles > 0
    BY <1>4 DEF CloseDisabled, SnapshotSound
  <2>2. /\ sweep' \in [Dispatch -> Snapshot] /\ sweep'[s] = Asleep
        /\ \A r \in Dispatch : r # s => sweep'[r] = sweep[r]
    BY <1>4, AsleepTyped, SweepMoves DEF CloseDisabled
  <2>3. /\ queue' \in [Delivery -> Row]
        /\ \A d \in Delivery : /\ queue'[d].attempts = queue[d].attempts
                               /\ queue'[d].status \in {queue[d].status, "dead"}
    BY <1>4, <1>c DEF CloseDisabled, Row
  <2>4. SnapshotSound(s)' /\ AttemptSound(s)'
    BY <2>2, AsleepTyped DEF SnapshotSound, AttemptSound
  <2>5. \A r \in Dispatch : r # s => SnapshotSound(r)' /\ AttemptSound(r)'
    BY <1>4, <1>b, <2>2, <2>3 DEF CloseDisabled, history, SnapshotSound, AttemptSound
  <2>6. (\A d \in Delivery : RowSound(d))' /\ ClosedHonest'
    BY <1>4, <2>1, <2>3 DEF CloseDisabled, history, RowSound, ClosedHonest
  <2>7. Typed' /\ SwitchSound'
    BY <1>4, <2>2, <2>3 DEF CloseDisabled, history, Typed, SwitchSound
  <2> QED
    BY <2>4, <2>5, <2>6, <2>7
<1>5. ASSUME NEW s \in Dispatch, NEW d \in Delivery, Send(s, d) PROVE QueueInv'
  <2>1. PICK answer \in {"2xx", "4xx", "later"}, takes \in BOOLEAN :
          /\ answer = "2xx" => takes
          /\ sweep' = [sweep EXCEPT ![s].at = d, ![s].answer = answer]
          /\ taken' = IF takes THEN taken \cup {d} ELSE taken
          /\ refused' = IF answer = "4xx" THEN refused \cup {d} ELSE refused
    BY <1>5 DEF Send
  <2> DEFINE state == [sweep[s] EXCEPT !.at = d, !.answer = answer]
  <2>2. /\ state \in Snapshot /\ state.todo = sweep[s].todo /\ state.enabled = sweep[s].enabled
        /\ state.at = d /\ state.answer = answer
    BY <1>b DEF Snapshot
  <2>3. sweep' = [sweep EXCEPT ![s] = state]
    BY <2>1
  <2>4. /\ sweep' \in [Dispatch -> Snapshot] /\ sweep'[s] = state
        /\ \A r \in Dispatch : r # s => sweep'[r] = sweep[r]
    BY <2>2, <2>3, SweepMoves
  <2>5. /\ sends' \in [Delivery -> 0..MAX_ATTEMPTS]
        /\ \A e \in Delivery : sends'[e] >= sends[e]
        /\ sends[d] < MAX_ATTEMPTS => sends'[d] = sends[d] + 1
        /\ \A e \in Delivery : sends[e] = MAX_ATTEMPTS => sends'[e] = MAX_ATTEMPTS
    BY <1>5, <1>a, <1>c DEF Send, Capped, Typed
  <2>6. d \in DOMAIN sweep[s].todo
    BY <1>5 DEF Send
  <2>7. sweep[s].todo[d] + 1 <= sends'[d]
    <3>1. sweep[s].todo[d] \in 0..(MAX_ATTEMPTS - 1) /\ sweep[s].todo[d] <= sends[d]
      BY <1>b, <2>6 DEF SnapshotSound
    <3> QED
      BY <1>a, <1>c, <2>5, <3>1
  <2>8. taken \subseteq taken' /\ refused \subseteq refused'
        /\ taken' \subseteq Delivery /\ refused' \subseteq Delivery
    BY <2>1 DEF Typed
  <2>9. answer = "2xx" => d \in taken'
    BY <2>1
  <2>10. answer = "4xx" => d \in refused'
    BY <2>1
  <2>11. SnapshotSound(s)' /\ AttemptSound(s)'
    <3>1. SnapshotSound(s)'
      BY <1>5, <1>b, <1>c, <2>2, <2>4, <2>5 DEF Send, SnapshotSound, Typed
    <3> QED
      BY <2>2, <2>4, <2>6, <2>7, <2>9, <2>10, <3>1 DEF AttemptSound
  <2>12. \A r \in Dispatch : r # s => SnapshotSound(r)' /\ AttemptSound(r)'
    BY <1>5, <1>b, <1>c, <2>4, <2>5, <2>8 DEF Send, SnapshotSound, AttemptSound, Typed
  <2>13. (\A e \in Delivery : RowSound(e))' /\ ClosedHonest'
    BY <1>5, <1>c, <2>5, <2>8 DEF Send, RowSound, ClosedHonest, Typed
  <2>14. Typed' /\ SwitchSound'
    BY <1>5, <2>4, <2>5, <2>8 DEF Send, Typed, SwitchSound
  <2> QED
    BY <2>11, <2>12, <2>13, <2>14
<1>6. ASSUME NEW s \in Dispatch, Record(s) PROVE QueueInv'
  <2> DEFINE d == sweep[s].at
  <2>1. /\ d \in DOMAIN sweep[s].todo /\ d \in Delivery
        /\ Number(s) \in 0..MAX_ATTEMPTS /\ Number(s) <= sends[d]
    BY <1>6, Recording
  <2>2. /\ Outcome(s) = "delivered" => d \in taken
        /\ Outcome(s) = "dead" => d \in refused \/ Number(s) = MAX_ATTEMPTS
        /\ Outcome(s) = "retry" => Number(s) < MAX_ATTEMPTS
        /\ Outcome(s) \in {"delivered", "dead", "retry"}
    BY <1>6, Recording
  <2>3. /\ queue' \in [Delivery -> Row]
        /\ queue'[d].attempts = Number(s)
        /\ queue'[d].status = IF Outcome(s) = "retry" THEN queue[d].status ELSE Outcome(s)
        /\ \A e \in Delivery : e # d => queue'[e] = queue[e]
    BY <1>6, Recording
  <2> DEFINE rest == [e \in DOMAIN sweep[s].todo \ {d} |-> sweep[s].todo[e]]
             on == [sweep[s] EXCEPT !.at = None, !.answer = None, !.todo = rest]
             state == IF DOMAIN sweep[s].todo = {d} THEN Asleep ELSE on
  <2>5. /\ state \in Snapshot /\ state.at = None
        /\ state.enabled \/ ~sweep[s].enabled
        /\ \A e \in DOMAIN state.todo :
             e \in DOMAIN sweep[s].todo /\ state.todo[e] = sweep[s].todo[e]
    <3>1. rest \in Todo
      BY <1>b, TodoTyped
    <3>2. /\ on \in Snapshot /\ on.at = None /\ on.enabled = sweep[s].enabled /\ on.todo = rest
      BY <1>b, <3>1 DEF Snapshot
    <3> QED
      BY <3>2, AsleepTyped
  <2>6. /\ sweep' \in [Dispatch -> Snapshot] /\ sweep'[s] = state
        /\ \A r \in Dispatch : r # s => sweep'[r] = sweep[r]
    <3>1. sweep' = [sweep EXCEPT ![s] = state]
      BY <1>6 DEF Record
    <3> QED
      BY <2>5, <3>1, SweepMoves
  <2>7. \A e \in Delivery : queue[e].status # "unused" => queue'[e].status # "unused"
    BY <2>2, <2>3
  <2>8. (\A r \in Dispatch : SnapshotSound(r))' /\ (\A r \in Dispatch : AttemptSound(r))'
    BY <1>6, <1>b, <2>5, <2>6, <2>7 DEF Record, history, SnapshotSound, AttemptSound
  <2>9. (\A e \in Delivery : RowSound(e))'
    BY <1>6, <1>a, <2>1, <2>2, <2>3 DEF Record, history, RowSound
  <2>10. ClosedHonest'
    BY <1>6, <1>a, <1>c, <2>1, <2>2, <2>3 DEF Record, history, ClosedHonest
  <2>11. Typed' /\ SwitchSound'
    BY <1>6, <2>3, <2>6 DEF Record, history, Typed, SwitchSound
  <2> QED
    BY <2>8, <2>9, <2>10, <2>11
<1>7. ASSUME Toggle PROVE QueueInv'
  <2>1. Typed' /\ toggles' > 0 /\ SwitchSound'
    BY <1>7 DEF Toggle, history, Typed, SwitchSound
  <2> QED
    BY <1>7, <2>1 DEF Toggle, history, SnapshotSound, AttemptSound, RowSound, ClosedHonest
<1>8. ASSUME Crash PROVE QueueInv'
  <2>1. sweep' \in [Dispatch -> Snapshot] /\ \A s \in Dispatch : sweep'[s] = Asleep
    BY <1>8, AsleepTyped DEF Crash
  <2>2. (\A s \in Dispatch : SnapshotSound(s))' /\ (\A s \in Dispatch : AttemptSound(s))'
    BY <2>1, AsleepTyped DEF SnapshotSound, AttemptSound
  <2> QED
    BY <1>8, <2>1, <2>2 DEF Crash, history, Typed, SwitchSound, RowSound, ClosedHonest
<1>9. CASE UNCHANGED vars
  BY <1>9, QueueRests DEF vars, history
<1> QED
  BY <1>1, <1>2, <1>3, <1>4, <1>5, <1>6, <1>7, <1>8, <1>9 DEF Next, Work

LEMMA QueueSound == ASSUME WebhookAssumption PROVE Spec => []QueueInv
<1>1. Init => QueueInv
  BY QueueInit
<1>2. QueueInv /\ [Next]_vars => QueueInv'
  BY QueueNext
<1> QED
  BY <1>1, <1>2, PTL DEF Spec

(***************************************************************************)
(* A row is closed for a reason its receiver or its owner gave, whatever     *)
(* overlapping sweeps recorded in which order (webhookSweep).                *)
(***************************************************************************)
THEOREM WebhookClosedHonest == ASSUME WebhookAssumption PROVE Spec => []ClosedHonest
<1>1. QueueInv => ClosedHonest
  BY DEF QueueInv
<1> QED
  BY <1>1, QueueSound, PTL

---------------------------------------------------------------------------
LEMMA OutboxNext ==
  ASSUME WebhookAssumption, QueueInv, [Next]_vars
  PROVE  [Promise!Next]_(Promise!outbox)
<1> USE DEF QueueInv
<1>a. \A d \in Delivery : queue[d] \in Row
  BY DEF Typed
<1>1. ASSUME OutboxState' = OutboxState, taken' = taken PROVE [Promise!Next]_(Promise!outbox)
  BY <1>1 DEF Promise!outbox
<1>2. ASSUME NEW d \in Delivery, Emit(d) PROVE Promise!Put(d)
  <2>1. /\ OutboxState[d] = "none"
        /\ OutboxState' = [OutboxState EXCEPT ![d] = "queued"]
    BY <1>2, <1>a DEF Emit, OutboxState, Typed, Row
  <2> QED
    BY <1>2, <2>1 DEF Emit, history, Promise!Put
<1>3. ASSUME NEW E \in SUBSET Delivery, NEW how \in {"delivered", "dead"},
             \A d \in E : queue[d].status # "unused" /\ (how = "delivered" => d \in taken),
             \A d \in Delivery :
               queue'[d].status = IF d \in E THEN how ELSE queue[d].status,
             taken' = taken
      PROVE  Promise!Close(E, how)
  <2>1. \A d \in E : OutboxState[d] # "none" /\ (how = "delivered" => d \in taken)
    BY <1>3, <1>a DEF OutboxState, Row
  <2>2. OutboxState' = [d \in Delivery |-> IF d \in E THEN how ELSE OutboxState[d]]
    BY <1>3 DEF OutboxState
  <2> QED
    BY <1>3, <2>1, <2>2 DEF Promise!Close
<1>4. ASSUME NEW s \in Dispatch, CloseDisabled(s)
      PROVE  \E E \in SUBSET Delivery : Promise!Close(E, "dead")
  <2>1. DOMAIN sweep[s].todo \subseteq Delivery
    BY TodoTyped DEF Typed, Snapshot
  <2> QED
    BY <1>3, <1>4, <1>a, <2>1 DEF CloseDisabled, SnapshotSound, history, Row
<1>5. ASSUME NEW s \in Dispatch, NEW d \in Delivery, Send(s, d)
      PROVE  taken' = taken \/ Promise!Receive(d)
  <2>1. OutboxState[d] # "none" /\ OutboxState' = OutboxState
    BY <1>5, <1>a DEF Send, SnapshotSound, OutboxState, Row
  <2> QED
    BY <1>5, <2>1 DEF Send, Promise!Receive
<1>6. ASSUME NEW s \in Dispatch, Record(s)
      PROVE  \/ OutboxState' = OutboxState /\ taken' = taken
             \/ \E E \in SUBSET Delivery, how \in {"delivered", "dead"} : Promise!Close(E, how)
  <2> DEFINE d == sweep[s].at
  <2>0. d \in DOMAIN sweep[s].todo /\ d \in Delivery
    BY <1>6, Recording
  <2>1. d \in Delivery /\ queue[d].status # "unused" /\ taken' = taken
    BY <1>6, <2>0 DEF Record, SnapshotSound, history
  <2>2. CASE Outcome(s) = "retry"
    <3>1. \A e \in Delivery : queue'[e].status = queue[e].status
      BY <1>6, <2>2, Recording
    <3> QED
      BY <2>1, <3>1 DEF OutboxState
  <2>3. CASE Outcome(s) # "retry"
    <3>1. /\ Outcome(s) \in {"delivered", "dead"} /\ {d} \in SUBSET Delivery
          /\ Outcome(s) = "delivered" => d \in taken
          /\ \A e \in Delivery :
               queue'[e].status = IF e \in {d} THEN Outcome(s) ELSE queue[e].status
      BY <1>6, <2>1, <2>3, Recording
    <3>2. Promise!Close({d}, Outcome(s))
      BY <1>3, <2>1, <3>1
    <3> QED
      BY <3>1, <3>2
  <2> QED
    BY <2>2, <2>3
<1>7. ASSUME \/ \E d \in Delivery : Due(d)
             \/ \E s \in Dispatch : Select(s)
             \/ Toggle \/ Crash \/ UNCHANGED vars
      PROVE  OutboxState' = OutboxState /\ taken' = taken
  <2>1. CASE \E d \in Delivery : Due(d)
    BY <2>1, <1>a DEF Due, history, Typed, Row, OutboxState
  <2>2. CASE UNCHANGED <<queue, taken>>
    BY <2>2 DEF OutboxState
  <2> QED
    BY <1>7, <2>1, <2>2 DEF Select, Toggle, Crash, vars, history
<1>8. ASSUME \E E \in SUBSET Delivery, how \in {"delivered", "dead"} : Promise!Close(E, how)
      PROVE  Promise!Next
  BY <1>8 DEF Promise!Next, Promise!Closed
<1>9. ASSUME NEW d \in Delivery, Promise!Put(d) \/ Promise!Receive(d) PROVE Promise!Next
  BY <1>9 DEF Promise!Next
<1>10. ASSUME NEW s \in Dispatch, NEW d \in Delivery, Send(s, d) PROVE OutboxState' = OutboxState
  BY <1>10 DEF Send, OutboxState
<1> QED
  BY <1>1, <1>2, <1>4, <1>5, <1>6, <1>7, <1>8, <1>9, <1>10 DEF Next, Work

(***************************************************************************)
(* The queue implements Outbox, but for its liveness: an event is queued     *)
(* once, is delivered only if the receiver took it, and once closed is never *)
(* queued again, whichever sweep's result comes last.                        *)
(***************************************************************************)
THEOREM WebhooksImplementOutbox == ASSUME WebhookAssumption PROVE Spec => Promise!Spec
<1>1. Init => Promise!Init
  BY DEF Init, Promise!Init, OutboxState
<1>2. QueueInv /\ [Next]_vars => [Promise!Next]_(Promise!outbox)
  BY OutboxNext
<1> QED
  BY <1>1, <1>2, QueueSound, PTL DEF Spec, Promise!Spec

=============================================================================
