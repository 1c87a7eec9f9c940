------------------------ MODULE Ingestion_proofs ------------------------
(***************************************************************************)
(* Theorems about what every replica does with the messages it gets, for any *)
(* number of replicas, channels and faults: one alarm of a replica for one   *)
(* breach, no channel told of the end of what it never heard of and none     *)
(* paged on and on, one gateway for racing first messages.                   *)
(***************************************************************************)
EXTENDS Ingestion, FiniteSetTheorems, TLAPS

---------------------------------------------------------------------------
\* Alarm rules.

FrameState == [pc : {"idle", "load", "open", "raise", "insert", "save", "close"},
               breached : BOOLEAN, next : A!Record]

(***************************************************************************)
(* Why a replica raises once a breach: the record it caches with a raise      *)
(* says so, and without a fault it keeps it, so no frame of its own gets to   *)
(* another insert before a frame without a breach starts the count over.      *)
(***************************************************************************)
FiresKnown(r) == frame[r].pc \in {"raise", "insert"} => frame[r].next.raised
RaisedOnce(r) ==
  raisedIn[r] # 0 =>
    /\ raisedIn[r] = 1
    /\ breachState[r] # None /\ breachState[r].raised
    /\ frame[r].pc = "idle" \/ (frame[r].pc = "save" /\ ~frame[r].breached)
AlarmsInv ==
  /\ A!TypeOK
  /\ \A r \in Replica : FiresKnown(r)
  /\ faults = 0 => \A r \in Replica : RaisedOnce(r)

LEMMA RecordIs ==
  ASSUME A!AlarmsAssumption
  PROVE  /\ A!Cleared \in A!Record /\ A!NoFrame \in FrameState
         /\ \A rec \in A!BreachRow : rec # None <=> rec \in A!Record
BY DEF A!AlarmsAssumption, A!Record, A!Cleared, A!NoFrame, FrameState, A!BreachRow

\* A transition leads to a record, and a raise to one that says so.
LEMMA TransitionIs ==
  ASSUME A!AlarmsAssumption, NEW rec \in A!Record, NEW breached \in BOOLEAN
  PROVE  /\ A!AlarmTransition(rec, breached).next \in A!Record
         /\ A!AlarmTransition(rec, breached).action \in {"raise", "clear", "none"}
         /\ A!AlarmTransition(rec, breached).action = "raise" =>
              breached /\ ~rec.raised /\ A!AlarmTransition(rec, breached).next.raised
         /\ breached /\ rec.raised => A!AlarmTransition(rec, breached).next.raised
         /\ A!AlarmTransition(rec, breached).action = "clear" => ~breached
<1> DEFINE age == IF rec.age < 0 THEN 0 ELSE rec.age
           fires == breached /\ ~rec.raised /\ age >= Duration
<1>1. rec.age \in -1..Duration /\ rec.raised \in BOOLEAN /\ age \in -1..Duration
  BY DEF A!Record, A!AlarmsAssumption
<1>2. [age |-> age, raised |-> rec.raised \/ fires] \in A!Record /\ A!Cleared \in A!Record
  BY <1>1, RecordIs DEF A!Record
<1>3. A!AlarmTransition(rec, breached) =
        [action |-> IF fires THEN "raise" ELSE IF ~breached /\ rec.raised THEN "clear" ELSE "none",
         next |-> IF breached THEN [age |-> age, raised |-> rec.raised \/ fires] ELSE A!Cleared]
  BY DEF A!AlarmTransition
<1> HIDE DEF age
<1> QED
  BY <1>1, <1>2, <1>3

LEMMA FrameIs ==
  \A b \in BOOLEAN, rec \in A!Record :
    /\ [pc |-> "raise", breached |-> b, next |-> rec] \in FrameState
    /\ [pc |-> "save", breached |-> b, next |-> rec] \in FrameState
BY DEF FrameState

\* What a decision leaves of its replica's record and frame.
DecidedAs(r, rec, breached, row, state) ==
  /\ breachState' = [breachState EXCEPT ![r] = row]
  /\ frame' = [frame EXCEPT ![r] = state]
  /\ state.pc \in {"idle", "save", "raise"}
  /\ state.pc = "raise" => state.next.raised /\ ~rec.raised
  /\ breached /\ rec.raised => row.raised
  /\ breached => (state.pc = "save" => ~state.breached)

LEMMA DecideIs ==
  ASSUME A!AlarmsAssumption, NEW r \in Replica, NEW rec \in A!Record, NEW breached \in BOOLEAN,
         A!Decide(r, rec, breached)
  PROVE  \E row \in A!Record, state \in FrameState : DecidedAs(r, rec, breached, row, state)
<1> DEFINE d == A!AlarmTransition(rec, breached)
           rising == [pc |-> "raise", breached |-> breached, next |-> d.next]
           clears == d.action = "clear"
           saving == [pc |-> "save", breached |-> clears, next |-> d.next]
<1>1. /\ d.next \in A!Record
      /\ d.action = "raise" => breached /\ ~rec.raised /\ d.next.raised
      /\ breached /\ rec.raised => d.next.raised
      /\ clears => ~breached
  BY TransitionIs
<1>2. A!NoFrame \in FrameState /\ A!NoFrame.pc = "idle"
  BY RecordIs DEF A!NoFrame
<1>3. rising \in FrameState /\ rising.pc = "raise" /\ rising.next = d.next
  BY <1>1, FrameIs, Zenon
<1>4. saving \in FrameState /\ saving.pc = "save" /\ saving.next = d.next /\ (breached => ~saving.breached)
  <2>1. clears \in BOOLEAN
    OBVIOUS
  <2> HIDE DEF clears
  <2> QED
    BY <1>1, <2>1, FrameIs, Zenon
<1>5. CASE d.action = "raise"
  <2>1. frame' = [frame EXCEPT ![r] = rising] /\ breachState' = [breachState EXCEPT ![r] = rec]
    BY <1>5 DEF A!Decide
  <2>2. DecidedAs(r, rec, breached, rec, rising)
    BY <1>1, <1>3, <1>5, <2>1 DEF DecidedAs
  <2> HIDE DEF rising
  <2> QED
    BY <1>3, <2>2
<1>6. CASE d.action = "clear" \/ (d.action = "none" /\ d.next # rec)
  <2>1. frame' = [frame EXCEPT ![r] = saving] /\ breachState' = [breachState EXCEPT ![r] = d.next]
    BY <1>6 DEF A!Decide
  <2>2. DecidedAs(r, rec, breached, d.next, saving)
    BY <1>1, <1>4, <1>6, <2>1 DEF DecidedAs
  <2> HIDE DEF saving
  <2> QED
    BY <1>1, <1>4, <2>2
<1>7. CASE d.action = "none" /\ d.next = rec
  <2>1. frame' = [frame EXCEPT ![r] = A!NoFrame] /\ breachState' = [breachState EXCEPT ![r] = rec]
    BY <1>7 DEF A!Decide, A!Drop
  <2>2. DecidedAs(r, rec, breached, rec, A!NoFrame)
    BY <1>2, <2>1 DEF DecidedAs
  <2> QED
    BY <1>2, <2>2
<1> QED
  BY <1>5, <1>6, <1>7 DEF A!Decide

LEMMA AlarmsInit ==
  ASSUME A!AlarmsAssumption, A!Init
  PROVE  AlarmsInv
<1>1. A!NoFrame \in FrameState /\ A!NoFrame.pc = "idle"
  BY RecordIs DEF A!NoFrame
<1>2. hot \in BOOLEAN /\ maintenance \in BOOLEAN
  BY DEF A!Init
<1>3. A!TypeOK
  <2>1. frame \in [Replica -> FrameState] /\ breachState \in [Replica -> A!BreachRow]
    BY <1>1 DEF A!Init, A!BreachRow
  <2>2. raisedIn \in [Replica -> 0..2] /\ ops \in 0..MaxOps /\ faults \in 0..MaxFaults
    BY DEF A!Init, A!AlarmsAssumption
  <2>3. breachRow \in A!BreachRow /\ alarm \in A!AlarmStatus
    BY DEF A!Init, A!BreachRow, A!AlarmStatus
  <2> QED
    BY <1>2, <2>1, <2>2, <2>3 DEF A!TypeOK, FrameState
<1> QED
  BY <1>1, <1>3 DEF A!Init, AlarmsInv, FiresKnown, RaisedOnce

\* One replica's evaluation goes a step on: the others' counts stand.
Steps(r, row, state, n) ==
  /\ breachState' = [breachState EXCEPT ![r] = row]
  /\ frame' = [frame EXCEPT ![r] = state]
  /\ \/ raisedIn' = [raisedIn EXCEPT ![r] = n]
     \/ n = 0 /\ raisedIn' = [s \in Replica |-> 0]
  /\ state.pc \in {"raise", "insert"} => state.next.raised
  /\ faults' = 0 /\ n # 0 =>
       /\ n = 1 /\ row # None /\ row.raised
       /\ state.pc = "idle" \/ (state.pc = "save" /\ ~state.breached)

LEMMA StepSound ==
  ASSUME A!AlarmsAssumption, AlarmsInv, NEW r \in Replica,
         NEW row \in A!BreachRow, NEW state \in FrameState, NEW n \in 0..2, Steps(r, row, state, n),
         UNCHANGED <<hot, maintenance, ops>>, breachRow' \in A!BreachRow, alarm' \in A!AlarmStatus,
         faults' \in 0..MaxFaults, faults <= faults'
  PROVE  AlarmsInv'
<1>1. /\ breachState \in [Replica -> A!BreachRow] /\ frame \in [Replica -> FrameState]
      /\ raisedIn \in [Replica -> 0..2] /\ faults \in 0..MaxFaults /\ MaxFaults \in Nat
  BY DEF AlarmsInv, A!TypeOK, FrameState, A!AlarmsAssumption
<1>2. /\ breachState' \in [Replica -> A!BreachRow] /\ frame' \in [Replica -> FrameState]
      /\ raisedIn' \in [Replica -> 0..2]
      /\ breachState'[r] = row /\ frame'[r] = state /\ raisedIn'[r] = n
      /\ \A s \in Replica \ {r} : /\ breachState'[s] = breachState[s] /\ frame'[s] = frame[s]
                                  /\ raisedIn'[s] \in {raisedIn[s], 0}
  BY <1>1 DEF Steps
<1>3. A!TypeOK'
  <2>1. hot' \in BOOLEAN /\ maintenance' \in BOOLEAN /\ ops' \in 0..MaxOps
    BY DEF AlarmsInv, A!TypeOK
  <2> QED
    BY <1>2, <2>1 DEF A!TypeOK, FrameState
<1>4. ASSUME NEW s \in Replica PROVE FiresKnown(s)'
  <2>1. CASE s = r
    BY <1>2, <2>1 DEF FiresKnown, Steps
  <2>2. CASE s # r
    BY <1>2, <2>2 DEF FiresKnown, AlarmsInv
  <2> QED
    BY <2>1, <2>2
<1>5. ASSUME faults' = 0, NEW s \in Replica PROVE RaisedOnce(s)'
  <2>1. CASE s = r
    BY <1>2, <1>5, <2>1 DEF RaisedOnce, Steps
  <2>2. CASE s # r
    <3>1. faults = 0
      BY <1>1, <1>5
    <3> QED
      BY <1>2, <2>2, <3>1 DEF RaisedOnce, AlarmsInv
  <2> QED
    BY <2>1, <2>2
<1> QED
  BY <1>3, <1>4, <1>5 DEF AlarmsInv

\* What is of one replica.
LEMMA OwnType ==
  ASSUME A!AlarmsAssumption, AlarmsInv, NEW r \in Replica
  PROVE  /\ breachState[r] \in A!BreachRow /\ frame[r] \in FrameState /\ raisedIn[r] \in 0..2
         /\ breachState = [breachState EXCEPT ![r] = breachState[r]]
         /\ raisedIn = [raisedIn EXCEPT ![r] = raisedIn[r]]
         /\ breachRow \in A!BreachRow /\ alarm \in A!AlarmStatus /\ faults \in 0..MaxFaults /\ faults <= faults
         /\ frame[r].next \in A!Record /\ frame[r].breached \in BOOLEAN
         /\ frame[r].pc \in {"raise", "insert"} => frame[r].next.raised
         /\ faults = 0 /\ raisedIn[r] # 0 =>
              /\ raisedIn[r] = 1 /\ (frame[r].pc = "idle" \/ (frame[r].pc = "save" /\ ~frame[r].breached))
              /\ breachState[r] # None /\ breachState[r].raised
<1>1. /\ breachState \in [Replica -> A!BreachRow] /\ frame \in [Replica -> FrameState]
      /\ raisedIn \in [Replica -> 0..2] /\ faults \in 0..MaxFaults /\ MaxFaults \in Nat
  BY DEF AlarmsInv, A!TypeOK, FrameState, A!AlarmsAssumption
<1>2. frame[r].next \in A!Record /\ frame[r].breached \in BOOLEAN
  BY <1>1 DEF FrameState
<1>3. breachRow \in A!BreachRow /\ alarm \in A!AlarmStatus
  BY DEF AlarmsInv, A!TypeOK
<1> QED
  BY <1>1, <1>2, <1>3 DEF AlarmsInv, FiresKnown, RaisedOnce

\* The places a frame goes to, with what it holds.
LEMMA GoesIs ==
  ASSUME A!AlarmsAssumption, AlarmsInv, NEW r \in Replica
  PROVE  /\ \A pc \in {"open", "insert", "close"} :
              /\ [frame[r] EXCEPT !.pc = pc] \in FrameState
              /\ [frame[r] EXCEPT !.pc = pc].pc = pc
              /\ [frame[r] EXCEPT !.pc = pc].next = frame[r].next
              /\ A!Go(r, pc) => frame' = [frame EXCEPT ![r] = [frame[r] EXCEPT !.pc = pc]]
         /\ A!NoFrame \in FrameState /\ A!NoFrame.pc = "idle"
         /\ A!Drop(r) => frame' = [frame EXCEPT ![r] = A!NoFrame]
<1>1. frame[r] \in FrameState
  BY OwnType
<1>2. A!NoFrame \in FrameState /\ A!NoFrame.pc = "idle"
  BY RecordIs DEF A!NoFrame
<1> QED
  BY <1>1, <1>2 DEF A!Go, A!Drop, FrameState

\* A look-up's answer leads to a decision, or on to the open alarms.
LEMMA LoadedSound ==
  ASSUME A!AlarmsAssumption, AlarmsInv, NEW r \in Replica, NEW rec \in A!BreachRow,
         A!LoadedRow(r, rec), frame[r].pc = "load"
  PROVE  \E row \in A!BreachRow, state \in FrameState :
           /\ breachState' = [breachState EXCEPT ![r] = row]
           /\ frame' = [frame EXCEPT ![r] = state]
           /\ state.pc \in {"raise", "insert"} => state.next.raised
<1>1. A!Cleared \in A!Record /\ FALSE \in BOOLEAN /\ frame[r].breached \in BOOLEAN
      /\ \A row \in A!Record : row \in A!BreachRow
  BY RecordIs, OwnType DEF A!BreachRow
<1>2. CASE rec # None
  <2>1. rec \in A!Record /\ A!Decide(r, rec, frame[r].breached)
    BY <1>2, RecordIs DEF A!LoadedRow
  <2>2. PICK row \in A!Record, state \in FrameState : DecidedAs(r, rec, frame[r].breached, row, state)
    BY <1>1, <2>1, DecideIs
  <2> QED
    BY <1>1, <2>2 DEF DecidedAs
<1>3. CASE rec = None /\ ~frame[r].breached
  <2>1. A!Decide(r, A!Cleared, FALSE)
    BY <1>3 DEF A!LoadedRow
  <2>2. PICK row \in A!Record, state \in FrameState : DecidedAs(r, A!Cleared, FALSE, row, state)
    BY <1>1, <2>1, DecideIs
  <2> QED
    BY <1>1, <2>2 DEF DecidedAs
<1>4. CASE rec = None /\ frame[r].breached
  <2>1. A!Go(r, "open") /\ UNCHANGED breachState
    BY <1>4 DEF A!LoadedRow
  <2> QED
    <3> DEFINE state == [frame[r] EXCEPT !.pc = "open"]
    <3>1. state \in FrameState /\ state.pc = "open" /\ frame' = [frame EXCEPT ![r] = state]
      BY <2>1, GoesIs
    <3>2. breachState[r] \in A!BreachRow /\ breachState' = [breachState EXCEPT ![r] = breachState[r]]
      BY <2>1, OwnType
    <3> HIDE DEF state
    <3> QED
      BY <3>1, <3>2
<1> QED
  BY <1>2, <1>3, <1>4

LEMMA FrameSound ==
  ASSUME A!AlarmsAssumption, AlarmsInv, NEW r \in Replica, A!Frame(r)
  PROVE  AlarmsInv'
<1>1. /\ frame[r].pc = "idle" /\ UNCHANGED <<hot, maintenance, ops>> /\ hot \in BOOLEAN
      /\ breachRow' \in A!BreachRow /\ alarm' \in A!AlarmStatus /\ faults' = faults
      /\ faults' \in 0..MaxFaults /\ faults <= faults'
  BY OwnType DEF A!Frame, A!env, AlarmsInv, A!TypeOK
<1>2. PICK row \in A!BreachRow, state \in FrameState :
        /\ breachState' = [breachState EXCEPT ![r] = row]
        /\ frame' = [frame EXCEPT ![r] = state]
        /\ state.pc \in {"raise", "insert"} => state.next.raised
        /\ hot /\ breachState[r] # None /\ breachState[r].raised =>
             /\ row # None /\ row.raised
             /\ state.pc = "idle" \/ (state.pc = "save" /\ ~state.breached)
  <2>1. CASE breachState[r] # None
    <3>1. breachState[r] \in A!Record /\ A!Decide(r, breachState[r], hot)
      BY <2>1, OwnType, RecordIs DEF A!Frame
    <3>2. PICK row \in A!Record, state \in FrameState :
            DecidedAs(r, breachState[r], hot, row, state)
      BY <1>1, <3>1, DecideIs
    <3>3. row \in A!BreachRow
      BY DEF A!BreachRow
    <3>4. row # None
      BY <3>3, RecordIs
    <3> QED
      BY <3>2, <3>3, <3>4 DEF DecidedAs
  <2>2. CASE breachState[r] = None
    <3> DEFINE state == [A!NoFrame EXCEPT !.pc = "load", !.breached = hot]
    <3>1. state \in FrameState /\ state.pc = "load"
      BY <1>1, GoesIs, Zenon DEF FrameState
    <3>2. frame' = [frame EXCEPT ![r] = state] /\ UNCHANGED breachState
      BY <2>2 DEF A!Frame
    <3> HIDE DEF state
    <3> QED
      BY <2>2, <3>1, <3>2, OwnType
  <2> QED
    BY <2>1, <2>2
<1>3. CASE hot
  <2>1. Steps(r, row, state, raisedIn[r]) /\ raisedIn[r] \in 0..2
    BY <1>1, <1>2, <1>3, OwnType DEF A!Frame, Steps
  <2> QED
    BY <1>1, <2>1, StepSound
<1>4. CASE ~hot
  <2>1. Steps(r, row, state, 0)
    BY <1>1, <1>2, <1>4 DEF A!Frame, Steps
  <2> QED
    BY <1>1, <2>1, StepSound
<1> QED
  BY <1>3, <1>4

LEMMA EvaluateSound ==
  ASSUME A!AlarmsAssumption, AlarmsInv, NEW r \in Replica, A!Evaluate(r)
  PROVE  AlarmsInv'
<1>1. /\ breachRow \in A!BreachRow /\ alarm \in A!AlarmStatus /\ faults \in 0..MaxFaults /\ faults <= faults
      /\ breachState[r] \in A!BreachRow /\ raisedIn[r] \in 0..2
      /\ frame[r].next \in A!Record /\ frame[r].next \in A!BreachRow
  BY OwnType DEF A!BreachRow
<1>2. /\ A!NoFrame \in FrameState /\ A!NoFrame.pc = "idle"
      /\ frame[r].pc \in {"raise", "insert"} => frame[r].next.raised
      /\ \A n \in {raisedIn[r]} : faults = 0 /\ n # 0 =>
           /\ n = 1 /\ (frame[r].pc = "idle" \/ (frame[r].pc = "save" /\ ~frame[r].breached))
           /\ breachState[r] # None /\ breachState[r].raised
      /\ breachState = [breachState EXCEPT ![r] = breachState[r]]
      /\ raisedIn = [raisedIn EXCEPT ![r] = raisedIn[r]]
  BY OwnType, GoesIs
<1>3. UNCHANGED <<hot, maintenance, ops, faults>>
  BY DEF A!Evaluate, A!Load, A!LoadOpen, A!CheckMaintenance, A!Insert, A!Upsert, A!Resolve, A!env
<1>4. CASE A!Load(r)
  <2>1. A!LoadedRow(r, breachRow) /\ frame[r].pc = "load" /\ UNCHANGED <<breachRow, alarm, raisedIn>>
    BY <1>4 DEF A!Load
  <2>2. PICK row \in A!BreachRow, state \in FrameState :
           /\ breachState' = [breachState EXCEPT ![r] = row]
           /\ frame' = [frame EXCEPT ![r] = state]
           /\ state.pc \in {"raise", "insert"} => state.next.raised
    BY <1>1, <2>1, LoadedSound
  <2>3. Steps(r, row, state, raisedIn[r])
    BY <1>2, <1>3, <2>1, <2>2 DEF Steps
  <2> QED
    BY <1>1, <1>3, <2>1, <2>3, StepSound
<1>5. CASE A!LoadOpen(r)
  <2> DEFINE rec == IF alarm \in A!Open THEN [age |-> 0, raised |-> TRUE] ELSE A!Cleared
  <2>1. rec \in A!Record /\ TRUE \in BOOLEAN
    BY RecordIs DEF A!Record, A!AlarmsAssumption
  <2>2. A!Decide(r, rec, TRUE) /\ frame[r].pc = "open" /\ UNCHANGED <<breachRow, alarm, raisedIn>>
    BY <1>5 DEF A!LoadOpen
  <2> HIDE DEF rec
  <2>3. PICK row \in A!Record, state \in FrameState : DecidedAs(r, rec, TRUE, row, state)
    BY <2>1, <2>2, DecideIs
  <2>4. Steps(r, row, state, raisedIn[r]) /\ row \in A!BreachRow
    BY <1>2, <1>3, <2>2, <2>3 DEF Steps, DecidedAs, A!BreachRow
  <2> QED
    BY <1>1, <1>3, <2>2, <2>4, StepSound
<1>6. CASE A!CheckMaintenance(r)
  <2>1. /\ frame[r].pc = "raise" /\ UNCHANGED <<breachRow, alarm, raisedIn, breachState>>
        /\ A!Drop(r) \/ A!Go(r, "insert")
    BY <1>6 DEF A!CheckMaintenance
  <2>2. \E state \in FrameState :
          /\ frame' = [frame EXCEPT ![r] = state]
          /\ state.pc \in {"raise", "insert"} => state.next.raised
    BY <1>2, <2>1, GoesIs
  <2>3. \E state \in FrameState : Steps(r, breachState[r], state, raisedIn[r])
    BY <1>2, <1>3, <2>1, <2>2 DEF Steps
  <2> QED
    BY <1>1, <1>3, <2>1, <2>3, StepSound
<1>7. CASE A!Insert(r)
  <2> DEFINE state == [frame[r] EXCEPT !.pc = "save", !.breached = FALSE]
  <2>1. state \in FrameState /\ state.pc = "save" /\ ~state.breached
    <3>1. frame[r] \in FrameState
      BY OwnType
    <3> QED
      BY <3>1 DEF FrameState
  <2>2. /\ frame[r].pc = "insert" /\ frame' = [frame EXCEPT ![r] = state] /\ UNCHANGED breachRow
        /\ breachState' = [breachState EXCEPT ![r] = frame[r].next]
        /\ alarm' \in A!AlarmStatus
    BY <1>1, <1>7 DEF A!Insert, A!AlarmStatus, A!Open
  <2>3. PICK n \in 0..2 : /\ raisedIn' = [raisedIn EXCEPT ![r] = n]
                          /\ faults = 0 => n \in {0, 1}
    <3>1. raisedIn' = raisedIn \/ raisedIn' = [raisedIn EXCEPT ![r] = IF raisedIn[r] = 2 THEN 2 ELSE raisedIn[r] + 1]
      BY <1>7 DEF A!Insert, A!Raised
    <3>2. faults = 0 => raisedIn[r] = 0
      BY <1>2, <2>2
    <3> QED
      BY <1>1, <1>2, <3>1, <3>2
  <2>4. frame[r].next.raised /\ frame[r].next # None
    BY <1>1, <1>2, <2>2, RecordIs
  <2> HIDE DEF state
  <2>5. Steps(r, frame[r].next, state, n)
    BY <1>3, <2>1, <2>2, <2>3, <2>4 DEF Steps
  <2> QED
    BY <1>1, <1>3, <2>1, <2>2, <2>5, StepSound
<1>8. CASE A!Upsert(r)
  <2>1. /\ frame[r].pc = "save" /\ breachRow' = frame[r].next /\ UNCHANGED <<breachState, alarm, raisedIn>>
        /\ (frame[r].breached /\ A!Go(r, "close")) \/ (~frame[r].breached /\ A!Drop(r))
    BY <1>8 DEF A!Upsert, A!Saved
  <2>2. \E state \in FrameState :
          /\ frame' = [frame EXCEPT ![r] = state]
          /\ state.pc = "idle" \/ (state.pc = "close" /\ frame[r].breached)
    BY <1>2, <2>1, GoesIs
  <2>3. \E state \in FrameState : Steps(r, breachState[r], state, raisedIn[r])
    BY <1>2, <1>3, <2>1, <2>2 DEF Steps
  <2> QED
    BY <1>1, <1>3, <2>1, <2>3, StepSound
<1>9. CASE A!Resolve(r)
  <2>1. /\ frame[r].pc = "close" /\ alarm' \in A!AlarmStatus /\ A!Drop(r)
        /\ UNCHANGED <<breachRow, breachState, raisedIn>>
    BY <1>1, <1>9 DEF A!Resolve, A!AlarmStatus
  <2>2. Steps(r, breachState[r], A!NoFrame, raisedIn[r])
    BY <1>2, <1>3, <2>1, GoesIs DEF Steps
  <2> QED
    BY <1>1, <1>2, <1>3, <2>1, <2>2, StepSound
<1> QED
  BY <1>4, <1>5, <1>6, <1>7, <1>8, <1>9 DEF A!Evaluate

LEMMA FaultSound ==
  ASSUME A!AlarmsAssumption, AlarmsInv, NEW r \in Replica, A!Fault(r) \/ A!Crash(r)
  PROVE  AlarmsInv'
<1>1. /\ breachRow \in A!BreachRow /\ alarm \in A!AlarmStatus
      /\ breachState[r] \in A!BreachRow /\ raisedIn[r] \in 0..2
      /\ None \in A!BreachRow /\ frame[r] \in FrameState
  BY OwnType DEF A!BreachRow
<1>2. /\ A!NoFrame \in FrameState /\ A!NoFrame.pc = "idle"
      /\ breachState = [breachState EXCEPT ![r] = breachState[r]]
      /\ raisedIn = [raisedIn EXCEPT ![r] = raisedIn[r]]
  BY OwnType, GoesIs
<1>3. /\ UNCHANGED <<hot, maintenance, ops, breachRow>>
      /\ faults' \in 0..MaxFaults /\ faults <= faults' /\ faults' # 0
  <2>1. UNCHANGED <<hot, maintenance, ops, breachRow>> /\ faults < MaxFaults /\ faults' = faults + 1
    BY DEF A!Fault, A!Crash, A!env
  <2>2. faults \in 0..MaxFaults /\ MaxFaults \in Nat
    BY DEF AlarmsInv, A!TypeOK, A!AlarmsAssumption
  <2> QED
    BY <2>1, <2>2
<1>4. \E row \in A!BreachRow, state \in FrameState, n \in 0..2 :
        Steps(r, row, state, n) /\ alarm' \in A!AlarmStatus
  <2>1. CASE A!Crash(r)
    <3>1. Steps(r, None, A!NoFrame, 0) /\ alarm' = alarm
      BY <1>2, <1>3, <2>1, GoesIs DEF A!Crash, Steps
    <3> QED
      BY <1>1, <1>2, <3>1
  <2>2. CASE A!Fault(r) /\ frame[r].pc = "load"
    <3>1. A!LoadedRow(r, None) /\ UNCHANGED <<alarm, raisedIn>>
      BY <2>2 DEF A!Fault
    <3>2. PICK row \in A!BreachRow, state \in FrameState :
             /\ breachState' = [breachState EXCEPT ![r] = row]
             /\ frame' = [frame EXCEPT ![r] = state]
             /\ state.pc \in {"raise", "insert"} => state.next.raised
      BY <1>1, <2>2, <3>1, LoadedSound
    <3>3. Steps(r, row, state, raisedIn[r])
      BY <1>2, <1>3, <3>1, <3>2 DEF Steps
    <3> QED
      BY <1>1, <3>1, <3>3
  <2>3. CASE A!Fault(r) /\ frame[r].pc = "save"
    <3>1. A!Saved(r) /\ UNCHANGED <<breachState, alarm, raisedIn>>
      BY <2>3 DEF A!Fault
    <3>2. PICK state \in FrameState : frame' = [frame EXCEPT ![r] = state] /\ state.pc \in {"idle", "close"}
      BY <1>2, <3>1, GoesIs DEF A!Saved
    <3>3. Steps(r, breachState[r], state, raisedIn[r])
      BY <1>2, <1>3, <3>1, <3>2 DEF Steps
    <3> QED
      BY <1>1, <3>1, <3>3
  <2>4. CASE A!Fault(r) /\ frame[r].pc \in {"open", "raise", "close"}
    <3>1. A!Drop(r) /\ UNCHANGED <<breachState, alarm, raisedIn>>
      BY <2>4 DEF A!Fault
    <3>2. Steps(r, breachState[r], A!NoFrame, raisedIn[r])
      BY <1>2, <1>3, <3>1, GoesIs DEF Steps
    <3> QED
      BY <1>1, <1>2, <3>1, <3>2
  <2>5. CASE A!Fault(r) /\ frame[r].pc = "insert"
    <3>1. /\ A!Drop(r) /\ UNCHANGED breachState
          /\ UNCHANGED <<alarm, raisedIn>> \/ (alarm' = "active" /\ A!Raised(r))
      BY <2>5 DEF A!Fault
    <3>2. alarm' \in A!AlarmStatus /\ \E n \in 0..2 : raisedIn' = [raisedIn EXCEPT ![r] = n]
      <4>1. CASE UNCHANGED <<alarm, raisedIn>>
        BY <1>1, <1>2, <4>1
      <4>2. CASE alarm' = "active" /\ A!Raised(r)
        <5>1. (IF raisedIn[r] = 2 THEN 2 ELSE raisedIn[r] + 1) \in 0..2
          BY <1>1
        <5>2. raisedIn' = [raisedIn EXCEPT ![r] = IF raisedIn[r] = 2 THEN 2 ELSE raisedIn[r] + 1]
          BY <4>2 DEF A!Raised
        <5> QED
          BY <4>2, <5>1, <5>2 DEF A!AlarmStatus, A!Open
      <4> QED
        BY <3>1, <4>1, <4>2
    <3>3. \E n \in 0..2 : Steps(r, breachState[r], A!NoFrame, n)
      BY <1>2, <1>3, <3>1, <3>2, GoesIs DEF Steps
    <3> QED
      BY <1>1, <1>2, <3>2, <3>3
  <2>6. frame[r].pc # "idle" \/ A!Crash(r)
    BY DEF A!Fault
  <2> QED
    BY <1>1, <2>1, <2>2, <2>3, <2>4, <2>5, <2>6 DEF FrameState
<1>5. breachRow' \in A!BreachRow
  BY <1>1, <1>3
<1> QED
  BY <1>3, <1>4, <1>5, StepSound

\* A record grows older, and forgets nothing.
LEMMA OlderIs ==
  ASSUME A!AlarmsAssumption, NEW row \in A!BreachRow
  PROVE  /\ A!Older(row) \in A!BreachRow
         /\ row \in A!Record => A!Older(row) \in A!Record
         /\ row # None /\ row.raised => A!Older(row) # None /\ A!Older(row).raised
<1>1. CASE A!Older(row) = row
  BY <1>1
<1>2. CASE A!Older(row) # row
  <2>1. row # None /\ row.age # Duration /\ A!Older(row) = [row EXCEPT !.age = row.age + 1]
    BY <1>2 DEF A!Older
  <2>2. row \in A!Record
    BY <2>1, RecordIs
  <2>3. row.age + 1 \in -1..Duration
    BY <2>1, <2>2 DEF A!Record, A!AlarmsAssumption
  <2>4. A!Older(row) \in A!Record /\ A!Older(row).raised = row.raised
    BY <2>1, <2>2, <2>3 DEF A!Record
  <2> QED
    BY <2>4, RecordIs DEF A!BreachRow
<1> QED
  BY <1>1, <1>2

LEMMA TickSound ==
  ASSUME A!AlarmsAssumption, AlarmsInv, A!Tick
  PROVE  AlarmsInv'
<1>1. UNCHANGED <<hot, maintenance, ops, alarm, raisedIn, faults>> /\ breachRow' = A!Older(breachRow)
  BY DEF A!Tick, A!env
<1>2. ASSUME NEW r \in Replica
      PROVE  /\ breachState'[r] = A!Older(breachState[r]) /\ breachState'[r] \in A!BreachRow
             /\ frame'[r] \in FrameState /\ frame'[r].pc = frame[r].pc
             /\ frame'[r].breached = frame[r].breached /\ frame'[r].next = A!Older(frame[r].next)
  <2>1. frame[r] \in FrameState /\ frame[r].next \in A!Record /\ breachState[r] \in A!BreachRow
    BY OwnType
  <2>2. frame'[r] = [frame[r] EXCEPT !.next = A!Older(frame[r].next)] /\ breachState'[r] = A!Older(breachState[r])
    BY DEF A!Tick
  <2>3. A!Older(frame[r].next) \in A!Record /\ A!Older(breachState[r]) \in A!BreachRow
    BY <2>1, OlderIs DEF A!BreachRow
  <2> QED
    BY <2>1, <2>2, <2>3 DEF FrameState
<1>3. A!TypeOK'
  <2>1. breachState' = [r \in Replica |-> A!Older(breachState[r])] /\ DOMAIN frame' = Replica
        /\ frame' = [r \in Replica |-> frame'[r]]
    BY DEF A!Tick
  <2>2. breachState' \in [Replica -> A!BreachRow] /\ frame' \in [Replica -> FrameState]
    BY <1>2, <2>1
  <2>3. hot' \in BOOLEAN /\ maintenance' \in BOOLEAN /\ ops' \in 0..MaxOps /\ faults' \in 0..MaxFaults
    BY <1>1 DEF AlarmsInv, A!TypeOK
  <2>4. breachRow' \in A!BreachRow /\ alarm' \in A!AlarmStatus /\ raisedIn' \in [Replica -> 0..2]
    BY <1>1, OlderIs DEF AlarmsInv, A!TypeOK
  <2> QED
    BY <2>2, <2>3, <2>4 DEF A!TypeOK, FrameState
<1>4. ASSUME NEW r \in Replica PROVE FiresKnown(r)'
  <2>1. frame[r].next \in A!BreachRow /\ frame[r].next # None
    BY OwnType, RecordIs DEF A!BreachRow
  <2> QED
    BY <1>2, <2>1, OwnType, OlderIs DEF FiresKnown
<1>5. ASSUME faults' = 0, NEW r \in Replica PROVE RaisedOnce(r)'
  <2>1. RaisedOnce(r) /\ breachState[r] \in A!BreachRow
    BY <1>1, <1>5, OwnType DEF AlarmsInv
  <2>2. breachState[r] # None /\ breachState[r].raised =>
          breachState'[r] # None /\ breachState'[r].raised
    BY <1>2, <2>1, OlderIs
  <2> QED
    BY <1>1, <1>2, <2>1, <2>2 DEF RaisedOnce
<1> QED
  BY <1>3, <1>4, <1>5 DEF AlarmsInv

\* What leaves the evaluations and their records alone, or only lets faults grow.
LEMMA AlarmsRest ==
  ASSUME A!AlarmsAssumption, AlarmsInv, UNCHANGED <<breachRow, breachState, frame, raisedIn>>,
         hot' \in BOOLEAN, maintenance' \in BOOLEAN, alarm' \in A!AlarmStatus,
         ops' \in 0..MaxOps, faults' \in 0..MaxFaults, faults <= faults'
  PROVE  AlarmsInv'
<1>1. faults' = 0 => faults = 0
  BY DEF AlarmsInv, A!TypeOK, A!AlarmsAssumption
<1>2. A!TypeOK'
  <2>1. /\ breachRow' \in A!BreachRow /\ breachState' \in [Replica -> A!BreachRow]
        /\ frame' \in [Replica -> FrameState] /\ raisedIn' \in [Replica -> 0..2]
    BY DEF AlarmsInv, A!TypeOK, FrameState
  <2> QED
    BY <2>1 DEF A!TypeOK, FrameState
<1>3. ASSUME NEW r \in Replica PROVE FiresKnown(r)' /\ (RaisedOnce(r) => RaisedOnce(r)')
  BY DEF AlarmsInv, FiresKnown, RaisedOnce
<1> QED
  BY <1>1, <1>2, <1>3 DEF AlarmsInv

LEMMA WorldSound ==
  ASSUME A!AlarmsAssumption, AlarmsInv, A!Acknowledge \/ A!CloseByHand \/ A!Cross \/ A!WindowEnds
  PROVE  AlarmsInv'
<1>1. UNCHANGED <<breachRow, breachState, frame, raisedIn, faults>>
  BY DEF A!Acknowledge, A!CloseByHand, A!Cross, A!WindowEnds
<1>2. alarm' \in A!AlarmStatus
  BY DEF A!Acknowledge, A!CloseByHand, A!Cross, A!WindowEnds, AlarmsInv, A!TypeOK, A!AlarmStatus, A!Open
<1>3. ops' \in 0..MaxOps /\ faults' \in 0..MaxFaults /\ faults <= faults'
  <2>1. ops \in 0..MaxOps /\ faults \in 0..MaxFaults /\ MaxOps \in Nat /\ MaxFaults \in Nat
    BY DEF AlarmsInv, A!TypeOK, A!AlarmsAssumption
  <2>2. ops' = ops \/ (ops < MaxOps /\ ops' = ops + 1)
    BY DEF A!Acknowledge, A!CloseByHand, A!Cross, A!WindowEnds
  <2> QED
    BY <1>1, <2>1, <2>2
<1>4. hot' \in BOOLEAN /\ maintenance' \in BOOLEAN
  BY Zenon DEF A!Acknowledge, A!CloseByHand, A!Cross, A!WindowEnds, AlarmsInv, A!TypeOK
<1> QED
  BY <1>1, <1>2, <1>3, <1>4, AlarmsRest

LEMMA AlarmsNext ==
  ASSUME A!AlarmsAssumption, AlarmsInv, A!Next
  PROVE  AlarmsInv'
BY FrameSound, EvaluateSound, FaultSound, WorldSound, TickSound DEF A!Next

LEMMA AlarmsHold ==
  ASSUME AlarmsInv
  PROVE  A!TypeOK /\ A!OncePerBreach
BY DEF AlarmsInv, A!OncePerBreach, RaisedOnce

---------------------------------------------------------------------------
\* The notifications of an alarm.

JobState == [pc : {"idle", "found", "list", "next", "send", "row"},
             left : SUBSET N!Channel, ch : N!Channel \cup {None}, ok : BOOLEAN]

Paged(c) == told[c]["initial"] > 0 \/ told[c]["escalation"] > 0

(***************************************************************************)
(* What a job does has a reason: its channel is one, a row that will say     *)
(* "sent" had its message reach someone, and the end of an alarm goes to     *)
(* channels that heard of it.                                                *)
(***************************************************************************)
JobSound(j) ==
  /\ job[j].pc \in {"send", "row"} => job[j].ch \in N!Channel
  /\ job[j].pc = "row" /\ job[j].ok => told[job[j].ch][N!KindOf(j)] > 0
  /\ j \in Clear => /\ \A c \in job[j].left : Paged(c)
                    /\ job[j].pc \in {"send", "row"} => Paged(job[j].ch)

\* The jobs about to send to a channel, and those about to write its row.
Sending(jobs, c, k) == {j \in N!Job : N!KindOf(j) = k /\ jobs[j].pc = "send" /\ jobs[j].ch = c}
Writing(jobs, c, k) == {j \in N!Job : N!KindOf(j) = k /\ jobs[j].pc = "row" /\ jobs[j].ch = c}
Limit(k) == Cardinality(N!Teller(k))

(***************************************************************************)
(* Why there is no storm: while a channel has no row, each message it got is *)
(* of a job about to write it or of one that ended, and with those about to  *)
(* send they are no more than the jobs there are.                            *)
(***************************************************************************)
Quiet(c, k) ==
  /\ told[c][k] + Cardinality(Sending(job, c, k)) <= Limit(k) + faults
  /\ alarmNotifications[c][k] = "none" => told[c][k] <= Cardinality(Writing(job, c, k)) + faults

\* The notifier of the raise runs once: on the insert.
RunsOnce == notified = "none" => job[Breach].pc = "idle"

\* The alarm and what surrounds it.
Around ==
  /\ notified \in {"none", "active", "acknowledged", "resolved"}
  /\ stale \in BOOLEAN /\ suppressed \in BOOLEAN /\ crowded \in BOOLEAN /\ toggles \in 0..MaxToggles

SentReached ==
  \A c \in N!Channel, k \in N!Kind : alarmNotifications[c][k] = "sent" => told[c][k] > 0

NotifyInv ==
  /\ N!TypeOK /\ RunsOnce /\ SentReached /\ N!OnlyPagedAreTold
  /\ \A j \in N!Job : JobSound(j)
  /\ \A c \in N!Channel, k \in N!Kind : Quiet(c, k)

\* Notify's sizes are the ones the library's theorems are about.
LEMMA SizesSame ==
  \A S : (N!IsFiniteSet(S) <=> IsFiniteSet(S)) /\ N!Cardinality(S) = Cardinality(S)
BY Zenon DEF N!IsFiniteSet, IsFiniteSet, N!Cardinality, Cardinality

LEMMA JobsAre ==
  ASSUME N!NotifyAssumption
  PROVE  /\ Breach \in N!Job /\ Breach \notin Clear /\ N!KindOf(Breach) = "initial"
         /\ \A j \in N!Job : N!KindOf(j) \in N!Kind
         /\ \A j \in N!Job : N!KindOf(j) = "resolved" <=> j \in Clear
         /\ \A j \in Clear \cup Replica : j \in N!Job /\ j # Breach
         /\ \A c \in N!Channel : c # None
         /\ IsFiniteSet(N!Job) /\ N!Cap \in Nat /\ N!Cap > 0 /\ MaxFaults \in Nat
<1>1. IsFiniteSet(Replica) /\ IsFiniteSet(Clear) /\ IsFiniteSet({Breach})
  BY FS_Singleton, SizesSame DEF N!NotifyAssumption
<1>2. IsFiniteSet(N!Job)
  BY <1>1, FS_Union DEF N!Job
<1>3. Cardinality(N!Job) \in Nat
  BY <1>2, FS_CardinalityType
<1> QED
  BY <1>2, <1>3, SizesSame DEF N!NotifyAssumption, N!Job, N!KindOf, N!Kind, N!Channel, N!Cap

\* Jobs of one kind are no more than its limit.
LEMMA WorkersAre ==
  ASSUME N!NotifyAssumption, NEW k \in N!Kind, NEW S \in SUBSET N!Job, NEW T \in SUBSET N!Job, S \cap T = {},
         \A j \in S \cup T : N!KindOf(j) = k
  PROVE  /\ IsFiniteSet(S) /\ Cardinality(S) \in Nat /\ IsFiniteSet(T) /\ Cardinality(T) \in Nat
         /\ Limit(k) \in Nat /\ Cardinality(S) + Cardinality(T) <= Limit(k)
<1> DEFINE W == N!Teller(k)
<1>1. IsFiniteSet(W) /\ Cardinality(W) = Limit(k) /\ Limit(k) \in Nat
  <2>1. W \subseteq N!Job
    BY DEF N!Teller
  <2>2. IsFiniteSet(W)
    BY <2>1, JobsAre, FS_Subset
  <2> QED
    BY <2>2, FS_CardinalityType DEF Limit
<1>2. S \cup T \subseteq W
  BY DEF N!Teller
<1> HIDE DEF W
<1>3. IsFiniteSet(S \cup T) /\ Cardinality(S \cup T) <= Cardinality(W)
  BY <1>1, <1>2, FS_Subset
<1>4. IsFiniteSet(S) /\ IsFiniteSet(T)
  BY <1>3, FS_Subset
<1>5. Cardinality(S) \in Nat /\ Cardinality(T) \in Nat
  BY <1>4, FS_CardinalityType
<1>6. Cardinality(S \cap T) = 0
  BY FS_EmptySet
<1>7. Cardinality(S \cup T) = Cardinality(S) + Cardinality(T) - Cardinality(S \cap T)
  BY <1>4, FS_Union
<1> QED
  BY <1>1, <1>3, <1>4, <1>5, <1>6, <1>7

LEMMA QueuesAre ==
  ASSUME N!NotifyAssumption, NEW jobs, NEW c, NEW k \in N!Kind
  PROVE  /\ IsFiniteSet(Sending(jobs, c, k)) /\ Cardinality(Sending(jobs, c, k)) \in Nat
         /\ IsFiniteSet(Writing(jobs, c, k)) /\ Cardinality(Writing(jobs, c, k)) \in Nat
         /\ Limit(k) \in Nat
         /\ Cardinality(Sending(jobs, c, k)) + Cardinality(Writing(jobs, c, k)) <= Limit(k)
<1>1. /\ Sending(jobs, c, k) \in SUBSET N!Job /\ Writing(jobs, c, k) \in SUBSET N!Job
      /\ Sending(jobs, c, k) \cap Writing(jobs, c, k) = {}
      /\ \A j \in Sending(jobs, c, k) \cup Writing(jobs, c, k) : N!KindOf(j) = k
  BY DEF Sending, Writing
<1> QED
  BY <1>1, WorkersAre

LEMMA NotifyInit ==
  ASSUME N!NotifyAssumption, N!Init
  PROVE  NotifyInv
<1>1. N!NoJob \in JobState /\ N!NoJob.pc = "idle" /\ N!NoJob.left = {}
  BY DEF N!NoJob, JobState
<1>2. N!TypeOK
  <2>1. job \in [N!Job -> JobState]
    BY <1>1 DEF N!Init
  <2>2. told \in [N!Channel -> [N!Kind -> 0..N!Cap]]
    BY JobsAre DEF N!Init
  <2>3. alarmNotifications \in [N!Channel -> [N!Kind -> N!Notification]]
    BY DEF N!Init, N!Notification
  <2>4. toggles \in 0..MaxToggles /\ faults \in 0..MaxFaults
    BY DEF N!Init, N!NotifyAssumption
  <2> QED
    BY <2>1, <2>2, <2>3, <2>4 DEF N!Init, N!TypeOK, JobState
<1>3. \A j \in N!Job : job[j] = N!NoJob
  BY DEF N!Init
<1>4. RunsOnce /\ SentReached /\ N!OnlyPagedAreTold /\ \A j \in N!Job : JobSound(j)
  <2>1. \A c \in N!Channel, k \in N!Kind : told[c][k] = 0 /\ alarmNotifications[c][k] = "none"
    BY DEF N!Init
  <2>2. "resolved" \in N!Kind
    BY DEF N!Kind
  <2> QED
    BY <1>1, <1>3, <2>1, <2>2, JobsAre DEF RunsOnce, SentReached, N!OnlyPagedAreTold, JobSound
<1>5. ASSUME NEW c \in N!Channel, NEW k \in N!Kind PROVE Quiet(c, k)
  BY QueuesAre DEF Quiet, N!Init
<1> QED
  BY <1>2, <1>4, <1>5 DEF NotifyInv

\* What the tables hold.
LEMMA TablesAre ==
  ASSUME N!NotifyAssumption, NotifyInv
  PROVE  /\ job \in [N!Job -> JobState] /\ told \in [N!Channel -> [N!Kind -> 0..N!Cap]]
         /\ alarmNotifications \in [N!Channel -> [N!Kind -> N!Notification]]
         /\ faults \in 0..MaxFaults /\ MaxFaults \in Nat
         /\ \A c \in N!Channel, k \in N!Kind : told[c][k] \in Nat /\ told[c][k] <= told[c][k]
<1>1. /\ job \in [N!Job -> JobState] /\ told \in [N!Channel -> [N!Kind -> 0..N!Cap]]
      /\ alarmNotifications \in [N!Channel -> [N!Kind -> N!Notification]]
      /\ faults \in 0..MaxFaults /\ MaxFaults \in Nat
  BY JobsAre DEF NotifyInv, N!TypeOK, JobState
<1>2. \A c \in N!Channel, k \in N!Kind : told[c][k] \in Nat /\ told[c][k] <= told[c][k]
  BY <1>1, JobsAre
<1> QED
  BY <1>1, <1>2

\* What a job holds.
LEMMA HasIs ==
  ASSUME N!NotifyAssumption, NotifyInv, NEW j \in N!Job
  PROVE  /\ job[j] \in JobState /\ N!KindOf(j) \in N!Kind
         /\ job[j].left \in SUBSET N!Channel /\ job[j].ch \in N!Channel \cup {None} /\ job[j].ok \in BOOLEAN
         /\ N!NoJob \in JobState /\ N!NoJob.pc = "idle" /\ N!NoJob.left = {}
<1>1. N!NoJob \in JobState /\ N!NoJob.pc = "idle" /\ N!NoJob.left = {}
  BY DEF N!NoJob, JobState
<1>2. job[j] \in JobState
  BY TablesAre
<1> QED
  BY <1>1, <1>2, JobsAre DEF JobState

\* A step of one job: the others keep what they had, since messages are not unsent.
Moves(j, new) ==
  /\ job' = [job EXCEPT ![j] = new]
  /\ told' \in [N!Channel -> [N!Kind -> 0..N!Cap]]
  /\ \A c \in N!Channel, k \in N!Kind : told[c][k] <= told'[c][k]

LEMMA OthersSound ==
  ASSUME N!NotifyAssumption, NotifyInv, NEW j \in N!Job, NEW new \in JobState, Moves(j, new), JobSound(j)'
  PROVE  /\ job' \in [N!Job -> JobState] /\ job'[j] = new
         /\ \A i \in N!Job \ {j} : job'[i] = job[i]
         /\ \A i \in N!Job : JobSound(i)'
<1>1. job \in [N!Job -> JobState]
  BY HasIs, TablesAre
<1>2. job' \in [N!Job -> JobState] /\ job'[j] = new /\ \A i \in N!Job \ {j} : job'[i] = job[i]
  BY <1>1 DEF Moves
<1>3. ASSUME NEW c \in N!Channel, NEW k \in N!Kind, told[c][k] > 0 PROVE told'[c][k] > 0
  <2>1. told'[c][k] \in 0..N!Cap /\ told[c][k] <= told'[c][k] /\ told[c][k] \in Nat /\ N!Cap \in Nat
    BY HasIs, TablesAre, JobsAre DEF Moves
  <2> QED
    BY <1>3, <2>1
<1>4. \A c \in N!Channel : Paged(c) => Paged(c)'
  BY <1>3 DEF Paged, N!Kind
<1>5. ASSUME NEW i \in N!Job \ {j} PROVE JobSound(i)'
  <2>1. JobSound(i) /\ N!KindOf(i) \in N!Kind /\ job[i].left \in SUBSET N!Channel
    BY HasIs, TablesAre DEF NotifyInv
  <2>2. job'[i] = job[i]
    BY <1>2
  <2> QED
    BY <1>3, <1>4, <2>1, <2>2 DEF JobSound
<1> QED
  BY <1>2, <1>5

\* What the sizes of the queues of a channel and kind become.
LEMMA SizesMove ==
  ASSUME N!NotifyAssumption, NEW jobs \in [N!Job -> JobState], NEW j \in N!Job, NEW new \in JobState,
         NEW c \in N!Channel, NEW k \in N!Kind
  PROVE  /\ Cardinality(Sending([jobs EXCEPT ![j] = new], c, k)) = Cardinality(Sending(jobs, c, k))
              + (IF N!KindOf(j) = k /\ new.pc = "send" /\ new.ch = c THEN 1 ELSE 0)
              - (IF N!KindOf(j) = k /\ jobs[j].pc = "send" /\ jobs[j].ch = c THEN 1 ELSE 0)
         /\ Cardinality(Writing([jobs EXCEPT ![j] = new], c, k)) = Cardinality(Writing(jobs, c, k))
              + (IF N!KindOf(j) = k /\ new.pc = "row" /\ new.ch = c THEN 1 ELSE 0)
              - (IF N!KindOf(j) = k /\ jobs[j].pc = "row" /\ jobs[j].ch = c THEN 1 ELSE 0)
<1> DEFINE S == Sending(jobs, c, k)
           T == Writing(jobs, c, k)
           then == [jobs EXCEPT ![j] = new]
<1>1. /\ IsFiniteSet(S) /\ Cardinality(S) \in Nat /\ IsFiniteSet(T) /\ Cardinality(T) \in Nat
  BY QueuesAre
<1>2. /\ Cardinality(S \cup {j}) = IF j \in S THEN Cardinality(S) ELSE Cardinality(S) + 1
      /\ Cardinality(T \cup {j}) = IF j \in T THEN Cardinality(T) ELSE Cardinality(T) + 1
  BY <1>1, FS_AddElement
<1>3. /\ Cardinality(S \ {j}) = IF j \in S THEN Cardinality(S) - 1 ELSE Cardinality(S)
      /\ Cardinality(T \ {j}) = IF j \in T THEN Cardinality(T) - 1 ELSE Cardinality(T)
  BY <1>1, FS_RemoveElement
<1>4. /\ j \in S <=> N!KindOf(j) = k /\ jobs[j].pc = "send" /\ jobs[j].ch = c
      /\ j \in T <=> N!KindOf(j) = k /\ jobs[j].pc = "row" /\ jobs[j].ch = c
  BY DEF Sending, Writing
<1>5. /\ Sending(then, c, k) = IF N!KindOf(j) = k /\ new.pc = "send" /\ new.ch = c THEN S \cup {j} ELSE S \ {j}
      /\ Writing(then, c, k) = IF N!KindOf(j) = k /\ new.pc = "row" /\ new.ch = c THEN T \cup {j} ELSE T \ {j}
  <2>1. then[j] = new /\ \A i \in N!Job \ {j} : then[i] = jobs[i]
    OBVIOUS
  <2> HIDE DEF then
  <2> QED
    BY <2>1 DEF Sending, Writing
<1> HIDE DEF S, T, then
<1>6. Cardinality(Sending(then, c, k)) = Cardinality(S)
        + (IF N!KindOf(j) = k /\ new.pc = "send" /\ new.ch = c THEN 1 ELSE 0)
        - (IF N!KindOf(j) = k /\ jobs[j].pc = "send" /\ jobs[j].ch = c THEN 1 ELSE 0)
  BY <1>1, <1>2, <1>3, <1>4, <1>5
<1>7. Cardinality(Writing(then, c, k)) = Cardinality(T)
        + (IF N!KindOf(j) = k /\ new.pc = "row" /\ new.ch = c THEN 1 ELSE 0)
        - (IF N!KindOf(j) = k /\ jobs[j].pc = "row" /\ jobs[j].ch = c THEN 1 ELSE 0)
  BY <1>1, <1>2, <1>3, <1>4, <1>5
<1> QED
  BY <1>6, <1>7 DEF S, T, then

\* The queues' sizes, as a step of j that leaves it as `new` moves them.
SizesShift(jobs, j, new, c, k) ==
  /\ Cardinality(Sending(jobs, c, k)) \in Nat /\ Cardinality(Writing(jobs, c, k)) \in Nat
  /\ Cardinality(Sending(job, c, k)) \in Nat /\ Cardinality(Writing(job, c, k)) \in Nat
  /\ Cardinality(Sending(jobs, c, k)) = Cardinality(Sending(job, c, k))
       + (IF N!KindOf(j) = k /\ new.pc = "send" /\ new.ch = c THEN 1 ELSE 0)
       - (IF N!KindOf(j) = k /\ job[j].pc = "send" /\ job[j].ch = c THEN 1 ELSE 0)
  /\ Cardinality(Writing(jobs, c, k)) = Cardinality(Writing(job, c, k))
       + (IF N!KindOf(j) = k /\ new.pc = "row" /\ new.ch = c THEN 1 ELSE 0)
       - (IF N!KindOf(j) = k /\ job[j].pc = "row" /\ job[j].ch = c THEN 1 ELSE 0)

LEMMA JobSizes ==
  ASSUME N!NotifyAssumption, NotifyInv, NEW j \in N!Job, NEW new \in JobState,
         job' = [job EXCEPT ![j] = new], NEW c \in N!Channel, NEW k \in N!Kind
  PROVE  SizesShift(job', j, new, c, k)
<1>1. job \in [N!Job -> JobState]
  BY TablesAre
<1> DEFINE then == [job EXCEPT ![j] = new]
<1>2. /\ Cardinality(Sending(then, c, k)) \in Nat /\ Cardinality(Writing(then, c, k)) \in Nat
      /\ Cardinality(Sending(job, c, k)) \in Nat /\ Cardinality(Writing(job, c, k)) \in Nat
  BY QueuesAre
<1>3. SizesShift(then, j, new, c, k)
  BY <1>1, <1>2, SizesMove, Zenon DEF SizesShift
<1> QED
  BY <1>3

\* A job that is not at a message before or after a step, which sends and writes nothing.
LEMMA BetweenSound ==
  ASSUME N!NotifyAssumption, NotifyInv, NEW j \in N!Job, NEW new \in JobState,
         job' = [job EXCEPT ![j] = new], UNCHANGED <<told, alarmNotifications, faults>>,
         new.pc \notin {"send", "row"}, job[j].pc \notin {"send", "row"},
         j \in Clear => \A c \in new.left : Paged(c),
         Around', RunsOnce'
  PROVE  NotifyInv'
<1>1. Moves(j, new)
  BY HasIs, TablesAre DEF Moves
<1>2. \A c \in N!Channel : Paged(c)' <=> Paged(c)
  BY DEF Paged
<1>3. JobSound(j)'
  <2>1. job'[j] = new
    BY HasIs, TablesAre
  <2>2. new.left \in SUBSET N!Channel
    BY DEF JobState
  <2> QED
    BY <1>2, <2>1, <2>2 DEF JobSound
<1>4. job' \in [N!Job -> JobState] /\ \A i \in N!Job : JobSound(i)'
  BY <1>1, <1>3, OthersSound
<1>5. ASSUME NEW c \in N!Channel, NEW k \in N!Kind PROVE Quiet(c, k)'
  <2>1. Cardinality(Sending(job', c, k)) = Cardinality(Sending(job, c, k))
        /\ Cardinality(Writing(job', c, k)) = Cardinality(Writing(job, c, k))
    <3>1. SizesShift(job', j, new, c, k)
      BY JobSizes
    <3> QED
      BY <3>1 DEF SizesShift
  <2>2. Quiet(c, k)
    BY DEF NotifyInv
  <2> QED
    BY <2>1, <2>2 DEF Quiet, Limit
<1>6. N!TypeOK'
  BY <1>4, HasIs, TablesAre DEF N!TypeOK, JobState, Around
<1>7. SentReached' /\ N!OnlyPagedAreTold'
  BY DEF NotifyInv, SentReached, N!OnlyPagedAreTold
<1> QED
  BY <1>4, <1>5, <1>6, <1>7 DEF NotifyInv

\* A notifier or a sweep starts, or a resolver does what it found to do.
LEMMA AlarmSound ==
  ASSUME N!NotifyAssumption, NotifyInv,
         N!Raise \/ (\E j \in Clear : N!Finds(j)) \/ (\E j \in N!Job : N!Resolves(j))
           \/ (\E j \in Replica : N!StartSweep(j))
  PROVE  NotifyInv'
<1>1. Around /\ RunsOnce
  BY DEF NotifyInv, N!TypeOK, Around
<1>2. ASSUME NEW j \in N!Job, NEW pc \in {"found", "list"}, N!Go(j, pc), job[j].pc \notin {"send", "row"},
             UNCHANGED <<told, alarmNotifications, faults>>, Around', RunsOnce'
      PROVE  NotifyInv'
  <2> DEFINE new == [job[j] EXCEPT !.pc = pc]
  <2>1. new \in JobState /\ new.pc = pc /\ job' = [job EXCEPT ![j] = new] /\ new.left = job[j].left
    BY <1>2, HasIs, TablesAre DEF N!Go, JobState
  <2>2. j \in Clear => \A c \in new.left : Paged(c)
    BY <2>1 DEF NotifyInv, JobSound
  <2> HIDE DEF new
  <2> QED
    BY <1>2, <2>1, <2>2, BetweenSound
<1>3. ASSUME NEW j \in N!Job, NEW pc, N!Go(j, pc) PROVE \A i \in N!Job \ {j} : job'[i] = job[i]
  BY <1>3, HasIs, TablesAre DEF N!Go
<1>4. CASE N!Raise
  <2>1. RunsOnce' /\ Around' /\ job[Breach].pc = "idle" /\ N!Go(Breach, "list")
    BY <1>1, <1>4 DEF N!Raise, RunsOnce, Around
  <2> QED
    BY <1>2, <1>4, <2>1, JobsAre DEF N!Raise
<1>5. ASSUME NEW j \in Clear, N!Finds(j) PROVE NotifyInv'
  <2>1. j \in N!Job /\ j # Breach /\ N!Go(j, "found") /\ job[j].pc = "idle" /\ UNCHANGED <<notified, stale, suppressed, crowded, toggles>>
    BY <1>5, JobsAre DEF N!Finds, N!Idle, N!env
  <2>2. RunsOnce' /\ Around'
    BY <1>1, <1>3, <2>1, JobsAre DEF RunsOnce, Around
  <2> QED
    BY <1>2, <1>5, <2>1, <2>2 DEF N!Finds
<1>6. ASSUME NEW j \in N!Job, N!Resolves(j) PROVE NotifyInv'
  <2>1. N!Go(j, "list") /\ job[j].pc = "found" /\ RunsOnce' /\ Around'
    BY <1>1, <1>6 DEF N!Resolves, RunsOnce, Around
  <2> QED
    BY <1>2, <1>6, <2>1 DEF N!Resolves
<1>7. ASSUME NEW j \in Replica, N!StartSweep(j) PROVE NotifyInv'
  <2>1. j \in N!Job /\ j # Breach /\ N!Go(j, "list") /\ job[j].pc = "idle" /\ UNCHANGED <<notified, stale, suppressed, crowded, toggles>>
    BY <1>7, JobsAre DEF N!StartSweep, N!Idle, N!env
  <2>2. RunsOnce' /\ Around'
    BY <1>1, <1>3, <2>1, JobsAre DEF RunsOnce, Around
  <2> QED
    BY <1>2, <1>7, <2>1, <2>2 DEF N!StartSweep
<1> QED
  BY <1>4, <1>5, <1>6, <1>7

\* Steps of others, and faults of theirs, leave the jobs be.
LEMMA NotifyRests ==
  ASSUME N!NotifyAssumption, NotifyInv, UNCHANGED <<alarmNotifications, job, told>>, RunsOnce',
         Around',
         faults' \in 0..MaxFaults, faults <= faults'
  PROVE  NotifyInv'
<1>1. N!TypeOK' /\ SentReached' /\ N!OnlyPagedAreTold' /\ \A j \in N!Job : JobSound(j)'
  BY DEF NotifyInv, N!TypeOK, SentReached, N!OnlyPagedAreTold, JobSound, Paged, Around
<1>2. ASSUME NEW c \in N!Channel, NEW k \in N!Kind PROVE Quiet(c, k)'
  <2>1. Sending(job', c, k) = Sending(job, c, k) /\ Writing(job', c, k) = Writing(job, c, k)
    BY DEF Sending, Writing
  <2>2. Quiet(c, k) /\ told[c][k] \in 0..N!Cap /\ N!Cap \in Nat /\ faults \in Nat /\ faults' \in Nat
    BY JobsAre DEF NotifyInv, N!TypeOK
  <2> QED
    BY <2>1, <2>2, QueuesAre DEF Quiet, Limit
<1> QED
  BY <1>1, <1>2 DEF NotifyInv

LEMMA AroundSound ==
  ASSUME N!NotifyAssumption, NotifyInv, N!Acknowledge \/ N!Suppress \/ N!Crowd \/ N!Ages
  PROVE  NotifyInv'
<1>1. /\ Around /\ RunsOnce /\ faults \in 0..MaxFaults
      /\ MaxToggles \in Nat /\ faults <= faults
  BY DEF NotifyInv, N!TypeOK, N!NotifyAssumption, Around
<1>2. UNCHANGED <<alarmNotifications, job, told, faults>> /\ Around'
  <2>1. CASE N!Acknowledge
    BY <1>1, <2>1 DEF N!Acknowledge, N!Turn, Around
  <2>2. CASE N!Suppress
    BY <1>1, <2>2 DEF N!Suppress, N!Turn, Around
  <2>3. CASE N!Crowd
    BY <1>1, <2>3 DEF N!Crowd, N!Turn, Around
  <2>4. CASE N!Ages
    BY <1>1, <2>4 DEF N!Ages, Around
  <2> QED
    BY <2>1, <2>2, <2>3, <2>4
<1>3. RunsOnce'
  BY <1>1 DEF N!Acknowledge, N!Suppress, N!Crowd, N!Ages, RunsOnce
<1> QED
  BY <1>1, <1>2, <1>3, NotifyRests

\* A job's place and channels change; of the alarm nothing.
LEMMA RunsOn ==
  ASSUME N!NotifyAssumption, NotifyInv, NEW j \in N!Job, NEW new \in JobState,
         job' = [job EXCEPT ![j] = new], job[j].pc # "idle", notified' = notified
  PROVE  RunsOnce'
<1>1. \A i \in N!Job \ {j} : job'[i] = job[i]
  BY HasIs, TablesAre
<1>2. RunsOnce
  BY DEF NotifyInv
<1> QED
  BY <1>1, <1>2, JobsAre DEF RunsOnce

\* The loop's rest, with channels of the same kind.
LEMMA RestIs ==
  ASSUME N!NotifyAssumption, NotifyInv, NEW j \in N!Job, NEW left \in SUBSET N!Channel, N!Rest(j, left)
  PROVE  \E new \in JobState :
           job' = [job EXCEPT ![j] = new] /\ new.pc \notin {"send", "row"} /\ new.left = left
<1> DEFINE goes == [N!NoJob EXCEPT !.pc = "next", !.left = left]
<1>1. goes \in JobState /\ goes.pc = "next" /\ goes.left = left
  BY DEF N!NoJob, JobState
<1>2. N!NoJob \in JobState /\ N!NoJob.pc = "idle" /\ N!NoJob.left = {}
  BY HasIs, TablesAre
<1>3. CASE left = {}
  <2>1. job' = [job EXCEPT ![j] = N!NoJob]
    BY <1>3 DEF N!Rest
  <2> QED
    BY <1>2, <1>3, <2>1
<1>4. CASE left # {}
  <2>1. job' = [job EXCEPT ![j] = goes]
    BY <1>4 DEF N!Rest
  <2> HIDE DEF goes
  <2> QED
    BY <1>1, <2>1
<1> QED
  BY <1>3, <1>4

LEMMA ListSound ==
  ASSUME N!NotifyAssumption, NotifyInv, NEW j \in N!Job, N!List(j)
  PROVE  NotifyInv'
<1>1. /\ job[j].pc = "list" /\ UNCHANGED <<notified, stale, suppressed, crowded, toggles, alarmNotifications, told, faults>>
      /\ Around
  BY DEF N!List, N!env, NotifyInv, N!TypeOK, Around
<1> DEFINE goes == [job[j] EXCEPT !.pc = "next", !.left = N!Recipients(j)]
<1>2. N!Recipients(j) \in SUBSET N!Channel
  BY DEF N!Recipients, N!Channel
<1>3. j \in Clear => \A c \in N!Recipients(j) : Paged(c)
  <2> SUFFICES ASSUME j \in Clear, NEW c \in N!Channel, NEW k \in N!Kind, alarmNotifications[c][k] = "sent"
               PROVE  Paged(c)
    BY DEF N!Recipients
  <2>1. told[c][k] > 0 /\ told[c]["resolved"] > 0 => Paged(c)
    BY DEF NotifyInv, SentReached, N!OnlyPagedAreTold, Paged
  <2>2. told[c][k] > 0
    BY DEF NotifyInv, SentReached
  <2> QED
    BY <2>1, <2>2 DEF N!Kind, Paged
<1>4. goes \in JobState /\ goes.pc = "next" /\ goes.left = N!Recipients(j)
  BY <1>2, HasIs, TablesAre DEF JobState
<1>5. N!NoJob \in JobState /\ N!NoJob.pc = "idle" /\ N!NoJob.left = {}
  BY HasIs, TablesAre
<1>6. PICK new \in {N!NoJob, goes} : job' = [job EXCEPT ![j] = new]
  BY DEF N!List, N!Done
<1>7. new \in JobState /\ new.pc \notin {"send", "row"} /\ (j \in Clear => \A c \in new.left : Paged(c))
  BY <1>3, <1>4, <1>5
<1> HIDE DEF goes
<1>8. RunsOnce'
  BY <1>1, <1>6, <1>7, RunsOn
<1> QED
  BY <1>1, <1>6, <1>7, <1>8, BetweenSound DEF Around

LEMMA NextChannelSound ==
  ASSUME N!NotifyAssumption, NotifyInv, NEW j \in N!Job, NEW c \in N!Channel, N!NextChannel(j, c)
  PROVE  NotifyInv'
<1>1. /\ job[j].pc = "next" /\ c \in job[j].left
      /\ UNCHANGED <<notified, stale, suppressed, crowded, toggles, alarmNotifications, told, faults>>
      /\ Around
  BY DEF N!NextChannel, N!env, NotifyInv, N!TypeOK, Around
<1>2. j \in Clear => \A d \in job[j].left : Paged(d)
  BY DEF NotifyInv, JobSound
<1>3. CASE N!Duplicate(j, c)
  <2>1. N!Rest(j, job[j].left \ {c}) /\ job[j].left \ {c} \in SUBSET N!Channel
    BY <1>3, HasIs, TablesAre DEF N!NextChannel
  <2>2. PICK new \in JobState : job' = [job EXCEPT ![j] = new] /\ new.pc \notin {"send", "row"}
                                /\ new.left = job[j].left \ {c}
    BY <2>1, RestIs
  <2>3. RunsOnce'
    BY <1>1, <2>2, RunsOn
  <2> QED
    BY <1>1, <1>2, <2>2, <2>3, BetweenSound DEF Around
<1>4. CASE ~N!Duplicate(j, c)
  <2> DEFINE new == [job[j] EXCEPT !.pc = "send", !.left = job[j].left \ {c}, !.ch = c]
  <2>1. job' = [job EXCEPT ![j] = new] /\ new \in JobState
        /\ new.pc = "send" /\ new.left = job[j].left \ {c} /\ new.ch = c
    BY <1>4, HasIs, TablesAre DEF N!NextChannel, JobState
  <2> HIDE DEF new
  <2>2. Moves(j, new)
    BY <1>1, <2>1, HasIs, TablesAre DEF Moves
  <2>3. \A d \in N!Channel : Paged(d)' <=> Paged(d)
    BY <1>1 DEF Paged
  <2>4. JobSound(j)'
    <3>1. job'[j] = new /\ new.left \in SUBSET N!Channel
      BY <2>1, HasIs, TablesAre
    <3> QED
      BY <1>1, <1>2, <2>1, <2>3, <3>1 DEF JobSound
  <2>5. job' \in [N!Job -> JobState] /\ \A i \in N!Job : JobSound(i)'
    BY <2>1, <2>2, <2>4, OthersSound
  <2>6. RunsOnce'
    BY <1>1, <2>1, RunsOn
  <2>7. ASSUME NEW d \in N!Channel, NEW k \in N!Kind PROVE Quiet(d, k)'
    <3>1. Quiet(d, k) /\ faults \in Nat /\ told[d][k] \in Nat
      BY HasIs, TablesAre DEF NotifyInv, N!TypeOK
    <3>0. SizesShift(job', j, new, d, k)
      BY <2>1, JobSizes
    <3>2. Cardinality(Writing(job', d, k)) = Cardinality(Writing(job, d, k))
      BY <1>1, <2>1, <3>0 DEF SizesShift
    <3>3. CASE N!KindOf(j) = k /\ d = c
      <4>1. told[d][k] <= Cardinality(Writing(job, d, k)) + faults
        BY <1>4, <3>1, <3>3, HasIs, TablesAre DEF N!Duplicate, Quiet
      <4>2. told[d][k] + Cardinality(Sending(job', d, k)) <= Limit(k) + faults
        BY <3>1, <3>2, <4>1, QueuesAre
      <4> QED
        BY <1>1, <3>1, <3>2, <4>2 DEF Quiet, Limit
    <3>4. CASE ~(N!KindOf(j) = k /\ d = c)
      <4>1. Cardinality(Sending(job', d, k)) = Cardinality(Sending(job, d, k))
        BY <1>1, <2>1, <3>0, <3>4 DEF SizesShift
      <4> QED
        BY <1>1, <3>1, <3>2, <4>1 DEF Quiet, Limit
    <3> QED
      BY <3>3, <3>4
  <2>8. N!TypeOK'
    BY <1>1, <2>5, HasIs, TablesAre DEF N!TypeOK, JobState, Around
  <2>9. SentReached' /\ N!OnlyPagedAreTold'
    BY <1>1 DEF NotifyInv, SentReached, N!OnlyPagedAreTold
  <2> QED
    BY <2>5, <2>6, <2>7, <2>8, <2>9 DEF NotifyInv
<1> QED
  BY <1>3, <1>4

\* A job's step at a message, with what is left to show of it.
LEMMA MessageSound ==
  ASSUME N!NotifyAssumption, NotifyInv, NEW j \in N!Job, NEW new \in JobState, Moves(j, new), JobSound(j)',
         Around', notified' = notified, job[j].pc # "idle",
         alarmNotifications' \in [N!Channel -> [N!Kind -> N!Notification]], faults' \in 0..MaxFaults,
         SentReached', N!OnlyPagedAreTold', \A c \in N!Channel, k \in N!Kind : Quiet(c, k)'
  PROVE  NotifyInv'
<1>1. job' \in [N!Job -> JobState] /\ \A i \in N!Job : JobSound(i)'
  BY OthersSound
<1>2. RunsOnce'
  BY RunsOn DEF Moves
<1>3. N!TypeOK'
  BY <1>1 DEF Moves, N!TypeOK, JobState, Around
<1> QED
  BY <1>1, <1>2, <1>3 DEF NotifyInv

\* One message more to one channel, or none.
Reaches(c, k) ==
  /\ told' \in [N!Channel -> [N!Kind -> 0..N!Cap]]
  /\ told'[c][k] \in {told[c][k], told[c][k] + 1}
  /\ \A d \in N!Channel, m \in N!Kind : d # c \/ m # k => told'[d][m] = told[d][m]

LEMMA DispatchSound ==
  ASSUME N!NotifyAssumption, NotifyInv, NEW j \in N!Job, N!Dispatch(j)
  PROVE  NotifyInv'
<1> DEFINE c == job[j].ch
           k == N!KindOf(j)
<1>1. /\ job[j].pc = "send" /\ c \in N!Channel /\ k \in N!Kind /\ job[j] \in JobState
      /\ UNCHANGED <<notified, alarmNotifications, faults>> /\ Around'
      /\ alarmNotifications' \in [N!Channel -> [N!Kind -> N!Notification]] /\ faults' \in 0..MaxFaults
      /\ faults \in Nat
  <2>1. Around /\ MaxToggles \in Nat /\ JobSound(j)
    BY DEF NotifyInv, N!TypeOK, N!NotifyAssumption, Around
  <2>2. toggles' = toggles \/ N!Turn
    BY DEF N!Dispatch
  <2>3. toggles' \in 0..MaxToggles
    BY <2>1, <2>2 DEF N!Turn, Around
  <2> QED
    BY <2>1, <2>3, HasIs, TablesAre DEF N!Dispatch, JobSound, Around
<1>2. PICK ok \in BOOLEAN, reached \in BOOLEAN :
        /\ ok => reached
        /\ job' = [job EXCEPT ![j].pc = "row", ![j].ok = ok]
        /\ told' = IF reached /\ told[c][k] < N!Cap THEN [told EXCEPT ![c][k] = @ + 1] ELSE told
  BY DEF N!Dispatch
<1> DEFINE new == [job[j] EXCEPT !.pc = "row", !.ok = ok]
<1>3. /\ new \in JobState /\ new.pc = "row" /\ new.ch = c /\ new.left = job[j].left
      /\ new.ok => ok
      /\ job' = [job EXCEPT ![j] = new]
  <2>1. new \in JobState
    BY <1>1, <1>2, Zenon DEF JobState
  <2> QED
    BY <1>1, <1>2, <2>1 DEF JobState
<1>4. told[c][k] \in 0..N!Cap /\ N!Cap \in Nat /\ N!Cap > 0 /\ told[c] \in [N!Kind -> 0..N!Cap]
  BY <1>1, TablesAre, JobsAre
<1> HIDE DEF new, c, k
<1>5. Reaches(c, k) /\ (ok => told'[c][k] > 0)
  <2>1. CASE reached /\ told[c][k] < N!Cap
    <3> DEFINE row == [told[c] EXCEPT ![k] = told[c][k] + 1]
    <3>1. row \in [N!Kind -> 0..N!Cap] /\ row[k] = told[c][k] + 1 /\ \A m \in N!Kind \ {k} : row[m] = told[c][m]
      BY <1>1, <1>4, <2>1
    <3>2. told' = [told EXCEPT ![c] = row]
      BY <1>2, <2>1
    <3> HIDE DEF row
    <3> QED
      BY <1>1, <1>4, <3>1, <3>2, TablesAre DEF Reaches
  <2>2. CASE ~(reached /\ told[c][k] < N!Cap)
    BY <1>1, <1>2, <1>4, <2>2, TablesAre DEF Reaches
  <2> QED
    BY <2>1, <2>2
<1>6. ASSUME NEW d \in N!Channel, NEW m \in N!Kind
      PROVE  /\ told[d][m] \in Nat /\ told'[d][m] \in Nat /\ told[d][m] <= told'[d][m]
             /\ told'[d][m] <= told[d][m] + 1 /\ (d # c \/ m # k => told'[d][m] = told[d][m])
  BY <1>1, <1>4, <1>5, TablesAre DEF Reaches
<1>7. Moves(j, new)
  BY <1>3, <1>5, <1>6 DEF Moves, Reaches
<1>8. \A d \in N!Channel : Paged(d) => Paged(d)'
  <2>1. "initial" \in N!Kind /\ "escalation" \in N!Kind
    BY DEF N!Kind
  <2> QED
    BY <1>6, <2>1 DEF Paged
<1>9. JobSound(j) /\ (j \in Clear <=> k = "resolved")
  BY JobsAre DEF NotifyInv, k
<1>10. JobSound(j)'
  <2>1. job'[j] = new /\ new.left \in SUBSET N!Channel
    BY <1>1, <1>3, TablesAre DEF JobState
  <2>2. j \in Clear => Paged(c)
    BY <1>1, <1>9 DEF JobSound, c
  <2> QED
    BY <1>1, <1>3, <1>5, <1>8, <1>9, <2>1, <2>2 DEF JobSound, k
<1>11. SentReached'
  BY <1>1, <1>6 DEF NotifyInv, SentReached
<1>12. N!OnlyPagedAreTold'
  <2> SUFFICES ASSUME NEW d \in N!Channel, told'[d]["resolved"] > 0 PROVE Paged(d)'
    BY DEF N!OnlyPagedAreTold, Paged
  <2>1. "resolved" \in N!Kind
    BY DEF N!Kind
  <2>2. CASE d = c /\ k = "resolved"
    BY <1>1, <1>8, <1>9, <2>2 DEF JobSound, c
  <2>3. CASE d # c \/ k # "resolved"
    <3>1. told[d]["resolved"] > 0
      BY <1>6, <2>1, <2>3
    <3>2. Paged(d)
      BY <3>1 DEF NotifyInv, N!OnlyPagedAreTold, Paged
    <3> QED
      BY <1>8, <3>2
  <2> QED
    BY <2>2, <2>3
<1>13. ASSUME NEW d \in N!Channel, NEW m \in N!Kind PROVE Quiet(d, m)'
  <2>1. SizesShift(job', j, new, d, m)
    BY <1>3, JobSizes
  <2>2. Quiet(d, m) /\ Limit(m) \in Nat
    BY QueuesAre DEF NotifyInv
  <2>3. CASE d = c /\ m = k
    <3>1. /\ Cardinality(Sending(job', d, m)) = Cardinality(Sending(job, d, m)) - 1
          /\ Cardinality(Writing(job', d, m)) = Cardinality(Writing(job, d, m)) + 1
          /\ Cardinality(Sending(job, d, m)) \in Nat /\ Cardinality(Writing(job, d, m)) \in Nat
      BY <1>1, <1>3, <2>1, <2>3 DEF SizesShift, c, k
    <3> QED
      BY <1>1, <1>6, <2>2, <3>1 DEF Quiet, Limit
  <2>4. CASE ~(d = c /\ m = k)
    <3>1. /\ Cardinality(Sending(job', d, m)) = Cardinality(Sending(job, d, m))
          /\ Cardinality(Writing(job', d, m)) = Cardinality(Writing(job, d, m))
      BY <1>1, <1>3, <2>1, <2>4 DEF SizesShift, c, k
    <3> QED
      BY <1>1, <1>6, <2>2, <2>4, <3>1 DEF Quiet, Limit
  <2> QED
    BY <2>3, <2>4
<1> QED
  BY <1>1, <1>3, <1>7, <1>10, <1>11, <1>12, <1>13, MessageSound

LEMMA InsertSound ==
  ASSUME N!NotifyAssumption, NotifyInv, NEW j \in N!Job, N!Insert(j)
  PROVE  NotifyInv'
<1> DEFINE c == job[j].ch
           k == N!KindOf(j)
           said == IF job[j].ok THEN "sent" ELSE "failed"
<1>1. /\ job[j].pc = "row" /\ c \in N!Channel /\ k \in N!Kind /\ job[j].left \in SUBSET N!Channel
      /\ UNCHANGED <<notified, stale, suppressed, crowded, toggles, told, faults>> /\ Around
      /\ alarmNotifications' = [alarmNotifications EXCEPT ![c][k] = said]
      /\ N!Rest(j, job[j].left) /\ faults \in Nat /\ faults' \in 0..MaxFaults
  <2>1. Around /\ JobSound(j)
    BY DEF NotifyInv, N!TypeOK, Around
  <2> QED
    BY <2>1, HasIs, TablesAre DEF N!Insert, N!env, JobSound
<1>2. JobSound(j)
  BY DEF NotifyInv
<1>3. said \in {"sent", "failed"} /\ (said = "sent" => told[c][k] > 0)
  BY <1>1, <1>2 DEF JobSound
<1>4. PICK new \in JobState :
        job' = [job EXCEPT ![j] = new] /\ new.pc \notin {"send", "row"} /\ new.left = job[j].left
  BY <1>1, RestIs
<1> HIDE DEF c, k, said
<1>5. /\ alarmNotifications' \in [N!Channel -> [N!Kind -> N!Notification]] /\ alarmNotifications'[c][k] = said
      /\ \A d \in N!Channel, m \in N!Kind :
           d # c \/ m # k => alarmNotifications'[d][m] = alarmNotifications[d][m]
  <2> DEFINE row == [alarmNotifications[c] EXCEPT ![k] = said]
  <2>1. row \in [N!Kind -> N!Notification] /\ row[k] = said
        /\ \A m \in N!Kind \ {k} : row[m] = alarmNotifications[c][m]
    BY <1>1, <1>3, TablesAre DEF N!Notification
  <2>2. alarmNotifications' = [alarmNotifications EXCEPT ![c] = row]
    BY <1>1
  <2> HIDE DEF row
  <2> QED
    BY <1>1, <2>1, <2>2, TablesAre
<1>6. Moves(j, new)
  BY <1>1, <1>4, TablesAre DEF Moves
<1>7. JobSound(j)'
  <2>1. job'[j] = new
    BY <1>4, TablesAre
  <2>2. \A d \in N!Channel : Paged(d)' <=> Paged(d)
    BY <1>1 DEF Paged
  <2> QED
    BY <1>1, <1>2, <1>4, <2>1, <2>2 DEF JobSound
<1>8. SentReached'
  <2> SUFFICES ASSUME NEW d \in N!Channel, NEW m \in N!Kind, alarmNotifications'[d][m] = "sent"
               PROVE  told[d][m] > 0
    BY <1>1 DEF SentReached
  <2>1. CASE d = c /\ m = k
    BY <1>3, <1>5, <2>1
  <2>2. CASE d # c \/ m # k
    BY <1>5, <2>2 DEF NotifyInv, SentReached
  <2> QED
    BY <2>1, <2>2
<1>9. N!OnlyPagedAreTold'
  BY <1>1 DEF NotifyInv, N!OnlyPagedAreTold
<1>10. ASSUME NEW d \in N!Channel, NEW m \in N!Kind PROVE Quiet(d, m)'
  <2>1. SizesShift(job', j, new, d, m)
    BY <1>4, JobSizes
  <2>2. Quiet(d, m) /\ Limit(m) \in Nat /\ told[d][m] \in Nat
    BY QueuesAre, TablesAre DEF NotifyInv
  <2>3. Cardinality(Sending(job', d, m)) = Cardinality(Sending(job, d, m))
        /\ Cardinality(Sending(job, d, m)) \in Nat
    BY <1>1, <1>4, <2>1 DEF SizesShift
  <2>4. CASE d = c /\ m = k
    BY <1>1, <1>3, <1>5, <2>2, <2>3, <2>4 DEF Quiet, Limit
  <2>5. CASE d # c \/ m # k
    <3>1. Cardinality(Writing(job', d, m)) = Cardinality(Writing(job, d, m))
      BY <1>1, <1>4, <2>1, <2>5 DEF SizesShift, c, k
    <3> QED
      BY <1>1, <1>5, <2>2, <2>3, <2>5, <3>1 DEF Quiet, Limit
  <2> QED
    BY <2>4, <2>5
<1> QED
  BY <1>1, <1>5, <1>6, <1>7, <1>8, <1>9, <1>10, MessageSound DEF Around

LEMMA CrashSound ==
  ASSUME N!NotifyAssumption, NotifyInv, NEW j \in N!Job, N!Crash(j)
  PROVE  NotifyInv'
<1>1. /\ job' = [job EXCEPT ![j] = N!NoJob] /\ job[j].pc # "idle"
      /\ UNCHANGED <<notified, stale, suppressed, crowded, toggles, told, alarmNotifications>> /\ Around
      /\ faults' = faults + 1 /\ faults \in Nat /\ faults' \in 0..MaxFaults
      /\ alarmNotifications' \in [N!Channel -> [N!Kind -> N!Notification]]
  BY TablesAre DEF N!Crash, N!Done, N!env, NotifyInv, N!TypeOK, Around
<1>2. N!NoJob \in JobState /\ N!NoJob.pc = "idle" /\ N!NoJob.left = {}
  BY HasIs
<1>3. Moves(j, N!NoJob)
  BY <1>1, TablesAre DEF Moves
<1>4. JobSound(j)'
  <2>1. job'[j] = N!NoJob
    BY <1>1, TablesAre
  <2> QED
    BY <1>2, <2>1 DEF JobSound
<1>5. SentReached' /\ N!OnlyPagedAreTold'
  BY <1>1 DEF NotifyInv, SentReached, N!OnlyPagedAreTold
<1>6. ASSUME NEW d \in N!Channel, NEW m \in N!Kind PROVE Quiet(d, m)'
  <2>1. SizesShift(job', j, N!NoJob, d, m)
    BY <1>1, <1>2, JobSizes
  <2>2. Quiet(d, m) /\ Limit(m) \in Nat /\ told[d][m] \in Nat
    BY QueuesAre, TablesAre DEF NotifyInv
  <2>3. /\ Cardinality(Sending(job', d, m)) <= Cardinality(Sending(job, d, m))
        /\ Cardinality(Writing(job, d, m)) <= Cardinality(Writing(job', d, m)) + 1
        /\ Cardinality(Sending(job, d, m)) \in Nat /\ Cardinality(Sending(job', d, m)) \in Nat
        /\ Cardinality(Writing(job, d, m)) \in Nat /\ Cardinality(Writing(job', d, m)) \in Nat
    BY <1>2, <2>1 DEF SizesShift
  <2> QED
    BY <1>1, <2>2, <2>3 DEF Quiet, Limit
<1> QED
  BY <1>1, <1>2, <1>3, <1>4, <1>5, <1>6, MessageSound DEF Around

LEMMA NotifyNext ==
  ASSUME N!NotifyAssumption, NotifyInv, N!Next
  PROVE  NotifyInv'
BY AlarmSound, AroundSound, ListSound, NextChannelSound, DispatchSound, InsertSound, CrashSound
   DEF N!Next, N!Step

LEMMA NotifyHolds ==
  ASSUME N!NotifyAssumption, NotifyInv
  PROVE  N!TypeOK /\ N!OnlyPagedAreTold /\ N!NoStorm
<1>1. ASSUME NEW c \in N!Channel, NEW k \in N!Kind PROVE told[c][k] <= Limit(k) + faults
  <2>1. Quiet(c, k) /\ told[c][k] \in Nat /\ faults \in Nat
    BY TablesAre DEF NotifyInv
  <2> QED
    BY <2>1, QueuesAre DEF Quiet
<1> QED
  BY <1>1, SizesSame DEF NotifyInv, N!NoStorm, Limit

---------------------------------------------------------------------------
\* The liveness of a gateway.

LEMMA LivenessInit ==
  ASSUME L!LivenessAssumption, L!Init
  PROVE  L!TypeOK
<1>1. seen \in [Replica -> BOOLEAN] /\ flushed \in [Replica -> BOOLEAN] /\ offlineAlarm \in BOOLEAN
  BY Zenon DEF L!Init
<1>2. flush \in [Replica -> {"idle", "update", "clear"}]
      /\ sweep \in [Replica -> {"idle", "offline", "existing", "back", "resolve"}]
  BY DEF L!Init
<1>3. lastSeen \in 0..L!Late /\ faults \in 0..MaxFaults
  BY DEF L!Init, L!LivenessAssumption, L!Late
<1> QED
  BY <1>1, <1>2, <1>3 DEF L!Init, L!TypeOK, L!GatewayStatus

\* What a gateway's row and the sweeps may hold.
LEMMA LivenessNext ==
  ASSUME L!LivenessAssumption, L!TypeOK, L!Next
  PROVE  L!TypeOK'
<1>1. Threshold \in Nat /\ L!Late \in Nat /\ MaxFaults \in Nat
  BY DEF L!LivenessAssumption, L!Late
<1>2. ASSUME NEW r \in Replica, L!Seen(r) PROVE L!TypeOK'
  BY <1>2 DEF L!Seen, L!TypeOK, L!sweeps
<1>3. ASSUME NEW r \in Replica, L!Flush(r) \/ L!Update(r) \/ L!Unmark(r) PROVE L!TypeOK'
  <2>1. CASE L!Flush(r)
    BY <2>1 DEF L!Flush, L!TypeOK, L!sweeps
  <2>2. CASE L!Update(r)
    BY <1>1, <2>2 DEF L!Update, L!TypeOK, L!sweeps, L!GatewayStatus
  <2>3. CASE L!Unmark(r)
    <3>1. seen' \in [Replica -> BOOLEAN] /\ flushed' \in [Replica -> BOOLEAN]
      BY <2>3, Zenon DEF L!Unmark, L!TypeOK
    <3> QED
      BY <2>3, <3>1 DEF L!Unmark, L!TypeOK, L!sweeps
  <2> QED
    BY <1>3, <2>1, <2>2, <2>3
<1>4. ASSUME NEW r \in Replica, L!Sweep(r) PROVE L!TypeOK'
  BY <1>4 DEF L!Sweep, L!SweepGoes, L!TypeOK
<1>5. ASSUME NEW r \in Replica, L!Sweeping(r) PROVE L!TypeOK'
  <2>1. CASE L!SetOffline(r)
    BY <2>1 DEF L!SetOffline, L!SweepGoes, L!TypeOK, L!GatewayStatus
  <2>2. CASE L!RaiseOffline(r)
    BY <2>2 DEF L!RaiseOffline, L!SweepGoes, L!TypeOK
  <2>3. CASE L!FindBack(r)
    BY <2>3 DEF L!FindBack, L!SweepGoes, L!TypeOK
  <2>4. CASE L!ResolveBack(r)
    BY <2>4 DEF L!ResolveBack, L!SweepGoes, L!TypeOK
  <2> QED
    BY <1>5, <2>1, <2>2, <2>3, <2>4 DEF L!Sweeping
<1>6. ASSUME NEW r \in Replica, L!Fails(r) PROVE L!TypeOK'
  BY <1>1, <1>6 DEF L!Fails, L!SweepGoes, L!TypeOK
<1>7. ASSUME NEW r \in Replica, L!Crash(r) PROVE L!TypeOK'
  BY <1>1, <1>7 DEF L!Crash, L!TypeOK
<1>8. CASE L!Switch
  BY <1>8 DEF L!Switch, L!TypeOK, L!sweeps
<1>9. CASE L!Tick
  <2>1. lastSeen' \in 0..L!Late
    BY <1>1, <1>9 DEF L!Tick, L!TypeOK
  <2> QED
    BY <1>9, <2>1 DEF L!Tick, L!TypeOK
<1> QED
  BY <1>2, <1>3, <1>4, <1>5, <1>6, <1>7, <1>8, <1>9 DEF L!Next

\* The others' steps leave it be; only their faults count here too.
LEMMA LivenessRests ==
  ASSUME L!TypeOK, faults' \in 0..MaxFaults,
         UNCHANGED <<reports, status, lastSeen, seen, flushed, flush, sweep, swept, offlineAlarm>>
  PROVE  L!TypeOK'
BY DEF L!TypeOK

---------------------------------------------------------------------------
\* Provisioning.

MessageState == [pc : {"idle", "gwAsk", "gwGot", "gwNew", "mAsk", "mGot", "mNew", "write"},
                 gw : P!GatewayId \cup {None}, no : P!MeterNo \cup {None}]
RemovalState == [pc : {"idle", "meters", "gateway", "evict"},
                 gw : P!GatewayId \cup {None}, no : P!MeterNo \cup {None}]
Made == [gateways : 0..(MaxRemovals + 1), meters : [P!GatewayId -> 0..(MaxRemovals + 1)]]

(***************************************************************************)
(* What a replica holds: past the gateway's look-up a message knows an id.   *)
(***************************************************************************)
HeldInv ==
  /\ gwCache \in [Replica -> P!GatewayId \cup {None}]
  /\ meterCache \in [Replica -> P!MeterRow]
  /\ message \in [Replica -> MessageState]
  /\ \A r \in Replica :
       message[r].pc \in {"gwGot", "mAsk", "mGot", "mNew", "write"} => message[r].gw \in P!GatewayId

(***************************************************************************)
(* What the tables hold: a gateway without a row, or about to lose it, is    *)
(* accounted for by a removal; and without a removal no device row is gone.  *)
(***************************************************************************)
RowsInv ==
  /\ gateway \in P!GatewayId \cup {None} /\ meter \in P!MeterRow /\ made \in Made
  /\ removal \in RemovalState /\ removals \in 0..MaxRemovals
  /\ made.gateways <= removals + 1
  /\ gateway = None => made.gateways <= removals
  /\ removal.pc \in {"meters", "gateway"} => gateway # None /\ made.gateways <= removals
  /\ removals = 0 =>
       /\ removal.pc = "idle"
       /\ \A g \in P!GatewayId : made.meters[g] <= 1 /\ (meter[g] = None => made.meters[g] = 0)

ProvisionInv == HeldInv /\ RowsInv /\ faults \in 0..MaxFaults

LEMMA IdsAre ==
  ASSUME P!ProvisionAssumption
  PROVE  /\ None \notin P!GatewayId /\ None \notin P!MeterNo
         /\ P!Idle \in MessageState /\ P!Idle \in RemovalState /\ P!NoEntries \in P!MeterRow
         /\ P!Idle.pc = "idle"
         /\ \A g \in P!GatewayId \cup {None} : g # None <=> g \in P!GatewayId
         /\ \A no \in P!MeterNo \cup {None} : no # None <=> no \in P!MeterNo
BY DEF P!ProvisionAssumption, P!GatewayId, P!MeterNo, MessageState, RemovalState, P!Idle, P!NoEntries, P!MeterRow

LEMMA ProvisionInit ==
  ASSUME P!ProvisionAssumption, P!Init
  PROVE  ProvisionInv
<1>1. HeldInv
  BY IdsAre DEF P!Init, HeldInv
<1>2. made \in Made /\ made.gateways = 0 /\ \A g \in P!GatewayId : made.meters[g] = 0
  BY DEF P!Init, Made, P!ProvisionAssumption
<1>3. RowsInv
  BY <1>2, IdsAre DEF P!Init, RowsInv, P!ProvisionAssumption
<1> QED
  BY <1>1, <1>3 DEF P!Init, ProvisionInv, P!ProvisionAssumption

\* A message goes on; past the gateway's look-up it knows an id.
LEMMA GoesSound ==
  ASSUME P!ProvisionAssumption, HeldInv, NEW r \in Replica,
         NEW pc \in {"idle", "gwAsk", "gwGot", "gwNew", "mAsk", "mGot", "mNew", "write"},
         NEW gw \in P!GatewayId \cup {None}, NEW no \in P!MeterNo \cup {None}, P!Goes(r, pc, gw, no),
         pc \in {"gwGot", "mAsk", "mGot", "mNew", "write"} => gw \in P!GatewayId,
         gwCache' \in [Replica -> P!GatewayId \cup {None}], meterCache' \in [Replica -> P!MeterRow]
  PROVE  HeldInv'
<1> DEFINE state == [pc |-> pc, gw |-> gw, no |-> no]
<1>1. state \in MessageState /\ state.pc = pc /\ state.gw = gw
  BY DEF MessageState
<1>2. message' = [message EXCEPT ![r] = state] /\ message \in [Replica -> MessageState]
  BY DEF P!Goes, HeldInv
<1> HIDE DEF state
<1>3. message' \in [Replica -> MessageState] /\ message'[r] = state
      /\ \A s \in Replica \ {r} : message'[s] = message[s]
  BY <1>1, <1>2
<1>4. ASSUME NEW s \in Replica, message'[s].pc \in {"gwGot", "mAsk", "mGot", "mNew", "write"}
      PROVE  message'[s].gw \in P!GatewayId
  <2>1. CASE s = r
    BY <1>1, <1>3, <1>4, <2>1
  <2>2. CASE s # r
    BY <1>3, <1>4, <2>2 DEF HeldInv
  <2> QED
    BY <2>1, <2>2
<1> QED
  BY <1>3, <1>4 DEF HeldInv

\* With the gateway known, the message goes to the writer or asks for the device.
LEMMA WithGatewaySound ==
  ASSUME P!ProvisionAssumption, HeldInv, NEW r \in Replica, NEW g \in P!GatewayId, P!WithGateway(r, g),
         gwCache' \in [Replica -> P!GatewayId \cup {None}], meterCache' \in [Replica -> P!MeterRow]
  PROVE  HeldInv'
<1>1. meterCache[r][g] \in P!MeterNo \cup {None} /\ None \in P!MeterNo \cup {None} /\ g \in P!GatewayId \cup {None}
  BY DEF HeldInv, P!MeterRow
<1>2. CASE meterCache[r][g] # None
  <2>1. P!Goes(r, "write", g, meterCache[r][g])
    BY <1>2 DEF P!WithGateway
  <2> QED
    BY <1>1, <2>1, GoesSound
<1>3. CASE meterCache[r][g] = None
  <2>1. P!Goes(r, "mAsk", g, None)
    BY <1>3 DEF P!WithGateway
  <2> QED
    BY <1>1, <2>1, GoesSound
<1> QED
  BY <1>2, <1>3

\* What a message holds, and what the tables hold of it.
LEMMA HoldsIs ==
  ASSUME P!ProvisionAssumption, ProvisionInv, NEW r \in Replica
  PROVE  /\ gwCache[r] \in P!GatewayId \cup {None} /\ message[r] \in MessageState
         /\ message[r].gw \in P!GatewayId \cup {None} /\ message[r].no \in P!MeterNo \cup {None}
         /\ gwCache \in [Replica -> P!GatewayId \cup {None}] /\ meterCache \in [Replica -> P!MeterRow]
         /\ meterCache[r] \in P!MeterRow
         /\ message[r].pc \in {"gwGot", "mAsk", "mGot", "mNew", "write"} => message[r].gw \in P!GatewayId
         /\ None \in P!GatewayId \cup {None} /\ None \in P!MeterNo \cup {None}
         /\ gateway \in P!GatewayId \cup {None}
         /\ \A g \in P!GatewayId : meter[g] \in P!MeterNo \cup {None} /\ g \in P!GatewayId \cup {None}
BY DEF ProvisionInv, HeldInv, RowsInv, MessageState, P!MeterRow

LEMMA RowsRest ==
  ASSUME ProvisionInv, UNCHANGED <<P!tables, removal, removals>>
  PROVE  RowsInv'
BY DEF ProvisionInv, RowsInv, P!tables, Made

LEMMA ArriveSound ==
  ASSUME P!ProvisionAssumption, ProvisionInv, NEW r \in Replica, P!Arrive(r)
  PROVE  ProvisionInv'
<1>1. RowsInv' /\ faults' \in 0..MaxFaults
  BY RowsRest DEF P!Arrive, ProvisionInv
<1>2. gwCache' \in [Replica -> P!GatewayId \cup {None}] /\ meterCache' \in [Replica -> P!MeterRow] /\ HeldInv
  BY HoldsIs DEF P!Arrive, P!caches, ProvisionInv
<1>3. CASE gwCache[r] # None
  <2>1. gwCache[r] \in P!GatewayId /\ P!WithGateway(r, gwCache[r])
    BY <1>3, IdsAre, HoldsIs DEF P!Arrive
  <2> QED
    BY <1>1, <1>2, <2>1, WithGatewaySound DEF ProvisionInv
<1>4. CASE gwCache[r] = None
  <2>1. P!Goes(r, "gwAsk", None, None)
    BY <1>4 DEF P!Arrive
  <2> QED
    BY <1>1, <1>2, <2>1, GoesSound, HoldsIs DEF ProvisionInv
<1> QED
  BY <1>3, <1>4

LEMMA AskSound ==
  ASSUME P!ProvisionAssumption, ProvisionInv, NEW r \in Replica,
         P!AskGateway(r) \/ P!GotGateway(r) \/ P!AskMeter(r) \/ P!GotMeter(r) \/ P!Write(r)
  PROVE  ProvisionInv'
<1>1. RowsInv' /\ faults' \in 0..MaxFaults /\ HeldInv
  BY RowsRest DEF P!AskGateway, P!GotGateway, P!AskMeter, P!GotMeter, P!Write, ProvisionInv
<1>2. gwCache' \in [Replica -> P!GatewayId \cup {None}]
  BY HoldsIs DEF P!AskGateway, P!GotGateway, P!AskMeter, P!GotMeter, P!Write, P!caches
<1>3. meterCache' \in [Replica -> P!MeterRow]
  <2>1. CASE P!GotMeter(r)
    <3> DEFINE row == [meterCache[r] EXCEPT ![message[r].gw] = message[r].no]
    <3>1. row \in P!MeterRow
      BY HoldsIs DEF P!MeterRow
    <3>2. meterCache' = [meterCache EXCEPT ![r] = row]
      BY <2>1 DEF P!GotMeter
    <3> HIDE DEF row
    <3> QED
      BY <3>1, <3>2, HoldsIs
  <2>2. CASE ~P!GotMeter(r)
    BY <2>2, HoldsIs DEF P!AskGateway, P!GotGateway, P!AskMeter, P!Write, P!caches
  <2> QED
    BY <2>1, <2>2
<1>4. CASE P!AskGateway(r)
  <2>1. CASE gateway = None
    <3>1. P!Goes(r, "gwNew", gateway, None)
      BY <1>4, <2>1 DEF P!AskGateway
    <3> QED
      BY <1>1, <1>2, <1>3, <3>1, GoesSound, HoldsIs DEF ProvisionInv
  <2>2. CASE gateway # None
    <3>1. P!Goes(r, "gwGot", gateway, None) /\ gateway \in P!GatewayId
      BY <1>4, <2>2, HoldsIs, IdsAre DEF P!AskGateway
    <3> QED
      BY <1>1, <1>2, <1>3, <3>1, GoesSound, HoldsIs DEF ProvisionInv
  <2> QED
    BY <2>1, <2>2
<1>5. CASE P!GotGateway(r)
  <2>1. P!WithGateway(r, message[r].gw) /\ message[r].gw \in P!GatewayId
    BY <1>5, HoldsIs DEF P!GotGateway
  <2> QED
    BY <1>1, <1>2, <1>3, <2>1, WithGatewaySound DEF ProvisionInv
<1>6. CASE P!AskMeter(r)
  <2> DEFINE g == message[r].gw
             pc == IF meter[g] = None THEN "mNew" ELSE "mGot"
  <2>1. g \in P!GatewayId /\ g \in P!GatewayId \cup {None} /\ meter[g] \in P!MeterNo \cup {None}
        /\ P!Goes(r, pc, g, meter[g])
    BY <1>6, HoldsIs DEF P!AskMeter
  <2>2. pc \in {"mNew", "mGot"}
    OBVIOUS
  <2> HIDE DEF pc, g
  <2> QED
    BY <1>1, <1>2, <1>3, <2>1, <2>2, GoesSound DEF ProvisionInv
<1>7. CASE P!GotMeter(r)
  <2>1. message[r].gw \in P!GatewayId /\ P!Goes(r, "write", message[r].gw, message[r].no)
    BY <1>7, HoldsIs DEF P!GotMeter
  <2> QED
    BY <1>1, <1>2, <1>3, <2>1, GoesSound, HoldsIs DEF ProvisionInv
<1>8. CASE P!Write(r)
  <2>1. P!Goes(r, "idle", None, None)
    BY <1>8 DEF P!Write
  <2> QED
    BY <1>1, <1>2, <1>3, <2>1, GoesSound, HoldsIs DEF ProvisionInv
<1> QED
  BY <1>4, <1>5, <1>6, <1>7, <1>8

\* Fields of what was made.
LEMMA MadeIs ==
  ASSUME P!ProvisionAssumption, ProvisionInv
  PROVE  /\ made.gateways \in 0..(MaxRemovals + 1) /\ made.meters \in [P!GatewayId -> 0..(MaxRemovals + 1)]
         /\ \A n \in 0..(MaxRemovals + 1) :
              /\ [made EXCEPT !.gateways = n] \in Made
              /\ [made EXCEPT !.gateways = n].gateways = n
              /\ [made EXCEPT !.gateways = n].meters = made.meters
         /\ \A g \in P!GatewayId, n \in 0..(MaxRemovals + 1) :
              /\ [made EXCEPT !.meters[g] = n] \in Made
              /\ [made EXCEPT !.meters[g] = n].gateways = made.gateways
              /\ [made EXCEPT !.meters[g] = n].meters = [made.meters EXCEPT ![g] = n]
         /\ removals \in 0..MaxRemovals /\ MaxRemovals \in Nat
BY DEF ProvisionInv, RowsInv, Made, P!ProvisionAssumption

LEMMA NewGatewaySound ==
  ASSUME P!ProvisionAssumption, ProvisionInv, NEW r \in Replica, P!NewGateway(r)
  PROVE  ProvisionInv'
<1>1. /\ UNCHANGED <<gwCache, meterCache, removal, removals, faults>> /\ HeldInv
      /\ gwCache' \in [Replica -> P!GatewayId \cup {None}] /\ meterCache' \in [Replica -> P!MeterRow]
      /\ faults' \in 0..MaxFaults
  BY HoldsIs DEF P!NewGateway, P!caches, ProvisionInv
<1>2. CASE P!TakenGateway
  <2>1. P!Goes(r, "gwGot", gateway, None) /\ UNCHANGED P!tables /\ gateway \in P!GatewayId
    BY <1>2, IdsAre, HoldsIs DEF P!NewGateway, P!TakenGateway
  <2>2. RowsInv'
    BY <1>1, <2>1, RowsRest
  <2> QED
    BY <1>1, <2>1, <2>2, GoesSound, HoldsIs DEF ProvisionInv
<1>3. CASE ~P!TakenGateway
  <2> DEFINE n == made.gateways + 1
  <2>1. /\ gateway = None /\ made.gateways < MaxRemovals + 1 /\ made' = [made EXCEPT !.gateways = n]
        /\ gateway' = n /\ P!Goes(r, "gwGot", n, None) /\ UNCHANGED meter
    BY <1>3 DEF P!NewGateway, P!TakenGateway
  <2>2. n \in 0..(MaxRemovals + 1) /\ n \in P!GatewayId /\ made.gateways \in Nat
    BY <2>1, MadeIs DEF P!GatewayId
  <2>3. made' \in Made /\ made'.gateways = n /\ made'.meters = made.meters
    BY <2>1, <2>2, MadeIs
  <2>4. gateway' # None /\ gateway' \in P!GatewayId \cup {None}
    BY <2>1, <2>2, IdsAre
  <2>5. made.gateways <= removals /\ removal.pc \notin {"meters", "gateway"} /\ removals \in 0..MaxRemovals
    BY <2>1 DEF ProvisionInv, RowsInv
  <2>6. RowsInv'
    <3>1. made'.gateways <= removals' + 1
      BY <1>1, <2>2, <2>3, <2>5, MadeIs
    <3>2. removal' \in RemovalState /\ removals' \in 0..MaxRemovals /\ meter' \in P!MeterRow
      BY <1>1, <2>1 DEF ProvisionInv, RowsInv
    <3>3. removals' = 0 =>
       /\ removal'.pc = "idle"
       /\ \A g \in P!GatewayId : made'.meters[g] <= 1 /\ (meter'[g] = None => made'.meters[g] = 0)
      BY <1>1, <2>1, <2>3 DEF ProvisionInv, RowsInv
    <3> QED
      BY <1>1, <2>3, <2>4, <2>5, <3>1, <3>2, <3>3 DEF RowsInv
  <2>7. HeldInv'
    BY <1>1, <2>1, <2>2, GoesSound, HoldsIs
  <2> QED
    BY <1>1, <2>6, <2>7 DEF ProvisionInv
<1> QED
  BY <1>2, <1>3

LEMMA NewMeterSound ==
  ASSUME P!ProvisionAssumption, ProvisionInv, NEW r \in Replica, P!NewMeter(r)
  PROVE  ProvisionInv'
<1> DEFINE g == message[r].gw
           no == made.meters[g] + 1
<1>1. /\ UNCHANGED <<gateway, gwCache, meterCache, removal, removals, faults>> /\ HeldInv
      /\ gwCache' \in [Replica -> P!GatewayId \cup {None}] /\ meterCache' \in [Replica -> P!MeterRow]
      /\ faults' \in 0..MaxFaults /\ g \in P!GatewayId /\ g \in P!GatewayId \cup {None}
      /\ meter[g] \in P!MeterNo \cup {None}
  BY HoldsIs DEF P!NewMeter, P!caches, ProvisionInv
<1>2. CASE meter[g] # None
  <2>1. P!Goes(r, "mGot", g, meter[g]) /\ UNCHANGED <<meter, made>>
    BY <1>2 DEF P!NewMeter
  <2>2. RowsInv'
    BY <1>1, <2>1, RowsRest DEF P!tables
  <2> QED
    BY <1>1, <2>1, <2>2, GoesSound DEF ProvisionInv
<1>3. CASE meter[g] = None
  <2>1. /\ no \in P!MeterNo /\ meter' = [meter EXCEPT ![g] = no] /\ made' = [made EXCEPT !.meters[g] = no]
        /\ P!Goes(r, "mGot", g, no)
    BY <1>3 DEF P!NewMeter
  <2>2. no \in 0..(MaxRemovals + 1) /\ no \in P!MeterNo \cup {None} /\ no # None
    BY <2>1, IdsAre DEF P!MeterNo
  <2>3. made' \in Made /\ made'.gateways = made.gateways /\ made'.meters = [made.meters EXCEPT ![g] = no]
    BY <1>1, <2>1, <2>2, MadeIs
  <2>4. meter' \in P!MeterRow
    BY <1>1, <2>1, <2>2 DEF ProvisionInv, RowsInv, P!MeterRow
  <2>5. RowsInv'
    <3>1. removals' = 0 =>
       /\ removal'.pc = "idle"
       /\ \A h \in P!GatewayId : made'.meters[h] <= 1 /\ (meter'[h] = None => made'.meters[h] = 0)
      <4> SUFFICES ASSUME removals = 0
                   PROVE  /\ removal.pc = "idle"
                          /\ \A h \in P!GatewayId : made'.meters[h] <= 1 /\ (meter'[h] = None => made'.meters[h] = 0)
        BY <1>1
      <4>1. removal.pc = "idle" /\ made.meters[g] = 0
            /\ \A h \in P!GatewayId : made.meters[h] <= 1 /\ (meter[h] = None => made.meters[h] = 0)
        BY <1>1, <1>3 DEF ProvisionInv, RowsInv
      <4>2. ASSUME NEW h \in P!GatewayId PROVE made'.meters[h] <= 1 /\ (meter'[h] = None => made'.meters[h] = 0)
        <5>1. CASE h = g
          BY <1>1, <2>1, <2>2, <2>3, <4>1, <5>1, MadeIs DEF ProvisionInv, RowsInv, P!MeterRow
        <5>2. CASE h # g
          <6>1. meter'[h] = meter[h] /\ made'.meters[h] = made.meters[h]
            BY <2>1, <2>3, <5>2, MadeIs DEF ProvisionInv, RowsInv, P!MeterRow
          <6> QED
            BY <4>1, <6>1
        <5> QED
          BY <5>1, <5>2
      <4> QED
        BY <4>1, <4>2
    <3>2. /\ gateway' \in P!GatewayId \cup {None} /\ removal' \in RemovalState /\ removals' \in 0..MaxRemovals
          /\ made'.gateways <= removals' + 1
          /\ gateway' = None => made'.gateways <= removals'
          /\ removal'.pc \in {"meters", "gateway"} => gateway' # None /\ made'.gateways <= removals'
      BY <1>1, <2>3 DEF ProvisionInv, RowsInv
    <3> QED
      BY <2>3, <2>4, <3>1, <3>2 DEF RowsInv
  <2>6. HeldInv'
    BY <1>1, <2>1, <2>2, GoesSound
  <2> QED
    BY <1>1, <2>5, <2>6 DEF ProvisionInv
<1> QED
  BY <1>2, <1>3

LEMMA HeldRests ==
  ASSUME HeldInv, UNCHANGED message,
         gwCache' \in [Replica -> P!GatewayId \cup {None}], meterCache' \in [Replica -> P!MeterRow]
  PROVE  HeldInv'
BY DEF HeldInv

LEMMA RemovingSound ==
  ASSUME P!ProvisionAssumption, ProvisionInv, P!Remove \/ P!Removing
  PROVE  ProvisionInv'
<1>1. /\ removal \in RemovalState /\ removals \in 0..MaxRemovals /\ meter \in P!MeterRow /\ MaxRemovals \in Nat
      /\ made \in Made /\ made.gateways \in 0..(MaxRemovals + 1) /\ gateway \in P!GatewayId \cup {None}
      /\ gwCache \in [Replica -> P!GatewayId \cup {None}] /\ meterCache \in [Replica -> P!MeterRow]
      /\ HeldInv /\ faults \in 0..MaxFaults
  BY MadeIs DEF ProvisionInv, RowsInv, HeldInv
<1>2. CASE P!Remove
  <2> DEFINE state == [pc |-> "meters", gw |-> gateway, no |-> meter[gateway]]
  <2>1. /\ removals < MaxRemovals /\ removals' = removals + 1 /\ gateway # None /\ removal' = state
        /\ UNCHANGED <<gateway, meter, made, gwCache, meterCache, message, faults>>
    BY <1>2 DEF P!Remove, P!tables, P!caches
  <2>2. state \in RemovalState /\ state.pc = "meters"
    BY <1>1, <2>1, IdsAre DEF P!MeterRow, RemovalState
  <2> HIDE DEF state
  <2>3. removals' \in 0..MaxRemovals /\ removals' # 0 /\ made.gateways <= removals'
    BY <1>1, <2>1 DEF ProvisionInv, RowsInv
  <2>4. made.gateways <= removals' + 1
    BY <1>1, <2>3
  <2>5. RowsInv'
    BY <1>1, <2>1, <2>2, <2>3, <2>4 DEF RowsInv, Made
  <2>6. HeldInv'
    BY <1>1, <2>1, HeldRests
  <2> QED
    BY <1>1, <2>1, <2>5, <2>6 DEF ProvisionInv
<1>3. CASE P!RemoveMeters
  <2> DEFINE state == [removal EXCEPT !.pc = "gateway"]
             no == IF meter[removal.gw] = removal.no THEN None ELSE meter[removal.gw]
  <2>1. /\ removal.pc = "meters" /\ removal' = state /\ meter' = [meter EXCEPT ![removal.gw] = no]
        /\ UNCHANGED <<gateway, made, gwCache, meterCache, message, removals, faults>>
    BY <1>3 DEF P!RemoveMeters, P!caches
  <2>2. state \in RemovalState /\ state.pc = "gateway"
    BY <1>1 DEF RemovalState
  <2>3. meter' \in P!MeterRow
    BY <1>1, <2>1 DEF P!MeterRow
  <2> HIDE DEF state
  <2>4. removals # 0 /\ gateway # None /\ made.gateways <= removals /\ made.gateways <= removals + 1
    BY <2>1 DEF ProvisionInv, RowsInv
  <2>5. RowsInv'
    BY <1>1, <2>1, <2>2, <2>3, <2>4 DEF RowsInv, Made
  <2>6. HeldInv'
    BY <1>1, <2>1, HeldRests
  <2> QED
    BY <1>1, <2>1, <2>5, <2>6 DEF ProvisionInv
<1>4. CASE P!RemoveGateway
  <2> DEFINE state == [removal EXCEPT !.pc = "evict"]
  <2>1. /\ removal.pc = "gateway" /\ removal' = state
        /\ gateway' = IF gateway = removal.gw THEN None ELSE gateway
        /\ UNCHANGED <<meter, made, gwCache, meterCache, message, removals, faults>>
    BY <1>4 DEF P!RemoveGateway, P!caches
  <2>2. state \in RemovalState /\ state.pc = "evict"
    BY <1>1 DEF RemovalState
  <2> HIDE DEF state
  <2>3. gateway' \in P!GatewayId \cup {None}
    BY <1>1, <2>1
  <2>4. removals # 0 /\ made.gateways <= removals /\ made.gateways <= removals + 1
    BY <2>1 DEF ProvisionInv, RowsInv
  <2>5. RowsInv'
    BY <1>1, <2>1, <2>2, <2>3, <2>4 DEF RowsInv, Made
  <2>6. HeldInv'
    BY <1>1, <2>1, HeldRests
  <2> QED
    BY <1>1, <2>1, <2>5, <2>6 DEF ProvisionInv
<1>5. CASE P!Evict
  <2>1. /\ removal' = P!Idle /\ UNCHANGED <<gateway, meter, made, message, removals, faults>>
        /\ gwCache' = [r \in Replica |-> IF P!Evicted(r) THEN None ELSE gwCache[r]]
        /\ meterCache' = [r \in Replica |-> IF P!Evicted(r) THEN P!NoEntries ELSE meterCache[r]]
    BY <1>5 DEF P!Evict, P!tables
  <2>2. gwCache' \in [Replica -> P!GatewayId \cup {None}]
    BY <1>1, <2>1
  <2>3. meterCache' \in [Replica -> P!MeterRow]
    BY <1>1, <2>1, IdsAre
  <2>4. RowsInv'
    BY <1>1, <2>1, IdsAre DEF ProvisionInv, RowsInv
  <2>5. HeldInv'
    BY <1>1, <2>1, <2>2, <2>3, HeldRests
  <2> QED
    BY <1>1, <2>1, <2>4, <2>5 DEF ProvisionInv
<1> QED
  BY <1>2, <1>3, <1>4, <1>5 DEF P!Removing

LEMMA LosesSound ==
  ASSUME P!ProvisionAssumption, ProvisionInv, NEW r \in Replica,
         \/ P!ExpireGateway(r) \/ P!Fails(r) \/ P!Crash(r)
         \/ \E g \in P!GatewayId : P!ExpireMeter(r, g)
  PROVE  ProvisionInv'
<1>1. /\ gwCache \in [Replica -> P!GatewayId \cup {None}] /\ meterCache \in [Replica -> P!MeterRow]
      /\ HeldInv /\ faults \in 0..MaxFaults /\ MaxFaults \in Nat
      /\ None \in P!GatewayId \cup {None} /\ None \in P!MeterNo \cup {None} /\ meterCache[r] \in P!MeterRow
  BY DEF ProvisionInv, HeldInv, P!ProvisionAssumption
<1>2. CASE P!ExpireGateway(r)
  <2>1. gwCache' \in [Replica -> P!GatewayId \cup {None}] /\ meterCache' \in [Replica -> P!MeterRow]
        /\ UNCHANGED <<P!tables, message, removal, removals, faults>>
    BY <1>1, <1>2 DEF P!ExpireGateway
  <2> QED
    BY <1>1, <2>1, HeldRests, RowsRest DEF ProvisionInv
<1>3. ASSUME NEW g \in P!GatewayId, P!ExpireMeter(r, g) PROVE ProvisionInv'
  <2> DEFINE row == [meterCache[r] EXCEPT ![g] = None]
  <2>1. row \in P!MeterRow
    BY <1>1 DEF P!MeterRow
  <2>2. meterCache' = [meterCache EXCEPT ![r] = row]
        /\ UNCHANGED <<P!tables, gwCache, message, removal, removals, faults>>
    BY <1>3 DEF P!ExpireMeter
  <2> HIDE DEF row
  <2>3. gwCache' \in [Replica -> P!GatewayId \cup {None}] /\ meterCache' \in [Replica -> P!MeterRow]
    BY <1>1, <2>1, <2>2
  <2> QED
    BY <1>1, <2>2, <2>3, HeldRests, RowsRest DEF ProvisionInv
<1>4. CASE P!Fails(r)
  <2>1. P!Goes(r, "idle", None, None) /\ UNCHANGED <<P!tables, gwCache, meterCache, removal, removals>>
        /\ faults' \in 0..MaxFaults
    BY <1>1, <1>4 DEF P!Fails, P!caches
  <2> QED
    BY <1>1, <2>1, GoesSound, RowsRest DEF ProvisionInv
<1>5. CASE P!Crash(r)
  <2>1. P!Goes(r, "idle", None, None) /\ UNCHANGED <<gateway, meter, made, removals>>
        /\ faults' \in 0..MaxFaults /\ removal' \in {P!Idle, removal}
        /\ gwCache' \in [Replica -> P!GatewayId \cup {None}] /\ meterCache' \in [Replica -> P!MeterRow]
    BY <1>1, <1>5, IdsAre DEF P!Crash, P!tables
  <2>2. RowsInv'
    BY <2>1, IdsAre DEF ProvisionInv, RowsInv
  <2> QED
    BY <1>1, <2>1, <2>2, GoesSound DEF ProvisionInv
<1> QED
  BY <1>2, <1>3, <1>4, <1>5

LEMMA ProvisionNext ==
  ASSUME P!ProvisionAssumption, ProvisionInv, P!Next
  PROVE  ProvisionInv'
BY ArriveSound, AskSound, NewGatewaySound, NewMeterSound, LosesSound, RemovingSound DEF P!Next, P!Handle

\* The others' steps leave it be; only their faults count here too.
LEMMA ProvisionRests ==
  ASSUME ProvisionInv, faults' \in 0..MaxFaults,
         UNCHANGED <<gateway, meter, made, gwCache, meterCache, message, removal, removals>>
  PROVE  ProvisionInv'
BY DEF ProvisionInv, HeldInv, RowsInv

LEMMA ProvisionHolds ==
  ASSUME P!ProvisionAssumption, ProvisionInv
  PROVE  P!TypeOK /\ P!ProvisionedOnce
<1>1. P!TypeOK
  BY MadeIs DEF ProvisionInv, HeldInv, RowsInv, P!TypeOK, MessageState, RemovalState
<1>2. P!ProvisionedOnce
  BY MadeIs DEF ProvisionInv, RowsInv, P!ProvisionedOnce
<1> QED
  BY <1>1, <1>2

---------------------------------------------------------------------------
(***************************************************************************)
(* The four together: one moves, the others rest, and a fault of any counts  *)
(* for all.                                                                  *)
(***************************************************************************)
IngestionInv ==
  /\ part \in {"alarms", "notifier", "liveness", "provision"}
  /\ AlarmsInv /\ NotifyInv /\ L!TypeOK /\ ProvisionInv

LEMMA PartsAssumption ==
  A!AlarmsAssumption /\ N!NotifyAssumption /\ L!LivenessAssumption /\ P!ProvisionAssumption
BY IngestionAssumption

LEMMA AlarmsFaults ==
  ASSUME A!Next
  PROVE  faults' = faults \/ faults' = faults + 1
<1>1. ASSUME NEW r \in Replica, A!Frame(r) \/ A!Fault(r) \/ A!Crash(r)
      PROVE  faults' = faults \/ faults' = faults + 1
  BY <1>1 DEF A!Frame, A!Fault, A!Crash
<1>2. ASSUME NEW r \in Replica, A!Evaluate(r) PROVE faults' = faults
  BY <1>2 DEF A!Evaluate, A!Load, A!LoadOpen, A!CheckMaintenance, A!Insert, A!Upsert, A!Resolve
<1>3. ASSUME A!Acknowledge \/ A!CloseByHand \/ A!Cross \/ A!WindowEnds \/ A!Tick PROVE faults' = faults
  BY <1>3 DEF A!Acknowledge, A!CloseByHand, A!Cross, A!WindowEnds, A!Tick
<1> QED
  BY <1>1, <1>2, <1>3 DEF A!Next

LEMMA NotifyFaults ==
  ASSUME N!Next
  PROVE  faults' = faults \/ faults' = faults + 1
<1>1. ASSUME N!Raise \/ N!Acknowledge \/ N!Suppress \/ N!Crowd \/ N!Ages PROVE faults' = faults
  BY <1>1 DEF N!Raise, N!Acknowledge, N!Suppress, N!Crowd, N!Ages
<1>2. ASSUME NEW j, N!StartSweep(j) \/ N!Finds(j) PROVE faults' = faults
  BY <1>2 DEF N!StartSweep, N!Finds
<1>3. ASSUME NEW j \in N!Job, N!Step(j) \/ N!Crash(j) PROVE faults' = faults \/ faults' = faults + 1
  BY <1>3 DEF N!Step, N!Resolves, N!List, N!NextChannel, N!Dispatch, N!Insert, N!Crash
<1> QED
  BY <1>1, <1>2, <1>3 DEF N!Next

LEMMA LivenessFaults ==
  ASSUME L!Next
  PROVE  faults' = faults \/ faults' = faults + 1
<1>1. ASSUME NEW r \in Replica, L!Seen(r) \/ L!Flush(r) \/ L!Update(r) \/ L!Unmark(r) \/ L!Sweep(r)
      PROVE  faults' = faults
  BY <1>1 DEF L!Seen, L!Flush, L!Update, L!Unmark, L!Sweep
<1>2. ASSUME NEW r \in Replica, L!Sweeping(r) PROVE faults' = faults
  BY <1>2 DEF L!Sweeping, L!SetOffline, L!RaiseOffline, L!FindBack, L!ResolveBack
<1>3. ASSUME NEW r \in Replica, L!Fails(r) \/ L!Crash(r) PROVE faults' = faults + 1
  BY <1>3 DEF L!Fails, L!Crash
<1>4. ASSUME L!Switch \/ L!Tick PROVE faults' = faults
  BY <1>4 DEF L!Switch, L!Tick
<1> QED
  BY <1>1, <1>2, <1>3, <1>4 DEF L!Next

LEMMA ProvisionFaults ==
  ASSUME P!Next
  PROVE  faults' = faults \/ faults' = faults + 1
<1>1. ASSUME NEW r \in Replica, P!Arrive(r) \/ P!ExpireGateway(r) \/ P!Fails(r) \/ P!Crash(r)
      PROVE  faults' = faults \/ faults' = faults + 1
  BY <1>1 DEF P!Arrive, P!ExpireGateway, P!Fails, P!Crash
<1>2. ASSUME NEW r \in Replica, P!Handle(r) PROVE faults' = faults
  BY <1>2 DEF P!Handle, P!AskGateway, P!GotGateway, P!NewGateway, P!AskMeter, P!GotMeter, P!NewMeter, P!Write
<1>3. ASSUME NEW r \in Replica, NEW g \in P!GatewayId, P!ExpireMeter(r, g) PROVE faults' = faults
  BY <1>3 DEF P!ExpireMeter
<1>4. ASSUME P!Remove \/ P!Removing PROVE faults' = faults
  BY <1>4 DEF P!Remove, P!Removing, P!RemoveMeters, P!RemoveGateway, P!Evict
<1> QED
  BY <1>1, <1>2, <1>3, <1>4 DEF P!Next

LEMMA IngestionInit ==
  ASSUME Init
  PROVE  IngestionInv
BY PartsAssumption, AlarmsInit, NotifyInit, LivenessInit, ProvisionInit DEF Init, IngestionInv

\* At rest, with more faults or as many.
LEMMA AllRest ==
  ASSUME IngestionInv, faults' \in 0..MaxFaults, faults <= faults'
  PROVE  /\ UNCHANGED alarms => AlarmsInv'
         /\ UNCHANGED notifier => NotifyInv'
         /\ UNCHANGED liveness => L!TypeOK'
         /\ UNCHANGED provision => ProvisionInv'
<1>1. ASSUME UNCHANGED alarms PROVE AlarmsInv'
  <2>1. hot \in BOOLEAN /\ maintenance \in BOOLEAN /\ alarm \in A!AlarmStatus /\ ops \in 0..MaxOps
    BY DEF IngestionInv, AlarmsInv, A!TypeOK
  <2> QED
    BY <1>1, <2>1, AlarmsRest, PartsAssumption DEF alarms, IngestionInv
<1>2. ASSUME UNCHANGED notifier PROVE NotifyInv'
  <2>1. Around
    BY DEF IngestionInv, NotifyInv, N!TypeOK, Around
  <2>2. RunsOnce'
    BY <1>2 DEF notifier, IngestionInv, NotifyInv, RunsOnce
  <2> QED
    BY <1>2, <2>1, <2>2, NotifyRests, PartsAssumption DEF notifier, IngestionInv, Around
<1>3. ASSUME UNCHANGED liveness PROVE L!TypeOK'
  BY <1>3, LivenessRests DEF liveness, IngestionInv
<1>4. ASSUME UNCHANGED provision PROVE ProvisionInv'
  BY <1>4, ProvisionRests DEF provision, IngestionInv
<1> QED
  BY <1>1, <1>2, <1>3, <1>4

LEMMA IngestionNext ==
  ASSUME IngestionInv, [Next]_vars
  PROVE  IngestionInv'
<1>1. /\ faults \in 0..MaxFaults /\ MaxFaults \in Nat /\ faults <= faults
      /\ part \in {"alarms", "notifier", "liveness", "provision"}
  BY PartsAssumption DEF IngestionInv, ProvisionInv, L!LivenessAssumption
<1>2. ASSUME faults' = faults \/ faults' = faults + 1, faults' \in 0..MaxFaults
      PROVE  faults' \in 0..MaxFaults /\ faults <= faults'
  BY <1>1, <1>2
<1>3. CASE A!Next /\ UNCHANGED <<part, notifier, liveness, provision>>
  <2>1. AlarmsInv'
    BY <1>3, AlarmsNext, PartsAssumption DEF IngestionInv
  <2>2. faults' \in 0..MaxFaults
    BY <2>1 DEF AlarmsInv, A!TypeOK
  <2>3. faults <= faults'
    BY <1>2, <1>3, <2>2, AlarmsFaults
  <2> QED
    BY <1>1, <1>3, <2>1, <2>2, <2>3, AllRest DEF IngestionInv
<1>4. CASE N!Next /\ UNCHANGED <<part, alarms, liveness, provision>>
  <2>1. NotifyInv'
    BY <1>4, NotifyNext, PartsAssumption DEF IngestionInv
  <2>2. faults' \in 0..MaxFaults
    BY <2>1 DEF NotifyInv, N!TypeOK
  <2>3. faults <= faults'
    BY <1>2, <1>4, <2>2, NotifyFaults
  <2> QED
    BY <1>1, <1>4, <2>1, <2>2, <2>3, AllRest DEF IngestionInv
<1>5. CASE L!Next /\ UNCHANGED <<part, alarms, notifier, provision>>
  <2>1. L!TypeOK'
    BY <1>5, LivenessNext, PartsAssumption DEF IngestionInv
  <2>2. faults' \in 0..MaxFaults
    BY <2>1 DEF L!TypeOK
  <2>3. faults <= faults'
    BY <1>2, <1>5, <2>2, LivenessFaults
  <2> QED
    BY <1>1, <1>5, <2>1, <2>2, <2>3, AllRest DEF IngestionInv
<1>6. CASE P!Next /\ UNCHANGED <<part, alarms, notifier, liveness>>
  <2>1. ProvisionInv'
    BY <1>6, ProvisionNext, PartsAssumption DEF IngestionInv
  <2>2. faults' \in 0..MaxFaults
    BY <2>1 DEF ProvisionInv
  <2>3. faults <= faults'
    BY <1>2, <1>6, <2>2, ProvisionFaults
  <2> QED
    BY <1>1, <1>6, <2>1, <2>2, <2>3, AllRest DEF IngestionInv
<1>7. CASE UNCHANGED vars
  BY <1>1, <1>7, AllRest DEF vars, IngestionInv
<1> QED
  BY <1>3, <1>4, <1>5, <1>6, <1>7 DEF Next

LEMMA IngestionAlways == Spec => []IngestionInv
BY IngestionInit, IngestionNext, PTL DEF Spec

(***************************************************************************)
(* Alarm rules, notifications, liveness and provisioning stay within their   *)
(* types: no replica handles a message with a gateway or device it never     *)
(* looked up (handlers.ts, service.ts), a job sends to a channel there is.   *)
(***************************************************************************)
THEOREM IngestionTypeCorrect == Spec => []TypeOK
<1>1. IngestionInv => TypeOK
  BY AlarmsHold, NotifyHolds, ProvisionHolds, PartsAssumption DEF IngestionInv, TypeOK
<1> QED
  BY <1>1, IngestionAlways, PTL

(***************************************************************************)
(* "an alarm fires on the transition INTO breach" (handlers.ts:211): however *)
(* the frames of the replicas, operators and maintenance windows interleave, *)
(* until it sees the condition end a replica raises one alarm at most, as    *)
(* long as nothing has failed.                                               *)
(***************************************************************************)
THEOREM IngestionRaisesOnce == Spec => []A!OncePerBreach
<1>1. IngestionInv => A!OncePerBreach
  BY AlarmsHold DEF IngestionInv
<1> QED
  BY <1>1, IngestionAlways, PTL

(***************************************************************************)
(* "Anyone who was never paged is not told it is over" (notify.ts:261), and  *)
(* nobody is paged on and on: for any number of channels, of sweeps and of   *)
(* resolvers at once and of failures, a channel hears of an alarm's raise    *)
(* once, of its escalation once from each sweep and of its end once from     *)
(* each who resolved it, and once more for each that ended before its row.   *)
(***************************************************************************)
THEOREM IngestionTellsThePaged == Spec => [](N!OnlyPagedAreTold /\ N!NoStorm)
<1>1. IngestionInv => N!OnlyPagedAreTold /\ N!NoStorm
  BY NotifyHolds, PartsAssumption DEF IngestionInv
<1> QED
  BY <1>1, IngestionAlways, PTL

(***************************************************************************)
(* ensureGateway and ensureMeter (service.ts, handlers.ts): for any number   *)
(* of replicas, racing first messages and removals, there are no more        *)
(* gateways than removals account for, and before the first removal no two   *)
(* device rows for one address.                                              *)
(***************************************************************************)
THEOREM IngestionProvisionsOnce == Spec => []P!ProvisionedOnce
<1>1. IngestionInv => P!ProvisionedOnce
  BY ProvisionHolds, PartsAssumption DEF IngestionInv
<1> QED
  BY <1>1, IngestionAlways, PTL

=============================================================================
