--------------------------- MODULE Control_proofs ---------------------------
(***************************************************************************)
(* Theorems about Control: whatever calls, frames and answers are about when *)
(* the emergency stop is pressed, an uncontested stop leaves the device at   *)
(* its safe state; a write that reached the device has its row; and on a     *)
(* device that is commanded by one call after the other a row says ok only   *)
(* of a write that took effect.                                              *)
(***************************************************************************)
EXTENDS Control, SequenceTheorems, WellFoundedInduction, TLAPS

\* What the two arguments need of the types.
Typed ==
  /\ direct \in BOOLEAN /\ locked \in BOOLEAN /\ contested \in BOOLEAN
  /\ stop \in {"idle", "safing", "over"}
  /\ call \in [Call -> CallState]
  /\ device \in [Key -> Value]
  /\ downlink \in Seq(Frame)
  /\ lost \in Nat

(***************************************************************************)
(* setLock runs once, drives SafeKey to 0, and locks behind its call.        *)
(***************************************************************************)
StopOnce ==
  /\ call[Stop].key = SafeKey /\ call[Stop].value = 0
  /\ stop = "idle" => call[Stop].pc = "ready"
  /\ stop = "safing" => ~locked
  /\ locked => stop = "over" /\ call[Stop].pc = "done"

\* Nothing was lost and nobody was let past since the stop was pressed.
Quiet == lost = 0 /\ ~contested /\ (stop = "safing" \/ locked)

\* The last write the gateway still has to pass on is the stop's, or there is
\* none left and it is what the register holds.
OthersWriteNot(i) == downlink[i].kind = "write" => downlink[i].by = Stop
Zeroed ==
  \/ device[SafeKey] = 0 /\ \A i \in DOMAIN downlink : OthersWriteNot(i)
  \/ \E i \in DOMAIN downlink :
       /\ downlink[i].kind = "write" /\ downlink[i].by = Stop
       /\ \A j \in DOMAIN downlink : j > i => OthersWriteNot(j)

(***************************************************************************)
(* What makes StopStops inductive: nobody else is on the way to the bus, and *)
(* from its write on the stop's 0 is the last word, wherever it is.          *)
(***************************************************************************)
LastWord ==
  Quiet =>
    /\ \A c \in Call \ {Stop} : call[c].pc # "write"
    /\ call[Stop].pc \notin {"ready", "check", "write"} => Zeroed

Frames ==
  /\ direct => downlink = <<>>
  /\ \A i \in DOMAIN downlink : call[downlink[i].by].pc # "ready"

ControlInv == Typed /\ StopOnce /\ Frames /\ LastWord

---------------------------------------------------------------------------
LEMMA FrameType ==
  ASSUME Typed
  PROVE  /\ DOMAIN downlink = 1..Len(downlink) /\ Len(downlink) \in Nat
         /\ \A i \in DOMAIN downlink : downlink[i] \in Frame /\ downlink[i].by \in Call
<1>1. downlink \in Seq(Frame)
  BY DEF Typed
<1>2. DOMAIN downlink = 1..Len(downlink) /\ Len(downlink) \in Nat
  BY <1>1, LenProperties
<1>3. \A i \in DOMAIN downlink : downlink[i] \in Frame
  BY <1>1, <1>2, ElementOfSeq
<1> QED
  BY <1>2, <1>3 DEF Frame

\* A step that touches neither the device's way nor the stop, nor brings
\* anyone to "write", keeps the last word.
LEMMA WordKept ==
  ASSUME ControlInv, UNCHANGED <<direct, locked, stop, device, downlink, lost, contested>>,
         call' \in [Call -> CallState],
         \A c \in Call : /\ call'[c].key = call[c].key /\ call'[c].value = call[c].value
                         /\ call'[c].pc = "write" => call[c].pc = "write"
                         /\ call'[c].pc = "ready" <=> call[c].pc = "ready"
                         /\ c = Stop /\ call[c].pc \in {"check", "write"} => call'[c].pc = call[c].pc
                         /\ call[c].pc = "done" => call'[c].pc = "done"
  PROVE  ControlInv'
<1>1. Stop \in Call
  BY ControlAssumption DEF ControlAssumption
<1>2. Typed'
  BY DEF ControlInv, Typed
<1>3. StopOnce'
  BY <1>1 DEF ControlInv, StopOnce
<1>4. Frames'
  BY FrameType DEF ControlInv, Frames
<1>5. Quiet' = Quiet /\ Zeroed' = Zeroed
  BY DEF Quiet, Zeroed, OthersWriteNot
<1>6. LastWord'
  BY <1>1, <1>5 DEF ControlInv, LastWord
<1> QED
  BY <1>2, <1>3, <1>4, <1>6 DEF ControlInv


LEMMA ControlInit ==
  ASSUME Init
  PROVE  ControlInv
<1>1. Stop \in Call /\ SafeKey \in Key /\ 0 \in Value
  BY ControlAssumption DEF ControlAssumption
<1>2. downlink = <<>> /\ downlink \in Seq(Frame) /\ DOMAIN downlink = {}
  BY EmptySeq DEF Init
<1>3. Typed
  BY <1>1, <1>2 DEF Init, Typed, CallState, Status
<1>4. StopOnce
  BY <1>1 DEF Init, StopOnce
<1>5. Frames /\ LastWord
  BY <1>2 DEF Init, Frames, LastWord, Quiet
<1> QED
  BY <1>3, <1>4, <1>5 DEF ControlInv

---------------------------------------------------------------------------
LEMMA StartKeeps ==
  ASSUME ControlInv, NEW c \in Call, Start(c)
  PROVE  ControlInv'
<1>1. PICK k \in Key, v \in Value :
        /\ call[c].pc = "ready"
        /\ call' = [call EXCEPT ![c] = [pc |-> "check", key |-> k, value |-> v, status |-> "none"]]
  BY DEF Start, Begins
<1>2. /\ c # Stop
      /\ UNCHANGED <<direct, locked, stop, device, downlink, lost, contested>>
  BY DEF Start, bounds
<1>3. Stop \in Call /\ call \in [Call -> CallState]
  BY ControlAssumption DEF ControlAssumption, ControlInv, Typed
<1>4. call' \in [Call -> CallState]
  BY <1>1, <1>3 DEF CallState, Status
<1>5. /\ call'[Stop] = call[Stop] /\ call'[c].pc = "check"
      /\ \A d \in Call : d # c => call'[d] = call[d]
  BY <1>1, <1>2, <1>3
<1>6. Typed' /\ StopOnce'
  BY <1>2, <1>4, <1>5 DEF ControlInv, Typed, StopOnce
<1>7. Frames'
  BY <1>1, <1>2, <1>5, FrameType DEF ControlInv, Frames
<1>8. Quiet' = Quiet /\ Zeroed' = Zeroed
  BY <1>2 DEF Quiet, Zeroed, OthersWriteNot
<1>9. LastWord'
  BY <1>5, <1>8 DEF ControlInv, LastWord
<1> QED
  BY <1>6, <1>7, <1>9 DEF ControlInv

LEMMA PressStopKeeps ==
  ASSUME ControlInv, PressStop
  PROVE  ControlInv'
<1>1. /\ stop = "idle" /\ stop' = "safing" /\ call[Stop].pc = "ready"
      /\ call' = [call EXCEPT ![Stop] =
                    [pc |-> "check", key |-> SafeKey, value |-> 0, status |-> "none"]]
      /\ contested' = (contested \/ \E c \in Call : call[c].pc = "write")
      /\ UNCHANGED <<direct, locked, device, downlink, lost>>
  BY DEF PressStop, Begins, bounds
<1>2. Stop \in Call /\ SafeKey \in Key /\ 0 \in Value /\ call \in [Call -> CallState]
  BY ControlAssumption DEF ControlAssumption, ControlInv, Typed
<1>3. call' \in [Call -> CallState]
  BY <1>1, <1>2 DEF CallState, Status
<1>4. /\ call'[Stop].pc = "check" /\ call'[Stop].key = SafeKey /\ call'[Stop].value = 0
      /\ \A d \in Call : d # Stop => call'[d] = call[d]
  BY <1>1, <1>2
<1>5. ~locked
  BY <1>1 DEF ControlInv, StopOnce
<1>6. contested' \in BOOLEAN
  BY <1>1 DEF ControlInv, Typed
<1>7. Typed' /\ StopOnce'
  BY <1>1, <1>3, <1>4, <1>5, <1>6 DEF ControlInv, Typed, StopOnce
<1>8. Frames'
  BY <1>1, <1>4, FrameType DEF ControlInv, Frames
<1>9. LastWord'
  BY <1>1, <1>4 DEF LastWord, Quiet
<1> QED
  BY <1>7, <1>8, <1>9 DEF ControlInv

LEMMA CheckKeeps ==
  ASSUME ControlInv, NEW c \in Call, Check(c)
  PROVE  ControlInv'
<1>1. Stop \in Call /\ call \in [Call -> CallState] /\ contested \in BOOLEAN
  BY ControlAssumption DEF ControlAssumption, ControlInv, Typed
<1>2. call[c].pc = "check" /\ UNCHANGED <<direct, locked, stop, device, downlink, lost>>
  BY DEF Check, bounds
<1>3. CASE locked
  <2>1. call' = [call EXCEPT ![c].pc = "insert", ![c].status = "failed"] /\ contested' = contested
    BY <1>3 DEF Check, Refuses, Reports
  <2>2. call' \in [Call -> CallState]
    BY <1>1, <2>1 DEF CallState, Status
  <2>3. c # Stop
    BY <1>2, <1>3 DEF ControlInv, StopOnce
  <2>4. \A d \in Call : /\ call'[d].key = call[d].key /\ call'[d].value = call[d].value
                        /\ call'[d].pc = IF d = c THEN "insert" ELSE call[d].pc
    BY <1>1, <2>1 DEF CallState
  <2> QED
    BY <1>2, <2>1, <2>2, <2>3, <2>4, WordKept
<1>4. CASE ~locked
  <2>1. /\ call' = [call EXCEPT ![c].pc = "write"]
        /\ contested' = (contested \/ (c # Stop /\ stop = "safing"))
    BY <1>4 DEF Check, Refuses, Goes
  <2>2. call' \in [Call -> CallState]
    BY <1>1, <2>1 DEF CallState
  <2>3. \A d \in Call : /\ call'[d].key = call[d].key /\ call'[d].value = call[d].value
                        /\ call'[d].pc = IF d = c THEN "write" ELSE call[d].pc
    BY <1>1, <2>1 DEF CallState
  <2>4. Typed'
    BY <1>2, <2>1, <2>2 DEF ControlInv, Typed
  <2>5. StopOnce'
    BY <1>1, <1>2, <1>4, <2>3 DEF ControlInv, StopOnce
  <2>6. Frames'
    BY <1>2, <2>3, FrameType DEF ControlInv, Frames
  <2>7. LastWord'
    <3>1. SUFFICES ASSUME Quiet'
                   PROVE  /\ \A d \in Call \ {Stop} : call'[d].pc # "write"
                          /\ call'[Stop].pc \notin {"ready", "check", "write"} => Zeroed'
      BY DEF LastWord
    <3>2. stop = "safing" /\ c = Stop /\ Quiet
      BY <1>2, <1>4, <2>1, <3>1 DEF Quiet
    <3> QED
      BY <1>1, <2>3, <3>2 DEF ControlInv, LastWord
  <2> QED
    BY <2>4, <2>5, <2>6, <2>7 DEF ControlInv
<1> QED
  BY <1>3, <1>4

---------------------------------------------------------------------------
\* What a call's step does to the calls.
Moved(c, pc) ==
  /\ call' \in [Call -> CallState]
  /\ \A d \in Call : /\ call'[d].key = call[d].key /\ call'[d].value = call[d].value
                     /\ call'[d].pc = IF d = c THEN pc ELSE call[d].pc

LEMMA GoesMoves ==
  ASSUME Typed, NEW c \in Call,
         NEW pc \in {"write", "read", "register", "verify", "insert", "attach", "done"}, Goes(c, pc)
  PROVE  Moved(c, pc)
<1>1. call \in [Call -> CallState] /\ call' = [call EXCEPT ![c].pc = pc]
  BY DEF Typed, Goes
<1>2. call' \in [Call -> CallState]
  BY <1>1 DEF CallState
<1> QED
  BY <1>1, <1>2 DEF Moved, CallState

LEMMA ReportsMoves ==
  ASSUME Typed, NEW c \in Call, NEW status \in Status, Reports(c, status)
  PROVE  Moved(c, "insert")
<1>1. call \in [Call -> CallState]
      /\ call' = [call EXCEPT ![c].pc = "insert", ![c].status = status]
  BY DEF Typed, Reports
<1>2. call' \in [Call -> CallState]
  BY <1>1 DEF CallState
<1> QED
  BY <1>1, <1>2 DEF Moved, CallState

\* A call behind its write goes on.
LEMMA OnwardKeeps ==
  ASSUME ControlInv, NEW c \in Call, call[c].pc \notin {"ready", "check", "write", "done"},
         NEW pc \in {"read", "register", "insert", "attach", "done"}, Moved(c, pc),
         UNCHANGED <<direct, locked, stop, device, downlink, lost, contested>>
  PROVE  ControlInv'
BY WordKept DEF Moved

LEMMA ReadsBackKeeps ==
  ASSUME ControlInv, NEW c \in Call, ReadsBack(c)
  PROVE  ControlInv'
<1>1. Moved(c, "insert")
  BY ReportsMoves DEF ControlInv, ReadsBack, Verdict, Status
<1> QED
  BY <1>1, OnwardKeeps DEF ReadsBack, history, bounds

LEMMA RegisterKeeps ==
  ASSUME ControlInv, NEW c \in Call, Register(c)
  PROVE  ControlInv'
<1>1. Moved(c, "insert")
  BY ReportsMoves DEF ControlInv, Register, Status
<1> QED
  BY <1>1, OnwardKeeps DEF Register, history, bounds

LEMMA InsertKeeps ==
  ASSUME ControlInv, NEW c \in Call, Insert(c)
  PROVE  ControlInv'
<1>1. PICK pc \in {"attach", "done"} : Goes(c, pc)
  BY DEF Insert
<1>2. Moved(c, pc)
  BY <1>1, GoesMoves DEF ControlInv
<1> QED
  BY <1>2, OnwardKeeps DEF Insert, history, bounds

LEMMA InsertFailsKeeps ==
  ASSUME ControlInv, NEW c \in Call, InsertFails(c)
  PROVE  ControlInv'
<1>1. Moved(c, "done")
  BY GoesMoves DEF ControlInv, InsertFails
<1> QED
  BY <1>1, OnwardKeeps DEF InsertFails, history

LEMMA AttachKeeps ==
  ASSUME ControlInv, NEW c \in Call, Attach(c)
  PROVE  ControlInv'
<1>1. Moved(c, "done")
  BY GoesMoves DEF ControlInv, Attach
<1> QED
  BY <1>1, OnwardKeeps DEF Attach, history, bounds

\* The registry and the rows are not on the device's way.
LEMMA AnswersKeep ==
  ASSUME ControlInv, UNCHANGED <<direct, locked, stop, call, device, downlink, lost, contested>>
  PROVE  ControlInv'
BY WordKept DEF ControlInv, Typed

---------------------------------------------------------------------------
\* A step that loses something takes the promise with it.
LEMMA LossKeeps ==
  ASSUME ControlInv, NEW c \in Call, NEW pc \in {"insert", "done"}, Moved(c, pc),
         call[c].pc \notin {"ready", "done"}, lost' = lost + 1,
         downlink' \in Seq(Frame), \A i \in DOMAIN downlink' : call[downlink'[i].by].pc # "ready",
         direct => downlink' = <<>>,
         UNCHANGED <<direct, locked, stop, device, contested>>
  PROVE  ControlInv'
<1>1. Stop \in Call
  BY ControlAssumption DEF ControlAssumption
<1>2. Typed'
  BY DEF ControlInv, Typed, Moved
<1>3. StopOnce'
  BY <1>1 DEF ControlInv, StopOnce, Moved
<1>4. Frames'
  <2>1. DOMAIN downlink' = 1..Len(downlink')
    BY LenProperties
  <2>2. \A i \in DOMAIN downlink' : downlink'[i] \in Frame
    BY <2>1, ElementOfSeq
  <2>3. \A i \in DOMAIN downlink' : downlink'[i].by \in Call
    BY <2>2 DEF Frame
  <2> QED
    BY <2>3 DEF Frames, Moved
<1>5. LastWord'
  BY DEF ControlInv, Typed, LastWord, Quiet
<1> QED
  BY <1>2, <1>3, <1>4, <1>5 DEF ControlInv

LEMMA ConnectionFailsKeeps ==
  ASSUME ControlInv, NEW c \in Call, ConnectionFails(c)
  PROVE  ControlInv'
<1>1. Moved(c, "insert")
  BY ReportsMoves DEF ControlInv, ConnectionFails, OnFailure, Status
<1>2. downlink \in Seq(Frame)
  BY DEF ControlInv, Typed
<1> QED
  BY <1>1, <1>2, LossKeeps DEF ConnectionFails, history, ControlInv, Frames

\* A frame at the end of the downlink.
LEMMA Appended ==
  ASSUME Typed, NEW c \in Call, call[c].pc \in {"write", "read"}
  PROVE  /\ Append(downlink, FrameOf(c)) \in Seq(Frame)
         /\ DOMAIN Append(downlink, FrameOf(c)) = DOMAIN downlink \cup {Len(downlink) + 1}
         /\ Len(downlink) + 1 \notin DOMAIN downlink
         /\ \A i \in DOMAIN downlink : i < Len(downlink) + 1
         /\ \A i \in DOMAIN downlink : Append(downlink, FrameOf(c))[i] = downlink[i]
         /\ Append(downlink, FrameOf(c))[Len(downlink) + 1] = FrameOf(c)
<1>1. FrameOf(c) \in Frame /\ downlink \in Seq(Frame)
  BY DEF FrameOf, Frame, Typed
<1>2. /\ Append(downlink, FrameOf(c)) \in Seq(Frame)
      /\ Len(Append(downlink, FrameOf(c))) = Len(downlink) + 1
      /\ \A i \in 1..Len(downlink) : Append(downlink, FrameOf(c))[i] = downlink[i]
      /\ Append(downlink, FrameOf(c))[Len(downlink) + 1] = FrameOf(c)
  BY <1>1, AppendProperties
<1>3. DOMAIN downlink = 1..Len(downlink) /\ Len(downlink) \in Nat
  BY <1>1, LenProperties
<1>4. DOMAIN Append(downlink, FrameOf(c)) = 1..Len(downlink) + 1
  BY <1>2, LenProperties
<1> QED
  BY <1>2, <1>3, <1>4

LEMMA PublishFailsKeeps ==
  ASSUME ControlInv, NEW c \in Call, PublishFails(c)
  PROVE  ControlInv'
<1>1. Moved(c, "done")
  BY GoesMoves DEF ControlInv, PublishFails
<1>2. /\ ~direct /\ call[c].pc \in {"write", "read"} /\ lost' = lost + 1
      /\ downlink' \in {downlink, Append(downlink, FrameOf(c))}
      /\ UNCHANGED <<direct, locked, stop, device, contested>>
  BY DEF PublishFails, history
<1>3. downlink' \in Seq(Frame)
  BY <1>2, Appended DEF ControlInv, Typed
<1>4. \A i \in DOMAIN downlink' : call[downlink'[i].by].pc # "ready"
  <2>1. CASE downlink' = downlink
    BY <2>1 DEF ControlInv, Frames
  <2>2. CASE downlink' = Append(downlink, FrameOf(c))
    BY <1>2, <2>2, Appended DEF ControlInv, Frames, FrameOf
  <2> QED
    BY <1>2, <2>1, <2>2
<1> QED
  BY <1>1, <1>2, <1>3, <1>4, LossKeeps

---------------------------------------------------------------------------
LEMMA LandsKeeps ==
  ASSUME ControlInv, NEW c \in Call, Lands(c)
  PROVE  ControlInv'
<1>1. Moved(c, "verify")
  BY GoesMoves DEF ControlInv, Lands
<1>2. /\ direct /\ call[c].pc = "write"
      /\ device' = [device EXCEPT ![call[c].key] = call[c].value]
      /\ UNCHANGED <<direct, locked, stop, downlink, lost, contested>>
  BY DEF Lands, Takes, bounds
<1>3. /\ Stop \in Call /\ SafeKey \in Key /\ device \in [Key -> Value]
      /\ call[c].key \in Key /\ call[c].value \in Value
  BY ControlAssumption DEF ControlAssumption, ControlInv, Typed, CallState
<1>4. Typed'
  BY <1>1, <1>2, <1>3 DEF ControlInv, Typed, Moved
<1>5. StopOnce'
  BY <1>1, <1>2, <1>3 DEF ControlInv, StopOnce, Moved
<1>6. Frames'
  BY <1>1, <1>2, FrameType DEF ControlInv, Frames, Moved
<1>7. LastWord'
  <2>1. SUFFICES ASSUME Quiet'
                 PROVE  /\ \A d \in Call \ {Stop} : call'[d].pc # "write"
                        /\ call'[Stop].pc \notin {"ready", "check", "write"} => Zeroed'
    BY DEF LastWord
  <2>2. c = Stop /\ \A d \in Call \ {Stop} : call[d].pc # "write"
    BY <1>2, <2>1 DEF Quiet, ControlInv, LastWord
  <2>3. device'[SafeKey] = 0
    BY <1>2, <1>3, <2>2 DEF ControlInv, StopOnce
  <2>4. DOMAIN downlink' = {}
    BY <1>2, EmptySeq DEF ControlInv, Frames
  <2>5. Zeroed'
    BY <2>3, <2>4 DEF Zeroed
  <2> QED
    BY <1>1, <2>2, <2>5 DEF Moved
<1> QED
  BY <1>4, <1>5, <1>6, <1>7 DEF ControlInv

LEMMA PublishKeeps ==
  ASSUME ControlInv, NEW c \in Call, Publish(c)
  PROVE  ControlInv'
<1>1. PICK pc \in {"read", "register"} :
        /\ Goes(c, pc)
        /\ call[c].pc = IF pc = "read" THEN "write" ELSE "read"
  BY DEF Publish
<1>2. Moved(c, pc) /\ call[c].pc \in {"write", "read"}
  BY <1>1, GoesMoves DEF ControlInv
<1>3. /\ ~direct /\ downlink' = Append(downlink, FrameOf(c))
      /\ UNCHANGED <<direct, locked, stop, device, lost, contested>>
  BY DEF Publish, history, bounds
<1>4. Stop \in Call
  BY ControlAssumption DEF ControlAssumption
<1> DEFINE last == Len(downlink) + 1
<1>5. /\ downlink' \in Seq(Frame) /\ DOMAIN downlink' = DOMAIN downlink \cup {last}
      /\ \A i \in DOMAIN downlink : i < last /\ i \in Nat /\ downlink'[i] = downlink[i]
      /\ downlink'[last] = FrameOf(c) /\ last \in Nat
  BY <1>2, <1>3, Appended, FrameType DEF ControlInv
<1> HIDE DEF last
<1>6. Typed'
  BY <1>2, <1>3, <1>5 DEF ControlInv, Typed, Moved
<1>7. StopOnce'
  BY <1>1, <1>2, <1>3, <1>4 DEF ControlInv, StopOnce, Moved
<1>8. Frames'
  BY <1>2, <1>3, <1>5, FrameType DEF ControlInv, Frames, Moved, FrameOf
<1>9. LastWord'
  <2>1. SUFFICES ASSUME Quiet'
                 PROVE  /\ \A d \in Call \ {Stop} : call'[d].pc # "write"
                        /\ call'[Stop].pc \notin {"ready", "check", "write"} => Zeroed'
    BY DEF LastWord
  <2>2. /\ \A d \in Call \ {Stop} : call[d].pc # "write"
        /\ call[Stop].pc \notin {"ready", "check", "write"} => Zeroed
    BY <1>3, <2>1 DEF Quiet, ControlInv, LastWord
  <2>3. CASE call[c].pc = "write"
    <3>1. c = Stop /\ downlink'[last].kind = "write" /\ downlink'[last].by = Stop
      BY <1>5, <2>2, <2>3 DEF FrameOf
    <3>2. \A j \in DOMAIN downlink' : ~(j > last)
      BY <1>5
    <3> QED
      BY <1>2, <1>5, <2>2, <3>1, <3>2 DEF Moved, Zeroed
  <2>4. CASE call[c].pc = "read"
    <3>1. downlink'[last].kind = "read"
      BY <1>5, <2>4 DEF FrameOf
    <3>2. ASSUME Zeroed
          PROVE  Zeroed'
      BY <1>3, <1>5, <3>1, <3>2 DEF Zeroed, OthersWriteNot
    <3> QED
      BY <1>2, <1>4, <2>2, <2>4, <3>2 DEF Moved
  <2> QED
    BY <1>2, <2>3, <2>4
<1> QED
  BY <1>6, <1>7, <1>8, <1>9 DEF ControlInv

---------------------------------------------------------------------------
\* The downlink without its first frame.
LEMMA Tailed ==
  ASSUME Typed, downlink # <<>>
  PROVE  /\ Tail(downlink) \in Seq(Frame) /\ 1 \in DOMAIN downlink
         /\ Head(downlink) = downlink[1]
         /\ \A i \in DOMAIN Tail(downlink) : /\ i \in Nat /\ i + 1 \in DOMAIN downlink
                                             /\ Tail(downlink)[i] = downlink[i + 1]
         /\ \A i \in DOMAIN downlink : i \in Nat /\ (i = 1 \/ (i > 1 /\ i - 1 \in DOMAIN Tail(downlink)))
<1>1. downlink \in Seq(Frame)
  BY DEF Typed
<1>2. /\ Tail(downlink) \in Seq(Frame) /\ Head(downlink) = downlink[1]
      /\ Len(Tail(downlink)) = Len(downlink) - 1
      /\ \A i \in 1..Len(Tail(downlink)) : Tail(downlink)[i] = downlink[i + 1]
  BY <1>1, HeadTailProperties
<1>3. DOMAIN downlink = 1..Len(downlink) /\ Len(downlink) \in Nat /\ Len(downlink) # 0
  BY <1>1, LenProperties, EmptySeq
<1>4. DOMAIN Tail(downlink) = 1..(Len(downlink) - 1)
  BY <1>2, LenProperties
<1> QED
  BY <1>2, <1>3, <1>4

LEMMA DeliverKeeps ==
  ASSUME ControlInv, Deliver
  PROVE  ControlInv'
<1> DEFINE f == downlink[1]
<1>1. /\ downlink # <<>> /\ downlink' = Tail(downlink)
      /\ UNCHANGED <<direct, locked, stop, call, lost, contested>>
      /\ \/ f.kind = "write" /\ device' = [device EXCEPT ![call[f.by].key] = call[f.by].value]
         \/ f.kind = "read" /\ device' = device
  BY Tailed DEF Deliver, Takes, bounds, ControlInv
<1>2. /\ downlink' \in Seq(Frame) /\ 1 \in DOMAIN downlink
      /\ \A i \in DOMAIN downlink' : /\ i \in Nat /\ i + 1 \in DOMAIN downlink
                                     /\ downlink'[i] = downlink[i + 1]
      /\ \A i \in DOMAIN downlink :
           i \in Nat /\ (i = 1 \/ (i > 1 /\ i - 1 \in DOMAIN downlink'))
  BY <1>1, Tailed DEF ControlInv
<1>3. f.by \in Call
  BY <1>2, FrameType DEF ControlInv
<1>4. /\ Stop \in Call /\ SafeKey \in Key /\ device \in [Key -> Value]
      /\ call[f.by].key \in Key /\ call[f.by].value \in Value
  BY <1>3, ControlAssumption DEF ControlAssumption, ControlInv, Typed, CallState
<1> HIDE DEF f
<1>5. Typed'
  BY <1>1, <1>2, <1>4 DEF ControlInv, Typed
<1>6. StopOnce' /\ Frames'
  BY <1>1, <1>2, FrameType DEF ControlInv, StopOnce, Frames
<1>7. LastWord'
  <2>1. SUFFICES ASSUME Quiet'
                 PROVE  /\ \A d \in Call \ {Stop} : call[d].pc # "write"
                        /\ call[Stop].pc \notin {"ready", "check", "write"} => Zeroed'
    BY <1>1 DEF LastWord
  <2>2. /\ \A d \in Call \ {Stop} : call[d].pc # "write"
        /\ call[Stop].pc \notin {"ready", "check", "write"} => Zeroed
    BY <1>1, <2>1 DEF Quiet, ControlInv, LastWord
  <2>3. SUFFICES ASSUME Zeroed
                 PROVE  Zeroed'
    BY <2>2
  <2>4. f.kind = "write" /\ f.by = Stop => device'[SafeKey] = 0
    BY <1>1, <1>4 DEF ControlInv, StopOnce
  <2>5. ASSUME device[SafeKey] = 0, \A i \in DOMAIN downlink : OthersWriteNot(i)
        PROVE  Zeroed'
    <3>1. f.kind = "write" => f.by = Stop
      BY <1>2, <2>5 DEF OthersWriteNot, f
    <3>2. device'[SafeKey] = 0
      BY <1>1, <2>4, <2>5, <3>1
    <3> QED
      BY <1>2, <2>5, <3>2 DEF Zeroed, OthersWriteNot
  <2>6. ASSUME NEW i \in DOMAIN downlink, downlink[i].kind = "write", downlink[i].by = Stop,
               \A j \in DOMAIN downlink : j > i => OthersWriteNot(j)
        PROVE  Zeroed'
    <3>1. CASE i = 1
      <4>1. device'[SafeKey] = 0
        BY <2>4, <2>6, <3>1 DEF f
      <4>2. \A j \in DOMAIN downlink' : j + 1 \in DOMAIN downlink /\ j + 1 > 1
        <5>1. TAKE j \in DOMAIN downlink'
        <5>2. j \in Nat /\ j + 1 \in DOMAIN downlink
          BY <1>2
        <5>3. j # 0
          BY <5>2, FrameType, <1>2, <1>5, LenProperties DEF Typed
        <5> QED
          BY <5>2, <5>3
      <4> QED
        BY <1>2, <2>6, <3>1, <4>1, <4>2 DEF Zeroed, OthersWriteNot
    <3>2. CASE i > 1
      <4>1. i - 1 \in DOMAIN downlink' /\ downlink'[i - 1] = downlink[i]
        BY <1>2, <3>2
      <4>2. \A j \in DOMAIN downlink' : j > i - 1 => OthersWriteNot(j)'
        BY <1>2, <2>6 DEF OthersWriteNot
      <4> QED
        BY <2>6, <4>1, <4>2 DEF Zeroed
    <3> QED
      BY <1>2, <2>6, <3>1, <3>2
  <2> QED
    BY <2>3, <2>5, <2>6 DEF Zeroed
<1> QED
  BY <1>5, <1>6, <1>7 DEF ControlInv

LEMMA LoseKeeps ==
  ASSUME ControlInv, Lose
  PROVE  ControlInv'
<1>1. /\ lost' = lost + 1 /\ UNCHANGED <<direct, locked, stop, call, device, contested>>
      /\ \/ downlink # <<>> /\ downlink' = Tail(downlink)
         \/ downlink' = downlink
  BY DEF Lose, history
<1>2. downlink' \in Seq(Frame) /\ (direct => downlink' = <<>>)
      /\ \A i \in DOMAIN downlink' : \E j \in DOMAIN downlink : downlink'[i] = downlink[j]
  <2>1. CASE downlink # <<>> /\ downlink' = Tail(downlink)
    BY <2>1, Tailed DEF ControlInv, Frames
  <2>2. CASE downlink' = downlink
    BY <2>2 DEF ControlInv, Frames, Typed
  <2> QED
    BY <1>1, <2>1, <2>2
<1>3. Typed' /\ StopOnce'
  BY <1>1, <1>2 DEF ControlInv, Typed, StopOnce
<1>4. Frames'
  BY <1>1, <1>2 DEF ControlInv, Frames
<1>5. LastWord'
  BY <1>1 DEF ControlInv, Typed, LastWord, Quiet
<1> QED
  BY <1>3, <1>4, <1>5 DEF ControlInv

---------------------------------------------------------------------------
LEMMA LockKeeps ==
  ASSUME ControlInv, Lock
  PROVE  ControlInv'
<1>1. /\ stop = "safing" /\ call[Stop].pc = "done" /\ locked' = TRUE /\ stop' = "over"
      /\ UNCHANGED <<direct, call, device, downlink, lost, contested>>
  BY DEF Lock, MayLock, history, bounds
<1>2. Typed' /\ StopOnce' /\ Frames'
  BY <1>1 DEF ControlInv, Typed, StopOnce, Frames
<1>3. (Quiet' => Quiet) /\ Zeroed' = Zeroed
  BY <1>1 DEF Quiet, Zeroed, OthersWriteNot
<1>4. LastWord'
  BY <1>1, <1>3 DEF ControlInv, LastWord
<1> QED
  BY <1>2, <1>4 DEF ControlInv

LEMMA ReleaseKeeps ==
  ASSUME ControlInv, Release
  PROVE  ControlInv'
<1>1. /\ locked /\ locked' = FALSE
      /\ UNCHANGED <<direct, stop, call, device, downlink, lost, contested>>
  BY DEF Release, history, bounds
<1>2. Typed' /\ StopOnce' /\ Frames'
  BY <1>1 DEF ControlInv, Typed, StopOnce, Frames
<1>3. ~Quiet'
  BY <1>1 DEF ControlInv, StopOnce, Quiet
<1> QED
  BY <1>2, <1>3 DEF ControlInv, LastWord

LEMMA CrashKeeps ==
  ASSUME ControlInv, Crash
  PROVE  ControlInv'
<1>1. /\ call' = [c \in Call |->
                   IF call[c].pc = "ready" THEN call[c] ELSE [call[c] EXCEPT !.pc = "done"]]
      /\ stop' = IF stop = "safing" THEN "over" ELSE stop
      /\ UNCHANGED <<direct, locked, device, downlink, lost, contested>>
  BY DEF Crash, history
<1>2. Stop \in Call /\ call \in [Call -> CallState]
  BY ControlAssumption DEF ControlAssumption, ControlInv, Typed
<1>3. call' \in [Call -> CallState]
  BY <1>1, <1>2 DEF CallState
<1>4. \A c \in Call :
        /\ call'[c].key = call[c].key /\ call'[c].value = call[c].value
        /\ call'[c].pc = IF call[c].pc = "ready" THEN "ready" ELSE "done"
  BY <1>1, <1>2 DEF CallState
<1>5. Typed'
  BY <1>1, <1>3 DEF ControlInv, Typed
<1>6. StopOnce'
  BY <1>1, <1>2, <1>4 DEF ControlInv, StopOnce
<1>7. Frames'
  BY <1>1, <1>4, FrameType DEF ControlInv, Frames
<1>8. LastWord'
  <2>1. SUFFICES ASSUME Quiet'
                 PROVE  /\ \A d \in Call \ {Stop} : call'[d].pc # "write"
                        /\ call'[Stop].pc \notin {"ready", "check", "write"} => Zeroed'
    BY DEF LastWord
  <2>2. Quiet /\ call[Stop].pc = "done"
    BY <1>1, <2>1 DEF Quiet, ControlInv, StopOnce, Typed
  <2>3. Zeroed
    BY <2>2 DEF ControlInv, LastWord
  <2>4. Zeroed'
    BY <1>1, <2>3 DEF Zeroed, OthersWriteNot
  <2> QED
    BY <1>4, <2>4
<1> QED
  BY <1>5, <1>6, <1>7, <1>8 DEF ControlInv

---------------------------------------------------------------------------
LEMMA ControlNext ==
  ASSUME ControlInv, [Next]_vars
  PROVE  ControlInv'
<1>1. CASE UNCHANGED vars
  BY <1>1, AnswersKeep DEF vars, history, bounds
<1>2. ASSUME NEW c \in Call, Start(c)
      PROVE  ControlInv'
  BY <1>2, StartKeeps
<1>3. ASSUME NEW c \in Call, CallStep(c)
      PROVE  ControlInv'
  BY <1>3, CheckKeeps, LandsKeeps, ReadsBackKeeps, PublishKeeps, RegisterKeeps, InsertKeeps,
     AttachKeeps DEF CallStep
<1>4. ASSUME NEW c \in Call, ConnectionFails(c) \/ PublishFails(c) \/ InsertFails(c)
      PROVE  ControlInv'
  BY <1>4, ConnectionFailsKeeps, PublishFailsKeeps, InsertFailsKeeps
<1>5. ASSUME (\E i \in DOMAIN uplink : Handle(i)) \/ Expire \/ Sweep \/ SettleFails
      PROVE  ControlInv'
  <2>1. UNCHANGED <<direct, locked, stop, call, device, downlink, lost, contested>>
    BY <1>5 DEF Handle, Expire, Sweep, SettleFails, history, bounds
  <2> QED
    BY <2>1, AnswersKeep
<1> QED
  BY <1>1, <1>2, <1>3, <1>4, <1>5, PressStopKeeps, DeliverKeeps, LoseKeeps, LockKeeps,
     ReleaseKeeps, CrashKeeps DEF Next

LEMMA ControlInvariant == Spec => []ControlInv
<1>1. Init => ControlInv
  BY ControlInit
<1>2. ControlInv /\ [Next]_vars => ControlInv'
  BY ControlNext
<1> QED
  BY <1>1, <1>2, PTL DEF Spec

(***************************************************************************)
(* setLock (routers/control.ts:122-124) for any number of calls, registers,  *)
(* values, lost frames and process ends: a lock that is set after an         *)
(* undisturbed safe-state write finds the register at 0 once the gateway has *)
(* passed everything on.                                                     *)
(***************************************************************************)
THEOREM ControlStopStops == Spec => []StopStops
<1>1. ASSUME ControlInv, locked, downlink = <<>>, lost = 0, ~contested
      PROVE  device[SafeKey] = 0
  <2>1. Zeroed
    BY <1>1 DEF ControlInv, StopOnce, LastWord, Quiet
  <2>2. DOMAIN downlink = {}
    BY <1>1, EmptySeq
  <2> QED
    BY <2>1, <2>2 DEF Zeroed
<1>2. ControlInv => StopStops
  BY <1>1 DEF StopStops
<1> QED
  BY <1>2, ControlInvariant, PTL

---------------------------------------------------------------------------
(***************************************************************************)
(* The audit trail.  What is inductive says more than AlwaysLogged: a call   *)
(* gets behind its insert with a row only, and a row is never taken back.    *)
(***************************************************************************)
Recorded(c) ==
  /\ call[c].pc = "insert" => call[c].status # "none"
  /\ call[c].pc \in {"attach", "done"} => row[c] # "none"
Smooth == cuts = 0 /\ (direct \/ lost = 0)
LoggedInv ==
  /\ call \in [Call -> CallState] /\ row \in [Call -> Status]
  /\ direct \in BOOLEAN /\ lost \in Nat /\ cuts \in Nat
  /\ Smooth => \A c \in Call : Recorded(c)

\* Nothing takes a row back, and nobody gets anywhere.
LEMMA RowsKeepLogged ==
  ASSUME LoggedInv, UNCHANGED <<direct, call>>, lost' \in {lost, lost + 1}, cuts' \in {cuts, cuts + 1},
         row' \in [Call -> Status], \A c \in Call : row[c] # "none" => row'[c] # "none"
  PROVE  LoggedInv'
<1>1. Smooth' => Smooth
  BY DEF LoggedInv, Smooth
<1> QED
  BY <1>1 DEF LoggedInv, Recorded

\* A call that goes somewhere else than behind its insert.
LEMMA StepKeepsLogged ==
  ASSUME LoggedInv, NEW c \in Call, NEW pc \in {"check", "write", "read", "register", "verify"},
         call' \in [Call -> CallState], call'[c].pc = pc, \A d \in Call : d # c => call'[d] = call[d],
         UNCHANGED <<direct, row, lost, cuts>>
  PROVE  LoggedInv'
BY DEF LoggedInv, Recorded, Smooth

\* A call that has something to report.
LEMMA ReportKeepsLogged ==
  ASSUME LoggedInv, NEW c \in Call, NEW status \in Status \ {"none"}, Reports(c, status),
         UNCHANGED <<direct, row, cuts>>, lost' \in {lost, lost + 1}
  PROVE  LoggedInv'
<1>1. call' = [call EXCEPT ![c].pc = "insert", ![c].status = status]
  BY DEF Reports
<1>2. call' \in [Call -> CallState] /\ call'[c].pc = "insert" /\ call'[c].status = status
      /\ \A d \in Call : d # c => call'[d] = call[d]
  BY <1>1 DEF LoggedInv, CallState
<1>3. Smooth' => Smooth
  BY DEF LoggedInv, Smooth
<1> QED
  BY <1>2, <1>3 DEF LoggedInv, Recorded

\* A call that moves to pc.
LEMMA GoesTo ==
  ASSUME LoggedInv, NEW c \in Call,
         NEW pc \in {"write", "read", "register", "verify", "insert", "attach", "done"}, Goes(c, pc)
  PROVE  /\ call' \in [Call -> CallState] /\ call'[c].pc = pc
         /\ \A d \in Call : d # c => call'[d] = call[d]
BY DEF LoggedInv, Goes, CallState

LEMMA CallStepKeepsLogged ==
  ASSUME LoggedInv, NEW c \in Call, CallStep(c)
  PROVE  LoggedInv'
<1>1. CASE Check(c)
  <2>1. UNCHANGED <<direct, row, lost, cuts>>
    BY <1>1 DEF Check, bounds
  <2>2. Reports(c, "failed") \/ Goes(c, "write")
    BY <1>1 DEF Check
  <2> QED
    BY <2>1, <2>2, GoesTo, StepKeepsLogged, ReportKeepsLogged DEF Status
<1>2. CASE Lands(c)
  BY <1>2, GoesTo, StepKeepsLogged DEF Lands, bounds
<1>3. CASE ReadsBack(c)
  BY <1>3, ReportKeepsLogged DEF ReadsBack, Verdict, Status, bounds
<1>4. CASE Publish(c)
  BY <1>4, GoesTo, StepKeepsLogged DEF Publish, bounds
<1>5. CASE Register(c)
  BY <1>5, ReportKeepsLogged DEF Register, Status, bounds
<1>6. CASE Insert(c)
  <2>1. /\ call[c].pc = "insert" /\ row' = [row EXCEPT ![c] = call[c].status]
        /\ Goes(c, IF call[c].status = "sent" THEN "attach" ELSE "done")
        /\ UNCHANGED <<direct, lost, cuts>>
    BY <1>6 DEF Insert, bounds
  <2>2. /\ call' \in [Call -> CallState] /\ call'[c].pc \in {"attach", "done"}
        /\ \A d \in Call : d # c => call'[d] = call[d]
    BY <2>1, GoesTo
  <2>3. row' \in [Call -> Status] /\ row'[c] = call[c].status
        /\ \A d \in Call : d # c => row'[d] = row[d]
    BY <2>1 DEF LoggedInv, CallState
  <2> QED
    BY <2>1, <2>2, <2>3 DEF LoggedInv, Recorded, Smooth
<1>7. CASE Attach(c)
  <2>1. /\ call[c].pc = "attach" /\ Goes(c, "done") /\ UNCHANGED <<direct, row, lost, cuts>>
    BY <1>7 DEF Attach, bounds
  <2> QED
    BY <2>1, GoesTo DEF LoggedInv, Recorded, Smooth
<1> QED
  BY <1>1, <1>2, <1>3, <1>4, <1>5, <1>6, <1>7 DEF CallStep

\* The answers and the sweep settle rows; they take none back.
LEMMA AnswersKeepLogged ==
  ASSUME LoggedInv, (\E i \in DOMAIN uplink : Handle(i)) \/ Expire \/ Sweep \/ SettleFails
  PROVE  LoggedInv'
<1>1. ASSUME NEW i \in DOMAIN uplink, Handle(i)
      PROVE  LoggedInv'
  <2>1. UNCHANGED <<direct, call, lost, cuts>>
    BY <1>1 DEF Handle, bounds
  <2>2. CASE row' = row
    BY <2>1, <2>2, RowsKeepLogged DEF LoggedInv
  <2>3. ASSUME NEW d, NEW status \in {"ok", "failed"}, row' = [row EXCEPT ![d] = status]
        PROVE  LoggedInv'
    BY <2>1, <2>3, RowsKeepLogged DEF LoggedInv, Status
  <2> QED
    BY <1>1, <2>2, <2>3 DEF Handle, Confirmed
<1>2. CASE Sweep
  <2>1. PICK expired : row' = Swept(expired)
    BY <1>2 DEF Sweep
  <2>2. row' \in [Call -> Status] /\ \A c \in Call : row[c] # "none" => row'[c] # "none"
    BY <2>1 DEF Swept, LoggedInv, Status
  <2> QED
    BY <1>2, <2>2, RowsKeepLogged DEF Sweep, bounds
<1>3. CASE Expire \/ SettleFails
  BY <1>3, RowsKeepLogged DEF Expire, SettleFails, LoggedInv, bounds
<1> QED
  BY <1>1, <1>2, <1>3

LEMMA FailureKeepsLogged ==
  ASSUME LoggedInv, NEW c \in Call, ConnectionFails(c) \/ PublishFails(c) \/ InsertFails(c)
  PROVE  LoggedInv'
<1>1. CASE ConnectionFails(c)
  BY <1>1, ReportKeepsLogged DEF ConnectionFails, OnFailure, Status
<1>2. CASE PublishFails(c)
  <2>1. ~direct' /\ lost' # 0 /\ lost' \in Nat /\ UNCHANGED <<direct, row, cuts>>
    BY <1>2 DEF PublishFails, LoggedInv
  <2>2. call' \in [Call -> CallState]
    BY <1>2, GoesTo DEF PublishFails
  <2> QED
    BY <2>1, <2>2 DEF LoggedInv, Smooth
<1>3. CASE InsertFails(c)
  <2>1. cuts' # 0 /\ cuts' \in Nat /\ UNCHANGED <<direct, row, lost>>
    BY <1>3 DEF InsertFails, LoggedInv
  <2>2. call' \in [Call -> CallState]
    BY <1>3, GoesTo DEF InsertFails
  <2> QED
    BY <2>1, <2>2 DEF LoggedInv, Smooth
<1> QED
  BY <1>1, <1>2, <1>3

LEMMA BeginKeepsLogged ==
  ASSUME LoggedInv, NEW c \in Call, NEW k \in Key, NEW v \in Value, Begins(c, k, v),
         UNCHANGED <<direct, row, lost, cuts>>
  PROVE  LoggedInv'
<1>1. call' = [call EXCEPT ![c] = [pc |-> "check", key |-> k, value |-> v, status |-> "none"]]
  BY DEF Begins
<1>2. /\ call' \in [Call -> CallState] /\ call'[c].pc = "check"
      /\ \A d \in Call : d # c => call'[d] = call[d]
  BY <1>1 DEF LoggedInv, CallState, Status
<1> QED
  BY <1>2, StepKeepsLogged

LEMMA LoggedNext ==
  ASSUME LoggedInv, [Next]_vars
  PROVE  LoggedInv'
<1>1. CASE UNCHANGED vars
  BY <1>1, RowsKeepLogged DEF vars, bounds, LoggedInv
<1>2. ASSUME NEW c \in Call, Start(c)
      PROVE  LoggedInv'
  BY <1>2, BeginKeepsLogged DEF Start, bounds
<1>3. CASE PressStop
  BY <1>3, BeginKeepsLogged, ControlAssumption DEF PressStop, bounds, ControlAssumption
<1>4. CASE Deliver \/ Lose \/ Lock \/ Release
  BY <1>4, RowsKeepLogged DEF Deliver, Lose, Lock, Release, bounds, LoggedInv
<1>5. CASE Crash
  <2>1. cuts' # 0 /\ cuts' \in Nat /\ UNCHANGED <<direct, row, lost>>
    BY <1>5 DEF Crash, LoggedInv
  <2>2. call' \in [Call -> CallState]
    BY <1>5 DEF Crash, LoggedInv, CallState
  <2> QED
    BY <2>1, <2>2 DEF LoggedInv, Smooth
<1> QED
  BY <1>1, <1>2, <1>3, <1>4, <1>5, CallStepKeepsLogged, AnswersKeepLogged, FailureKeepsLogged
     DEF Next

(***************************************************************************)
(* executeAndLog (execute.ts:284) for any number of calls, answers, lost     *)
(* frames and process ends: whoever is through with a write left its row.    *)
(***************************************************************************)
THEOREM ControlAlwaysLogged == Spec => []AlwaysLogged
<1>1. Init => LoggedInv
  BY ControlAssumption DEF ControlAssumption, Init, LoggedInv, Recorded, CallState, Status
<1>2. LoggedInv /\ [Next]_vars => LoggedInv'
  BY LoggedNext
<1>3. LoggedInv => AlwaysLogged
  BY DEF LoggedInv, AlwaysLogged, Recorded, Smooth
<1> QED
  BY <1>1, <1>2, <1>3, PTL DEF Spec

---------------------------------------------------------------------------
(***************************************************************************)
(* Sequences: what a step leaves of one comes from it.                       *)
(***************************************************************************)
From(t, s) == \A i \in DOMAIN t : \E j \in DOMAIN s : t[i] = s[j]

LEMMA SeqFacts ==
  ASSUME NEW S, NEW s \in Seq(S)
  PROVE  DOMAIN s = 1..Len(s) /\ Len(s) \in Nat /\ \A i \in DOMAIN s : s[i] \in S
BY LenProperties, ElementOfSeq

LEMMA TailFrom ==
  ASSUME NEW S, NEW s \in Seq(S), s # <<>>
  PROVE  Tail(s) \in Seq(S) /\ From(Tail(s), s)
<1>1. /\ Tail(s) \in Seq(S) /\ Len(Tail(s)) = Len(s) - 1
      /\ \A i \in 1..Len(Tail(s)) : Tail(s)[i] = s[i + 1]
  BY HeadTailProperties
<1>2. DOMAIN Tail(s) = 1..Len(Tail(s)) /\ DOMAIN s = 1..Len(s) /\ Len(s) \in Nat
  BY <1>1, LenProperties
<1>3. \A i \in 1..Len(Tail(s)) : i + 1 \in 1..Len(s)
  BY <1>1, <1>2
<1> QED
  BY <1>1, <1>2, <1>3 DEF From

LEMMA AppendFrom ==
  ASSUME NEW S, NEW s \in Seq(S), NEW e \in S
  PROVE  /\ Append(s, e) \in Seq(S)
         /\ \A i \in DOMAIN Append(s, e) :
              Append(s, e)[i] = e \/ \E j \in DOMAIN s : Append(s, e)[i] = s[j]
<1>1. /\ Append(s, e) \in Seq(S) /\ Len(Append(s, e)) = Len(s) + 1
      /\ \A i \in 1..Len(s) : Append(s, e)[i] = s[i]
      /\ Append(s, e)[Len(s) + 1] = e
  BY AppendProperties
<1>2. DOMAIN Append(s, e) = 1..Len(s) + 1 /\ DOMAIN s = 1..Len(s) /\ Len(s) \in Nat
  BY <1>1, LenProperties
<1> QED
  BY <1>1, <1>2

LEMMA SubSeqFrom ==
  ASSUME NEW S, NEW s \in Seq(S), NEW m \in Nat \ {0}, NEW n \in 0..Len(s)
  PROVE  SubSeq(s, m, n) \in Seq(S) /\ From(SubSeq(s, m, n), s)
<1>1. DOMAIN s = 1..Len(s) /\ Len(s) \in Nat /\ \A i \in DOMAIN s : s[i] \in S
  BY SeqFacts
<1>2. \A i \in m..n : s[i] \in S
  BY <1>1
<1>3. /\ SubSeq(s, m, n) \in Seq(S)
      /\ Len(SubSeq(s, m, n)) = IF m <= n THEN n - m + 1 ELSE 0
      /\ \A i \in 1..n - m + 1 : SubSeq(s, m, n)[i] = s[m + i - 1]
  BY <1>2, SubSeqProperties
<1>4. DOMAIN SubSeq(s, m, n) = 1..Len(SubSeq(s, m, n))
  BY <1>3, LenProperties
<1>5. ASSUME NEW i \in DOMAIN SubSeq(s, m, n)
      PROVE  \E j \in DOMAIN s : SubSeq(s, m, n)[i] = s[j]
  <2>1. i \in 1..n - m + 1 /\ m + i - 1 \in DOMAIN s
    BY <1>1, <1>3, <1>4
  <2> QED
    BY <1>3, <2>1
<1> QED
  BY <1>3, <1>5 DEF From

LEMMA RemoveAtFrom ==
  ASSUME NEW S, NEW s \in Seq(S), NEW i \in DOMAIN s
  PROVE  RemoveAt(s, i) \in Seq(S) /\ From(RemoveAt(s, i), s)
<1> DEFINE a == SubSeq(s, 1, i - 1)
           b == SubSeq(s, i + 1, Len(s))
<1>1. i \in 1..Len(s) /\ Len(s) \in Nat
  BY SeqFacts
<1>2. a \in Seq(S) /\ From(a, s)
  BY <1>1, SubSeqFrom
<1>3. b \in Seq(S) /\ From(b, s)
  BY <1>1, SubSeqFrom
<1>4. RemoveAt(s, i) = a \o b
  BY DEF RemoveAt
<1> HIDE DEF a, b
<1>5. /\ a \o b \in Seq(S) /\ Len(a \o b) = Len(a) + Len(b)
      /\ \A j \in 1..Len(a) + Len(b) :
           (a \o b)[j] = IF j <= Len(a) THEN a[j] ELSE b[j - Len(a)]
  BY <1>2, <1>3, ConcatProperties
<1>6. /\ DOMAIN (a \o b) = 1..Len(a) + Len(b)
      /\ DOMAIN a = 1..Len(a) /\ DOMAIN b = 1..Len(b) /\ Len(a) \in Nat /\ Len(b) \in Nat
  BY <1>2, <1>3, <1>5, LenProperties
<1>7. ASSUME NEW j \in DOMAIN (a \o b)
      PROVE  \E k \in DOMAIN s : (a \o b)[j] = s[k]
  <2>1. CASE j <= Len(a)
    BY <1>2, <1>5, <1>6, <2>1 DEF From
  <2>2. CASE j > Len(a)
    <3>1. j - Len(a) \in DOMAIN b /\ (a \o b)[j] = b[j - Len(a)]
      BY <1>5, <1>6, <2>2
    <3> QED
      BY <1>3, <3>1 DEF From
  <2> QED
    BY <1>6, <2>1, <2>2
<1> QED
  BY <1>4, <1>5, <1>7 DEF From

---------------------------------------------------------------------------
LEMMA LeastOne ==
  ASSUME NEW S, S \subseteq Nat, S # {}
  PROVE  \E x \in S : \A y \in S : x <= y
<1> DEFINE R == OpToRel(<, Nat)
<1>1. \A y \in Nat, x \in Nat : <<y, x>> \in R <=> y < x
  BY DEF OpToRel
<1>2. IsWellFoundedOn(R, Nat)
  BY NatLessThanWellFounded
<1> HIDE DEF R
<1>3. PICK x \in S : \A y \in S : ~ (<<y, x>> \in R)
  BY <1>2, WFMin
<1>4. ASSUME NEW y \in S PROVE x <= y
  <2>1. x \in Nat /\ y \in Nat
    OBVIOUS
  <2>2. ~ (y < x)
    BY <1>1, <1>3, <2>1
  <2> QED
    BY <2>1, <2>2
<1> QED
  BY <1>4

\* The entry that an answer, an expiry or a failed update takes.
LEMMA Alives ==
  ASSUME outstanding \in Seq(Entry)
  PROVE  /\ Alive \in Seq(Entry) /\ From(Alive, outstanding)
         /\ Matching \subseteq DOMAIN outstanding
<1>1. DOMAIN outstanding = 1..Len(outstanding) /\ Len(outstanding) \in Nat
  BY SeqFacts
<1>2. Matching \subseteq DOMAIN outstanding
  BY DEF Matching, Live
<1>3. CASE Live = {}
  <2>1. Alive = <<>>
    BY <1>3 DEF Alive
  <2>2. DOMAIN Alive = {}
    BY <2>1
  <2> QED
    BY <1>2, <2>1, <2>2, EmptySeq DEF From
<1>4. CASE Live # {}
  <2>1. PICK m \in Live : \A j \in Live : m <= j
    <3>1. Live \subseteq Nat
      BY <1>1 DEF Live
    <3> QED
      BY <1>4, <3>1, LeastOne
  <2>2. Matching # {}
    BY <2>1 DEF Matching
  <2> DEFINE first == CHOOSE i \in Matching : TRUE
  <2>3. first \in Matching
    BY <2>2
  <2>4. Alive = SubSeq(outstanding, first, Len(outstanding))
    BY <1>4 DEF Alive
  <2> HIDE DEF first
  <2>5. first \in Nat \ {0} /\ Len(outstanding) \in 0..Len(outstanding)
    BY <1>1, <1>2, <2>3
  <2> QED
    BY <1>2, <2>4, <2>5, SubSeqFrom
<1> QED
  BY <1>3, <1>4

LEMMA BeginsTyped ==
  ASSUME TypeOK, NEW c \in Call, NEW k \in Key, NEW v \in Value, Begins(c, k, v)
  PROVE  /\ call' \in [Call -> CallState] /\ held' \subseteq Call /\ overlapped' \in BOOLEAN
         /\ call'[c] = [pc |-> "check", key |-> k, value |-> v, status |-> "none"]
         /\ \A d \in Call : d # c => call'[d] = call[d]
<1>1. call' = [call EXCEPT ![c] = [pc |-> "check", key |-> k, value |-> v, status |-> "none"]]
  BY DEF Begins
<1>2. /\ call' \in [Call -> CallState]
      /\ call'[c] = [pc |-> "check", key |-> k, value |-> v, status |-> "none"]
      /\ \A d \in Call : d # c => call'[d] = call[d]
  BY <1>1 DEF TypeOK, CallState, Status
<1>3. held' \subseteq Call
  BY DEF Begins, TypeOK
<1>4. overlapped' \in BOOLEAN
  BY DEF Begins
<1> QED
  BY <1>2, <1>3, <1>4

LEMMA CallsTyped ==
  ASSUME TypeOK, NEW c \in Call
  PROVE  /\ \A pc \in {"write", "read", "register", "verify", "insert", "attach", "done"} :
              Goes(c, pc) => call' \in [Call -> CallState]
         /\ \A status \in Status : Reports(c, status) => call' \in [Call -> CallState]
<1>1. ASSUME NEW pc \in {"write", "read", "register", "verify", "insert", "attach", "done"}, Goes(c, pc)
      PROVE  call' \in [Call -> CallState]
  BY <1>1 DEF TypeOK, CallState, Goes
<1>2. ASSUME NEW status \in Status, Reports(c, status)
      PROVE  call' \in [Call -> CallState]
  BY <1>2 DEF TypeOK, CallState, Reports
<1> QED
  BY <1>1, <1>2

LEMMA TakesTyped ==
  ASSUME TypeOK, NEW c \in Call, Takes(c)
  PROVE  device' \in [Key -> Value] /\ landed' \subseteq Call /\ held' \subseteq Call
BY DEF TypeOK, CallState, Takes, Shown

LEMMA CallStepTyped ==
  ASSUME TypeOK, NEW c \in Call, CallStep(c)
  PROVE  TypeOK'
<1>1. CASE Check(c)
  <2>1. call' \in [Call -> CallState]
    BY <1>1, CallsTyped DEF Check, Status
  <2>2. contested' \in BOOLEAN
    BY <1>1 DEF Check, TypeOK
  <2> QED
    BY <1>1, <2>1, <2>2 DEF Check, TypeOK, bounds
<1>2. CASE Lands(c)
  <2>1. call' \in [Call -> CallState]
    BY <1>2, CallsTyped DEF Lands
  <2> QED
    BY <1>2, <2>1, TakesTyped DEF Lands, TypeOK, bounds
<1>3. CASE ReadsBack(c)
  <2>1. call' \in [Call -> CallState]
    BY <1>3, CallsTyped DEF ReadsBack, Verdict, Status
  <2> QED
    BY <1>3, <2>1 DEF ReadsBack, TypeOK, history, bounds
<1>4. CASE Publish(c)
  <2>1. call' \in [Call -> CallState]
    BY <1>4, CallsTyped DEF Publish
  <2>2. FrameOf(c) \in Frame
    BY <1>4 DEF Publish, FrameOf, Frame
  <2>3. downlink' \in Seq(Frame)
    <3>1. downlink \in Seq(Frame) /\ downlink' = Append(downlink, FrameOf(c))
      BY <1>4 DEF Publish, TypeOK
    <3> QED
      BY <2>2, <3>1, AppendFrom
  <2> QED
    BY <1>4, <2>1, <2>3 DEF Publish, TypeOK, history, bounds
<1>5. CASE Register(c)
  <2>1. call' \in [Call -> CallState]
    BY <1>5, CallsTyped DEF Register, Status
  <2>2. [by |-> c, command |-> None, expired |-> FALSE] \in Entry
    BY DEF Entry
  <2>3. outstanding' \in Seq(Entry)
    <3>1. /\ outstanding \in Seq(Entry)
          /\ outstanding' = Append(outstanding, [by |-> c, command |-> None, expired |-> FALSE])
      BY <1>5 DEF Register, TypeOK
    <3> QED
      BY <2>2, <3>1, AppendFrom
  <2> QED
    BY <1>5, <2>1, <2>3 DEF Register, TypeOK, history, bounds
<1>6. CASE Insert(c)
  <2>1. call' \in [Call -> CallState]
    BY <1>6, CallsTyped DEF Insert
  <2>2. row' \in [Call -> Status]
    BY <1>6 DEF Insert, TypeOK, CallState
  <2> QED
    BY <1>6, <2>1, <2>2 DEF Insert, TypeOK, history, bounds
<1>7. CASE Attach(c)
  <2>1. call' \in [Call -> CallState]
    BY <1>7, CallsTyped DEF Attach
  <2>2. outstanding' \in Seq(Entry)
    <3>1. CASE outstanding' = outstanding
      BY <3>1 DEF TypeOK
    <3>2. ASSUME NEW i \in Attachable, outstanding' = [outstanding EXCEPT ![i].command = c]
          PROVE  outstanding' \in Seq(Entry)
      <4>1. i \in 1..Len(outstanding) /\ outstanding[i] \in Entry
        BY <3>2, SeqFacts DEF Attachable, Unattached, TypeOK
      <4>2. [outstanding[i] EXCEPT !.command = c] \in Entry
        BY <4>1 DEF Entry
      <4> QED
        BY <3>2, <4>1, <4>2, ExceptSeq DEF TypeOK
    <3> QED
      BY <1>7, <3>1, <3>2 DEF Attach
  <2> QED
    BY <1>7, <2>1, <2>2 DEF Attach, TypeOK, history, bounds
<1> QED
  BY <1>1, <1>2, <1>3, <1>4, <1>5, <1>6, <1>7 DEF CallStep

LEMMA FailureTyped ==
  ASSUME TypeOK, NEW c \in Call, ConnectionFails(c) \/ PublishFails(c) \/ InsertFails(c)
  PROVE  TypeOK'
<1>1. MaxLost \in Nat /\ MaxCuts \in Nat
  BY ControlAssumption DEF ControlAssumption
<1>2. CASE ConnectionFails(c)
  <2>1. call' \in [Call -> CallState]
    BY <1>2, CallsTyped DEF ConnectionFails, OnFailure, Status
  <2>2. lost' \in 0..MaxLost
    BY <1>1, <1>2 DEF ConnectionFails, TypeOK
  <2> QED
    BY <1>2, <2>1, <2>2 DEF ConnectionFails, TypeOK, history
<1>3. CASE PublishFails(c)
  <2>1. call' \in [Call -> CallState]
    BY <1>3, CallsTyped DEF PublishFails
  <2>2. lost' \in 0..MaxLost
    BY <1>1, <1>3 DEF PublishFails, TypeOK
  <2>3. FrameOf(c) \in Frame
    BY <1>3 DEF PublishFails, FrameOf, Frame
  <2>4. downlink' \in Seq(Frame)
    <3>1. downlink \in Seq(Frame)
      BY DEF TypeOK
    <3>2. Append(downlink, FrameOf(c)) \in Seq(Frame)
      BY <2>3, <3>1, AppendFrom
    <3>3. downlink' = downlink \/ downlink' = Append(downlink, FrameOf(c))
      BY <1>3 DEF PublishFails
    <3> QED
      BY <3>1, <3>2, <3>3
  <2> QED
    BY <1>3, <2>1, <2>2, <2>4 DEF PublishFails, TypeOK, history
<1>4. CASE InsertFails(c)
  <2>1. call' \in [Call -> CallState]
    BY <1>4, CallsTyped DEF InsertFails
  <2>2. cuts' \in 0..MaxCuts
    BY <1>1, <1>4 DEF InsertFails, TypeOK
  <2> QED
    BY <1>4, <2>1, <2>2 DEF InsertFails, TypeOK, history
<1> QED
  BY <1>2, <1>3, <1>4

LEMMA AnswersTyped ==
  ASSUME TypeOK, (\E i \in DOMAIN uplink : Handle(i)) \/ Expire \/ Sweep \/ SettleFails
  PROVE  TypeOK'
<1>1. /\ MaxCuts \in Nat /\ DOMAIN outstanding = 1..Len(outstanding)
      /\ \A i \in DOMAIN outstanding : outstanding[i] \in Entry
      /\ Matching \subseteq DOMAIN outstanding
      /\ Alive \in Seq(Entry)
  BY SeqFacts, Alives, ControlAssumption DEF TypeOK, ControlAssumption
<1>2. ASSUME NEW i \in DOMAIN uplink, Handle(i)
      PROVE  TypeOK'
  <2>1. uplink' \in Seq(Answer)
    BY <1>2, RemoveAtFrom DEF Handle, TypeOK
  <2>2. CASE UNCHANGED <<row, outstanding, detached>>
    BY <1>2, <2>1, <2>2 DEF Handle, TypeOK, bounds
  <2>3. ASSUME NEW m \in Matching, outstanding' = RemoveAt(outstanding, m),
               row' = IF outstanding[m].command = None THEN row
                      ELSE [row EXCEPT ![outstanding[m].command] =
                              Confirmed(outstanding[m], uplink[i].value)],
               detached' = (detached \/ outstanding[m].command = None)
        PROVE  TypeOK'
    <3>1. outstanding' \in Seq(Entry)
      BY <1>1, <2>3, RemoveAtFrom DEF TypeOK
    <3>2. row' \in [Call -> Status]
      BY <2>3 DEF TypeOK, Confirmed, Status
    <3>3. detached' \in BOOLEAN
      BY <2>3 DEF TypeOK
    <3> QED
      BY <1>2, <2>1, <3>1, <3>2, <3>3 DEF Handle, TypeOK, bounds
  <2> QED
    BY <1>2, <2>2, <2>3 DEF Handle
<1>3. CASE Expire
  <2>1. PICK m \in Matching : outstanding' = [outstanding EXCEPT ![m].expired = TRUE]
    BY <1>3 DEF Expire
  <2>2. [outstanding[m] EXCEPT !.expired = TRUE] \in Entry
    BY <1>1 DEF Entry
  <2>3. outstanding' \in Seq(Entry)
    BY <1>1, <2>1, <2>2, ExceptSeq DEF TypeOK
  <2> QED
    BY <1>3, <2>3 DEF Expire, TypeOK, history, bounds
<1>4. CASE Sweep
  <2>1. PICK expired : /\ row' = Swept(expired)
                       /\ detached' = (detached \/ \E e \in expired : e.command = None)
    BY <1>4 DEF Sweep
  <2>2. row' \in [Call -> Status] /\ detached' \in BOOLEAN
    BY <2>1 DEF Swept, TypeOK, Status
  <2> QED
    BY <1>1, <1>4, <2>2 DEF Sweep, TypeOK, bounds
<1>5. CASE SettleFails
  <2>1. cuts' \in 0..MaxCuts
    BY <1>1, <1>5 DEF SettleFails, TypeOK
  <2>2. ASSUME NEW i \in DOMAIN uplink, uplink' = RemoveAt(uplink, i)
        PROVE  uplink' \in Seq(Answer)
    BY <2>2, RemoveAtFrom DEF TypeOK
  <2>3. uplink' \in Seq(Answer)
    BY <1>5, <2>2 DEF SettleFails, TypeOK
  <2>4. outstanding' \in Seq(Entry)
    <3>1. CASE outstanding' = Alive
      BY <1>1, <3>1
    <3>2. ASSUME NEW m \in Matching, outstanding' = RemoveAt(outstanding, m)
          PROVE  outstanding' \in Seq(Entry)
      BY <1>1, <3>2, RemoveAtFrom DEF TypeOK
    <3> QED
      BY <1>5, <3>1, <3>2 DEF SettleFails
  <2> QED
    BY <1>5, <2>1, <2>3, <2>4 DEF SettleFails, TypeOK, history
<1> QED
  BY <1>2, <1>3, <1>4, <1>5

LEMMA BusTyped ==
  ASSUME TypeOK, Deliver \/ Lose
  PROVE  TypeOK'
<1>1. CASE Deliver
  <2> DEFINE f == Head(downlink)
  <2>1. f \in Frame /\ downlink' \in Seq(Frame)
    BY <1>1, HeadTailProperties DEF Deliver, TypeOK
  <2>2. f.by \in Call
    BY <2>1 DEF Frame
  <2> HIDE DEF f
  <2>3. CASE Takes(f.by) /\ UNCHANGED uplink
    BY <1>1, <2>1, <2>2, <2>3, TakesTyped DEF Deliver, TypeOK, bounds
  <2>4. CASE /\ uplink' = Append(uplink, [by |-> f.by, value |-> device[call[f.by].key]])
             /\ UNCHANGED <<device, landed, held>>
    <3>1. [by |-> f.by, value |-> device[call[f.by].key]] \in Answer
      BY <2>2 DEF TypeOK, CallState, Answer
    <3>2. uplink' \in Seq(Answer)
      BY <2>4, <3>1, AppendFrom DEF TypeOK
    <3> QED
      BY <1>1, <2>1, <2>4, <3>2 DEF Deliver, TypeOK, bounds
  <2> QED
    BY <1>1, <2>3, <2>4 DEF Deliver, f
<1>2. CASE Lose
  <2>1. lost' \in 0..MaxLost
    BY <1>2, ControlAssumption DEF Lose, TypeOK, ControlAssumption
  <2>2. downlink' \in Seq(Frame) /\ uplink' \in Seq(Answer)
    BY <1>2, TailFrom DEF Lose, TypeOK
  <2> QED
    BY <1>2, <2>1, <2>2 DEF Lose, TypeOK, history
<1> QED
  BY <1>1, <1>2

LEMMA TypesNext ==
  ASSUME TypeOK, [Next]_vars
  PROVE  TypeOK'
<1>1. CASE UNCHANGED vars
  BY <1>1 DEF vars, history, bounds, TypeOK
<1>2. ASSUME NEW c \in Call, Start(c)
      PROVE  TypeOK'
  BY <1>2, BeginsTyped DEF Start, TypeOK, bounds
<1>3. CASE PressStop
  <2>1. Stop \in Call /\ SafeKey \in Key /\ 0 \in Value
    BY ControlAssumption DEF ControlAssumption
  <2>2. /\ call' \in [Call -> CallState] /\ held' \subseteq Call /\ overlapped' \in BOOLEAN
    BY <1>3, <2>1, BeginsTyped DEF PressStop
  <2>3. contested' \in BOOLEAN
    BY <1>3 DEF PressStop, TypeOK
  <2> QED
    BY <1>3, <2>2, <2>3 DEF PressStop, TypeOK, bounds
<1>4. CASE Lock \/ Release
  BY <1>4 DEF Lock, Release, TypeOK, history, bounds
<1>5. CASE Crash
  <2>1. call' \in [Call -> CallState]
    BY <1>5 DEF Crash, TypeOK, CallState
  <2>2. cuts' \in 0..MaxCuts
    BY <1>5, ControlAssumption DEF Crash, TypeOK, ControlAssumption
  <2>3. outstanding' \in Seq(Entry)
    BY <1>5, EmptySeq DEF Crash
  <2> QED
    BY <1>5, <2>1, <2>2, <2>3 DEF Crash, TypeOK, history
<1> QED
  BY <1>1, <1>2, <1>3, <1>4, <1>5, CallStepTyped, FailureTyped, AnswersTyped, BusTyped DEF Next

LEMMA ControlTyped ==
  ASSUME Init
  PROVE  TypeOK
<1>1. /\ Stop \in Call /\ SafeKey \in Key /\ 0 \in Value
      /\ MaxLost \in Nat /\ MaxCuts \in Nat
  BY ControlAssumption DEF ControlAssumption
<1>2. call \in [Call -> CallState] /\ row \in [Call -> Status]
  BY <1>1 DEF Init, CallState, Status
<1>3. downlink \in Seq(Frame) /\ uplink \in Seq(Answer) /\ outstanding \in Seq(Entry)
  BY EmptySeq DEF Init
<1>4. lost \in 0..MaxLost /\ cuts \in 0..MaxCuts
  BY <1>1 DEF Init
<1>5. direct \in BOOLEAN /\ locked \in BOOLEAN /\ {contested, detached, overlapped} \subseteq BOOLEAN
  BY DEF Init
<1> QED
  BY <1>2, <1>3, <1>4, <1>5 DEF Init, TypeOK

(***************************************************************************)
(* The calls, rows, frames, answers and registry entries of execute.ts and   *)
(* c30-outstanding.ts have the shapes TypeOK gives them, for any number of   *)
(* calls: in particular no call, answer or sweep ever files a status that    *)
(* the commands table does not know.                                         *)
(***************************************************************************)
THEOREM ControlTypeCorrect == Spec => []TypeOK
BY ControlTyped, TypesNext, PTL DEF Spec

---------------------------------------------------------------------------
(***************************************************************************)
(* A command that is reported ok took effect.  A call has traces while it is *)
(* under way and while a frame, an answer or an entry of it is about.  What  *)
(* an answer or a status says was so is in held; and on a device that is     *)
(* commanded by one call after the other only one call has traces, so that   *)
(* an answer meets the entry of its own call and settles its own row.        *)
(***************************************************************************)
Traces(c) ==
  \/ call[c].pc \notin {"ready", "done"}
  \/ \E i \in DOMAIN downlink : downlink[i].by = c
  \/ \E i \in DOMAIN uplink : uplink[i].by = c
  \/ \E i \in DOMAIN outstanding : outstanding[i].by = c
Begun == \A c \in Call : Traces(c) => call[c].pc # "ready"
TrueAnswer(a) == a.value = call[a.by].value => a.by \in held
Witnessed ==
  /\ \A c \in Call : call[c].pc # "ready" /\ device[call[c].key] = call[c].value => c \in held
  /\ \A i \in DOMAIN uplink : TrueAnswer(uplink[i])
  /\ \A c \in Call : call[c].status = "ok" => c \in held
OwnRow(e) == e.command \in {None, e.by}
Apart ==
  /\ \A c, d \in Call : Traces(c) /\ Traces(d) => c = d
  /\ \A i \in DOMAIN outstanding : OwnRow(outstanding[i])
  /\ OkVerified
VerifiedInv == TypeOK /\ Begun /\ Witnessed /\ (~overlapped => Apart)

\* What is in t is of somebody in O or of somebody who has something in s.
Owned(t, s, O) == \A i \in DOMAIN t : t[i].by \in O \/ \E j \in DOMAIN s : t[i].by = s[j].by

LEMMA OwnedFrom ==
  ASSUME NEW t, NEW s, From(t, s), NEW O
  PROVE  Owned(t, s, O)
BY DEF From, Owned

LEMMA OwnedItself ==
  ASSUME NEW s, NEW O
  PROVE  Owned(s, s, O)
BY DEF Owned

LEMMA TracesFewer ==
  ASSUME NEW O, \A c \in O : Traces(c),
         \A c \in Call : call'[c].pc \notin {"ready", "done"} => call[c].pc \notin {"ready", "done"},
         Owned(downlink', downlink, O), Owned(uplink', uplink, O),
         Owned(outstanding', outstanding, O)
  PROVE  \A c \in Call : Traces(c)' => Traces(c)
BY DEF Traces, Owned

\* The typical step: no new traces, and nothing is said that is not so.
SameOrders ==
  \A c \in Call : /\ call'[c].key = call[c].key /\ call'[c].value = call[c].value
                  /\ call'[c].pc = "ready" <=> call[c].pc = "ready"

LEMMA VerifiedKept ==
  ASSUME VerifiedInv, TypeOK', SameOrders, \A c \in Call : Traces(c)' => Traces(c),
         UNCHANGED overlapped, UNCHANGED <<device, held>> \/ \E c \in Call : Takes(c),
         \A c \in Call : call'[c].status = "ok" => call[c].status = "ok" \/ c \in held,
         \A i \in DOMAIN uplink' : TrueAnswer(uplink'[i]),
         ~overlapped => /\ \A i \in DOMAIN outstanding' : OwnRow(outstanding'[i])
                        /\ \A c \in Call : row'[c] = "ok" => row[c] = "ok" \/ c \in held
  PROVE  VerifiedInv'
<1>1. held \subseteq held'
  BY DEF Takes
<1>2. ASSUME NEW c \in Call, call'[c].pc # "ready", device'[call'[c].key] = call'[c].value
      PROVE  c \in held'
  <2>1. call[c].pc # "ready" /\ device'[call[c].key] = call[c].value
    BY <1>2 DEF SameOrders
  <2> QED
    BY <2>1 DEF VerifiedInv, Witnessed, Takes, Shown
<1>3. ASSUME NEW i \in DOMAIN uplink'
      PROVE  TrueAnswer(uplink[i])'
  <2>1. uplink'[i] \in Answer
    BY SeqFacts DEF TypeOK
  <2>2. uplink'[i].by \in Call
    BY <2>1 DEF Answer
  <2> QED
    BY <1>1, <2>2 DEF TrueAnswer, SameOrders
<1>4. \A c \in Call : call'[c].status = "ok" => c \in held'
  BY <1>1 DEF VerifiedInv, Witnessed
<1>5. Witnessed'
  BY <1>2, <1>3, <1>4 DEF Witnessed
<1>6. Begun'
  BY DEF VerifiedInv, Begun, SameOrders
<1>7. ASSUME ~overlapped PROVE Apart'
  <2>1. OkVerified'
    BY <1>1, <1>7 DEF VerifiedInv, Apart, OkVerified
  <2>2. \A i \in DOMAIN outstanding' : OwnRow(outstanding[i])'
    BY <1>7 DEF OwnRow
  <2> QED
    BY <1>7, <2>1, <2>2 DEF VerifiedInv, Apart
<1> QED
  BY <1>5, <1>6, <1>7 DEF VerifiedInv

\* What the invariant says of the answers and entries, as VerifiedKept asks it.
LEMMA AsBefore ==
  ASSUME VerifiedInv
  PROVE  /\ \A i \in DOMAIN uplink : TrueAnswer(uplink[i])
         /\ ~overlapped => \A i \in DOMAIN outstanding : OwnRow(outstanding[i])
BY DEF VerifiedInv, Witnessed, Apart

\* A step of one call that is under way: its frames, answers and entries may
\* get more.
LEMMA CallTraces ==
  ASSUME NEW c \in Call, call[c].pc \notin {"ready", "done"}, \A d \in Call : d # c => call'[d] = call[d],
         Owned(downlink', downlink, {c}), Owned(uplink', uplink, {c}),
         Owned(outstanding', outstanding, {c})
  PROVE  \A d \in Call : Traces(d)' => Traces(d)
<1>1. \A d \in {c} : Traces(d)
  BY DEF Traces
<1>2. \A d \in Call : call'[d].pc \notin {"ready", "done"} => call[d].pc \notin {"ready", "done"}
  OBVIOUS
<1> QED
  BY <1>1, <1>2, TracesFewer

LEMMA OneMoves ==
  ASSUME TypeOK, NEW c \in Call, call[c].pc # "ready"
  PROVE  /\ \A pc \in {"write", "read", "register", "verify", "insert", "attach", "done"} :
              Goes(c, pc) => /\ SameOrders /\ \A d \in Call : d # c => call'[d] = call[d]
                             /\ \A d \in Call : call'[d].status = call[d].status
         /\ \A status \in Status :
              Reports(c, status) => /\ SameOrders /\ \A d \in Call : d # c => call'[d] = call[d]
                                    /\ call'[c].status = status
<1>1. ASSUME NEW pc \in {"write", "read", "register", "verify", "insert", "attach", "done"}, Goes(c, pc)
      PROVE  /\ SameOrders /\ \A d \in Call : d # c => call'[d] = call[d]
             /\ \A d \in Call : call'[d].status = call[d].status
  BY <1>1 DEF TypeOK, CallState, Goes, SameOrders
<1>2. ASSUME NEW status \in Status, Reports(c, status)
      PROVE  /\ SameOrders /\ \A d \in Call : d # c => call'[d] = call[d]
             /\ call'[c].status = status
  BY <1>2 DEF TypeOK, CallState, Reports, SameOrders
<1> QED
  BY <1>1, <1>2

LEMMA BeginVerified ==
  ASSUME VerifiedInv, TypeOK', NEW c \in Call, NEW k \in Key, NEW v \in Value, Begins(c, k, v),
         UNCHANGED <<row, device, downlink, uplink, outstanding>>
  PROVE  VerifiedInv'
<1>1. /\ call'[c] = [pc |-> "check", key |-> k, value |-> v, status |-> "none"]
      /\ \A d \in Call : d # c => call'[d] = call[d]
  BY BeginsTyped DEF VerifiedInv
<1>2. /\ call[c].pc = "ready" /\ ~Traces(c)
      /\ held' = IF device[k] = v THEN held \cup {c} ELSE held
      /\ overlapped' = (overlapped \/ UnderWay)
  BY DEF Begins, VerifiedInv, Begun
<1>3. \A d \in Call : d # c => (Traces(d)' <=> Traces(d))
  BY <1>1 DEF Traces
<1>4. Begun'
  BY <1>1, <1>3 DEF VerifiedInv, Begun
<1>5. Witnessed'
  <2>1. \A d \in Call : call'[d].pc # "ready" /\ device'[call'[d].key] = call'[d].value => d \in held'
    BY <1>1, <1>2 DEF VerifiedInv, Witnessed
  <2>2. \A d \in Call : call'[d].status = "ok" => d \in held'
    BY <1>1, <1>2 DEF VerifiedInv, Witnessed
  <2>3. ASSUME NEW i \in DOMAIN uplink'
        PROVE  TrueAnswer(uplink[i])'
    <3>1. uplink[i] \in Answer
      BY SeqFacts DEF VerifiedInv, TypeOK
    <3>2. uplink[i].by \in Call /\ Traces(uplink[i].by)
      BY <3>1 DEF Answer, Traces
    <3> QED
      BY <1>1, <1>2, <3>2 DEF VerifiedInv, Witnessed, TrueAnswer
  <2> QED
    BY <2>1, <2>2, <2>3 DEF Witnessed
<1>6. ASSUME ~overlapped' PROVE Apart'
  <2>1. ~UnderWay /\ ~overlapped
    BY <1>2, <1>6
  <2>2. \A d \in Call : ~Traces(d)
    BY <2>1, EmptySeq DEF UnderWay, Traces
  <2>3. \A d, e \in Call : Traces(d)' /\ Traces(e)' => d = e
    BY <1>3, <2>2
  <2>4. \A i \in DOMAIN outstanding' : OwnRow(outstanding[i])'
    BY <2>1 DEF VerifiedInv, Apart, OwnRow
  <2>5. OkVerified'
    BY <1>2, <2>1 DEF VerifiedInv, Apart, OkVerified
  <2> QED
    BY <2>3, <2>4, <2>5 DEF Apart
<1> QED
  BY <1>4, <1>5, <1>6 DEF VerifiedInv

LEMMA CheckVerified ==
  ASSUME VerifiedInv, TypeOK', NEW c \in Call, Check(c)
  PROVE  VerifiedInv'
<1>1. /\ call[c].pc = "check" /\ TypeOK
      /\ UNCHANGED <<row, device, held, downlink, uplink, outstanding, overlapped>>
  BY DEF Check, VerifiedInv
<1>2. Reports(c, "failed") \/ Goes(c, "write")
  BY DEF Check
<1>3. /\ SameOrders /\ \A d \in Call : d # c => call'[d] = call[d]
      /\ \A d \in Call : call'[d].status = "ok" => call[d].status = "ok"
  BY <1>1, <1>2, OneMoves DEF Status
<1>4. \A d \in Call : Traces(d)' => Traces(d)
  BY <1>1, <1>3, CallTraces, OwnedItself
<1> QED
  BY <1>1, <1>3, <1>4, AsBefore, VerifiedKept

LEMMA LandsVerified ==
  ASSUME VerifiedInv, TypeOK', NEW c \in Call, Lands(c)
  PROVE  VerifiedInv'
<1>1. /\ call[c].pc = "write" /\ TypeOK /\ Takes(c) /\ Goes(c, "verify")
      /\ UNCHANGED <<row, downlink, uplink, outstanding, overlapped>>
  BY DEF Lands, VerifiedInv
<1>2. /\ SameOrders /\ \A d \in Call : d # c => call'[d] = call[d]
      /\ \A d \in Call : call'[d].status = call[d].status
  BY <1>1, OneMoves
<1>3. \A d \in Call : Traces(d)' => Traces(d)
  BY <1>1, <1>2, CallTraces, OwnedItself
<1> QED
  BY <1>1, <1>2, <1>3, AsBefore, VerifiedKept

LEMMA ReadsBackVerified ==
  ASSUME VerifiedInv, TypeOK', NEW c \in Call, ReadsBack(c)
  PROVE  VerifiedInv'
<1>1. /\ call[c].pc = "verify" /\ TypeOK /\ Reports(c, Verdict(c))
      /\ UNCHANGED <<row, device, held, downlink, uplink, outstanding, overlapped>>
  BY DEF ReadsBack, VerifiedInv, history
<1>2. Verdict(c) \in Status /\ (Verdict(c) = "ok" => c \in held)
  BY <1>1 DEF Verdict, Status, VerifiedInv, Witnessed
<1>3. /\ SameOrders /\ \A d \in Call : d # c => call'[d] = call[d]
      /\ call'[c].status = Verdict(c)
  BY <1>1, <1>2, OneMoves
<1>4. \A d \in Call : Traces(d)' => Traces(d)
  BY <1>1, <1>3, CallTraces, OwnedItself
<1>5. \A d \in Call : call'[d].status = "ok" => call[d].status = "ok" \/ d \in held
  BY <1>2, <1>3
<1> QED
  BY <1>1, <1>3, <1>4, <1>5, AsBefore, VerifiedKept

\* A frame of its own call on the downlink.
LEMMA FrameOwned ==
  ASSUME TypeOK, NEW c \in Call, call[c].pc \in {"write", "read"},
         downlink' \in {downlink, Append(downlink, FrameOf(c))}
  PROVE  Owned(downlink', downlink, {c})
<1>1. FrameOf(c) \in Frame /\ FrameOf(c).by = c
  BY DEF FrameOf, Frame
<1>2. CASE downlink' = Append(downlink, FrameOf(c))
  BY <1>1, <1>2, AppendFrom DEF TypeOK, Owned
<1>3. CASE downlink' = downlink
  BY <1>3 DEF Owned
<1> QED
  BY <1>2, <1>3

LEMMA PublishVerified ==
  ASSUME VerifiedInv, TypeOK', NEW c \in Call, Publish(c) \/ PublishFails(c)
  PROVE  VerifiedInv'
<1>1. /\ call[c].pc \in {"write", "read"} /\ TypeOK
      /\ downlink' \in {downlink, Append(downlink, FrameOf(c))}
      /\ UNCHANGED <<row, device, held, uplink, outstanding, overlapped>>
  BY DEF Publish, PublishFails, VerifiedInv, history
<1>2. PICK pc \in {"read", "register", "done"} : Goes(c, pc)
  BY DEF Publish, PublishFails
<1>3. /\ SameOrders /\ \A d \in Call : d # c => call'[d] = call[d]
      /\ \A d \in Call : call'[d].status = call[d].status
  BY <1>1, <1>2, OneMoves
<1>4. Owned(downlink', downlink, {c})
  BY <1>1, FrameOwned
<1>5. \A d \in Call : Traces(d)' => Traces(d)
  BY <1>1, <1>3, <1>4, CallTraces, OwnedItself
<1> QED
  BY <1>1, <1>3, <1>5, AsBefore, VerifiedKept

LEMMA RegisterVerified ==
  ASSUME VerifiedInv, TypeOK', NEW c \in Call, Register(c)
  PROVE  VerifiedInv'
<1> DEFINE entry == [by |-> c, command |-> None, expired |-> FALSE]
<1>1. /\ call[c].pc = "register" /\ TypeOK /\ Reports(c, "sent")
      /\ outstanding' = Append(outstanding, entry)
      /\ UNCHANGED <<row, device, held, downlink, uplink, overlapped>>
  BY DEF Register, VerifiedInv, history
<1>2. entry \in Entry /\ entry.by = c /\ OwnRow(entry)
  BY DEF Entry, OwnRow
<1> HIDE DEF entry
<1>3. /\ SameOrders /\ \A d \in Call : d # c => call'[d] = call[d]
      /\ call'[c].status = "sent"
  BY <1>1, OneMoves DEF Status
<1>4. \A i \in DOMAIN outstanding' :
        outstanding'[i] = entry \/ \E j \in DOMAIN outstanding : outstanding'[i] = outstanding[j]
  BY <1>1, <1>2, AppendFrom DEF TypeOK
<1>5. Owned(outstanding', outstanding, {c})
  BY <1>2, <1>4 DEF Owned
<1>6. \A d \in Call : Traces(d)' => Traces(d)
  BY <1>1, <1>3, <1>5, CallTraces, OwnedItself
<1>7. ~overlapped => \A i \in DOMAIN outstanding' : OwnRow(outstanding'[i])
  BY <1>2, <1>4, AsBefore
<1>8. \A d \in Call : call'[d].status = "ok" => call[d].status = "ok"
  BY <1>3
<1> QED
  BY <1>1, <1>3, <1>6, <1>7, <1>8, AsBefore, VerifiedKept

LEMMA InsertVerified ==
  ASSUME VerifiedInv, TypeOK', NEW c \in Call, Insert(c) \/ InsertFails(c)
  PROVE  VerifiedInv'
<1>1. /\ call[c].pc = "insert" /\ TypeOK
      /\ row' \in {row, [row EXCEPT ![c] = call[c].status]}
      /\ UNCHANGED <<device, held, downlink, uplink, outstanding, overlapped>>
  BY DEF Insert, InsertFails, VerifiedInv, history
<1>2. PICK pc \in {"attach", "done"} : Goes(c, pc)
  BY DEF Insert, InsertFails
<1>3. /\ SameOrders /\ \A d \in Call : d # c => call'[d] = call[d]
      /\ \A d \in Call : call'[d].status = call[d].status
  BY <1>1, <1>2, OneMoves
<1>4. \A d \in Call : Traces(d)' => Traces(d)
  BY <1>1, <1>3, CallTraces, OwnedItself
<1>5. \A d \in Call : row'[d] = "ok" => row[d] = "ok" \/ d \in held
  BY <1>1 DEF TypeOK, VerifiedInv, Witnessed
<1> QED
  BY <1>1, <1>3, <1>4, <1>5, AsBefore, VerifiedKept

LEMMA AttachVerified ==
  ASSUME VerifiedInv, TypeOK', NEW c \in Call, Attach(c)
  PROVE  VerifiedInv'
<1>1. /\ call[c].pc = "attach" /\ TypeOK /\ Goes(c, "done")
      /\ UNCHANGED <<row, device, held, downlink, uplink, overlapped>>
  BY DEF Attach, VerifiedInv, history
<1>2. /\ SameOrders /\ \A d \in Call : d # c => call'[d] = call[d]
      /\ \A d \in Call : call'[d].status = call[d].status
  BY <1>1, OneMoves
<1>3. ASSUME NEW i \in DOMAIN outstanding'
      PROVE  /\ i \in DOMAIN outstanding /\ outstanding'[i].by = outstanding[i].by
             /\ outstanding'[i].command \in {outstanding[i].command, c}
  <2>1. outstanding' = outstanding \/ \E a \in DOMAIN outstanding :
          outstanding' = [outstanding EXCEPT ![a].command = c]
    BY DEF Attach, Attachable, Unattached
  <2>2. i \in DOMAIN outstanding
    BY <2>1
  <2>3. outstanding[i] \in Entry
    BY <1>1, <2>2, SeqFacts DEF TypeOK
  <2> QED
    BY <2>1, <2>2, <2>3 DEF Entry
<1>4. Owned(outstanding', outstanding, {c})
  BY <1>3 DEF Owned
<1>5. \A d \in Call : Traces(d)' => Traces(d)
  BY <1>1, <1>2, <1>4, CallTraces, OwnedItself
<1>6. ASSUME ~overlapped, NEW i \in DOMAIN outstanding'
      PROVE  OwnRow(outstanding'[i])
  <2>1. outstanding[i] \in Entry
    BY <1>1, <1>3, SeqFacts DEF TypeOK
  <2>2. outstanding[i].by \in Call /\ Traces(outstanding[i].by) /\ Traces(c)
    BY <1>1, <1>3, <2>1 DEF Entry, Traces
  <2>3. outstanding[i].by = c
    BY <1>6, <2>2 DEF VerifiedInv, Apart
  <2> QED
    BY <1>3, <1>6, <2>3, AsBefore DEF OwnRow
<1> QED
  BY <1>1, <1>2, <1>5, <1>6, AsBefore, VerifiedKept

\* A step that is nobody's: the calls stay where they are.
LEMMA NobodyMoves ==
  ASSUME UNCHANGED call, NEW c \in Call, Traces(c), Owned(downlink', downlink, {c}),
         Owned(uplink', uplink, {c}), Owned(outstanding', outstanding, {c})
  PROVE  SameOrders /\ \A d \in Call : Traces(d)' => Traces(d)
<1>1. SameOrders
  BY DEF SameOrders
<1>2. \A d \in Call : call'[d].pc \notin {"ready", "done"} => call[d].pc \notin {"ready", "done"}
  OBVIOUS
<1>3. \A d \in {c} : Traces(d)
  OBVIOUS
<1> QED
  BY <1>1, <1>2, <1>3, TracesFewer

LEMMA NothingAdded ==
  ASSUME UNCHANGED call, Owned(downlink', downlink, {}), Owned(uplink', uplink, {}),
         Owned(outstanding', outstanding, {})
  PROVE  SameOrders /\ \A d \in Call : Traces(d)' => Traces(d)
<1>1. SameOrders
  BY DEF SameOrders
<1>2. \A d \in Call : call'[d].pc \notin {"ready", "done"} => call[d].pc \notin {"ready", "done"}
  OBVIOUS
<1> QED
  BY <1>1, <1>2, TracesFewer

LEMMA DeliverVerified ==
  ASSUME VerifiedInv, TypeOK', Deliver
  PROVE  VerifiedInv'
<1> DEFINE f == Head(downlink)
           c == f.by
           a == [by |-> c, value |-> device[call[c].key]]
<1>1. /\ TypeOK /\ downlink # <<>> /\ downlink' = Tail(downlink)
      /\ \/ Takes(c) /\ UNCHANGED uplink
         \/ uplink' = Append(uplink, a) /\ UNCHANGED <<device, landed, held>>
      /\ UNCHANGED <<call, row, outstanding, overlapped>>
  BY DEF Deliver, VerifiedInv
<1>2. downlink \in Seq(Frame) /\ uplink \in Seq(Answer)
  BY <1>1 DEF TypeOK
<1>3. f = downlink[1] /\ 1 \in DOMAIN downlink
  BY <1>1, <1>2, EmptySeq, SeqFacts
<1>4. f \in Frame
  BY <1>2, <1>3, SeqFacts
<1>5. c \in Call /\ Traces(c)
  BY <1>3, <1>4 DEF Frame, Traces
<1>6. Owned(downlink', downlink, {c})
  BY <1>1, <1>2, TailFrom, OwnedFrom
<1>7. a \in Answer /\ a.by = c
  BY <1>1, <1>5 DEF TypeOK, CallState, Answer
<1>8. TrueAnswer(a)
  BY <1>5 DEF TrueAnswer, VerifiedInv, Begun, Witnessed
<1> HIDE DEF f, a
<1>9. CASE Takes(c) /\ UNCHANGED uplink
  <2>1. SameOrders /\ \A d \in Call : Traces(d)' => Traces(d)
    BY <1>1, <1>5, <1>6, <1>9, NobodyMoves, OwnedItself
  <2> QED
    BY <1>1, <1>5, <1>9, <2>1, AsBefore, VerifiedKept
<1>10. CASE uplink' = Append(uplink, a) /\ UNCHANGED <<device, landed, held>>
  <2>1. \A i \in DOMAIN uplink' :
          uplink'[i] = a \/ \E j \in DOMAIN uplink : uplink'[i] = uplink[j]
    BY <1>2, <1>7, <1>10, AppendFrom
  <2>2. Owned(uplink', uplink, {c})
    BY <1>7, <2>1 DEF Owned
  <2>3. \A i \in DOMAIN uplink' : TrueAnswer(uplink'[i])
    BY <1>8, <2>1, AsBefore
  <2>4. SameOrders /\ \A d \in Call : Traces(d)' => Traces(d)
    BY <1>1, <1>5, <1>6, <2>2, NobodyMoves, OwnedItself
  <2> QED
    BY <1>1, <1>10, <2>3, <2>4, AsBefore, VerifiedKept
<1> QED
  BY <1>1, <1>9, <1>10

LEMMA LoseVerified ==
  ASSUME VerifiedInv, TypeOK', Lose
  PROVE  VerifiedInv'
<1>1. /\ downlink \in Seq(Frame) /\ uplink \in Seq(Answer)
      /\ UNCHANGED <<call, row, device, outstanding, held, overlapped>>
  BY DEF Lose, VerifiedInv, TypeOK, history
<1>2. From(downlink', downlink) /\ From(uplink', uplink)
  <2>1. From(downlink, downlink) /\ From(uplink, uplink)
    BY DEF From
  <2> QED
    BY <1>1, <2>1, TailFrom DEF Lose
<1>3. SameOrders /\ \A d \in Call : Traces(d)' => Traces(d)
  BY <1>1, <1>2, OwnedFrom, OwnedItself, NothingAdded
<1>4. \A i \in DOMAIN uplink' : TrueAnswer(uplink'[i])
  BY <1>2, AsBefore DEF From
<1> QED
  BY <1>1, <1>3, <1>4, AsBefore, VerifiedKept

\* Entries and answers that go take nothing with them that is asked for.
LEMMA FewerVerified ==
  ASSUME VerifiedInv, TypeOK', UNCHANGED <<call, device, held, downlink, overlapped>>,
         From(uplink', uplink), From(outstanding', outstanding),
         ~overlapped => \A c \in Call : row'[c] = "ok" => row[c] = "ok" \/ c \in held
  PROVE  VerifiedInv'
<1>1. SameOrders /\ \A d \in Call : Traces(d)' => Traces(d)
  BY OwnedFrom, OwnedItself, NothingAdded
<1>2. \A i \in DOMAIN uplink' : TrueAnswer(uplink'[i])
  BY AsBefore DEF From
<1>3. ~overlapped => \A i \in DOMAIN outstanding' : OwnRow(outstanding'[i])
  BY AsBefore DEF From
<1> QED
  BY <1>1, <1>2, <1>3, VerifiedKept

\* An answer settles the row of the entry it meets.
LEMMA HandleVerified ==
  ASSUME VerifiedInv, TypeOK', NEW i \in DOMAIN uplink, Handle(i)
  PROVE  VerifiedInv'
<1>1. /\ TypeOK /\ uplink' = RemoveAt(uplink, i)
      /\ uplink \in Seq(Answer) /\ outstanding \in Seq(Entry)
      /\ UNCHANGED <<call, device, held, downlink, overlapped>>
  BY DEF Handle, VerifiedInv, TypeOK
<1>2. From(uplink', uplink) /\ From(outstanding, outstanding)
  BY <1>1, RemoveAtFrom DEF From
<1>3. CASE UNCHANGED <<row, outstanding, detached>>
  BY <1>1, <1>2, <1>3, FewerVerified
<1>4. ASSUME NEW m \in Matching, outstanding' = RemoveAt(outstanding, m),
             row' = IF outstanding[m].command = None THEN row
                    ELSE [row EXCEPT ![outstanding[m].command] =
                            Confirmed(outstanding[m], uplink[i].value)]
      PROVE  VerifiedInv'
  <2>1. m \in DOMAIN outstanding
    BY <1>1, <1>4, Alives
  <2>2. outstanding[m] \in Entry /\ uplink[i] \in Answer
    BY <1>1, <2>1, SeqFacts
  <2>3. From(outstanding', outstanding)
    BY <1>1, <1>4, <2>1, RemoveAtFrom
  <2>4. ASSUME ~overlapped, NEW c \in Call, row'[c] = "ok", row[c] # "ok"
        PROVE  c \in held
    <3>1. /\ c = outstanding[m].command /\ c # None
          /\ uplink[i].value = call[outstanding[m].by].value
      BY <1>1, <1>4, <2>4 DEF TypeOK, Confirmed
    <3>2. outstanding[m].by = c
      BY <2>1, <2>4, <3>1, AsBefore DEF OwnRow
    <3>3. uplink[i].by \in Call /\ Traces(uplink[i].by) /\ Traces(c)
      BY <2>1, <2>2, <3>2 DEF Answer, Traces
    <3>4. uplink[i].by = c
      BY <2>4, <3>3 DEF VerifiedInv, Apart
    <3> QED
      BY <3>1, <3>2, <3>4, AsBefore DEF TrueAnswer
  <2> QED
    BY <1>1, <1>2, <2>3, <2>4, FewerVerified
<1> QED
  BY <1>3, <1>4 DEF Handle

LEMMA ExpireVerified ==
  ASSUME VerifiedInv, TypeOK', Expire
  PROVE  VerifiedInv'
<1>1. /\ TypeOK /\ outstanding \in Seq(Entry)
      /\ UNCHANGED <<call, row, device, held, downlink, uplink, overlapped>>
  BY DEF Expire, VerifiedInv, TypeOK, history
<1>2. PICK m \in DOMAIN outstanding : outstanding' = [outstanding EXCEPT ![m].expired = TRUE]
  BY <1>1, Alives DEF Expire
<1>3. ASSUME NEW i \in DOMAIN outstanding'
      PROVE  /\ i \in DOMAIN outstanding /\ outstanding'[i].by = outstanding[i].by
             /\ outstanding'[i].command = outstanding[i].command
  <2>1. i \in DOMAIN outstanding
    BY <1>2
  <2>2. outstanding[i] \in Entry
    BY <1>1, <2>1, SeqFacts
  <2> QED
    BY <1>2, <2>1, <2>2 DEF Entry
<1>4. Owned(outstanding', outstanding, {})
  BY <1>3 DEF Owned
<1>5. SameOrders /\ \A d \in Call : Traces(d)' => Traces(d)
  BY <1>1, <1>4, OwnedItself, NothingAdded
<1>6. ~overlapped => \A i \in DOMAIN outstanding' : OwnRow(outstanding'[i])
  BY <1>3, AsBefore DEF OwnRow
<1> QED
  BY <1>1, <1>5, <1>6, AsBefore, VerifiedKept

LEMMA SweepVerified ==
  ASSUME VerifiedInv, TypeOK', Sweep \/ SettleFails
  PROVE  VerifiedInv'
<1>1. /\ TypeOK /\ uplink \in Seq(Answer) /\ outstanding \in Seq(Entry)
      /\ UNCHANGED <<call, device, held, downlink, overlapped>>
  BY DEF Sweep, SettleFails, VerifiedInv, TypeOK, history
<1>2. From(uplink', uplink)
  <2>1. From(uplink, uplink)
    BY DEF From
  <2>2. UNCHANGED uplink \/ \E i \in DOMAIN uplink : uplink' = RemoveAt(uplink, i)
    BY DEF Sweep, SettleFails
  <2> QED
    BY <1>1, <2>1, <2>2, RemoveAtFrom
<1>3. From(outstanding', outstanding)
  <2>1. outstanding' = Alive \/ \E m \in Matching : outstanding' = RemoveAt(outstanding, m)
    BY DEF Sweep, SettleFails
  <2>2. Matching \subseteq DOMAIN outstanding /\ From(Alive, outstanding)
    BY <1>1, Alives
  <2> QED
    BY <1>1, <2>1, <2>2, RemoveAtFrom
<1>4. \A c \in Call : row'[c] = "ok" => row[c] = "ok"
  BY DEF Sweep, Swept, SettleFails
<1> QED
  BY <1>1, <1>2, <1>3, <1>4, FewerVerified

LEMMA CrashVerified ==
  ASSUME VerifiedInv, TypeOK', Crash
  PROVE  VerifiedInv'
<1>1. /\ TypeOK /\ outstanding' = <<>> /\ DOMAIN outstanding' = {}
      /\ UNCHANGED <<row, device, held, downlink, uplink, overlapped>>
  BY DEF Crash, VerifiedInv, history
<1>2. \A c \in Call : /\ call'[c].key = call[c].key /\ call'[c].value = call[c].value
                      /\ call'[c].status = call[c].status
                      /\ call'[c].pc = IF call[c].pc = "ready" THEN "ready" ELSE "done"
  BY <1>1 DEF Crash, TypeOK, CallState
<1>3. SameOrders
  BY <1>2 DEF SameOrders
<1>4. Owned(outstanding', outstanding, {})
  BY <1>1 DEF Owned
<1>5. \A c \in Call : Traces(c)' => Traces(c)
  BY <1>1, <1>2, <1>4, OwnedItself, TracesFewer
<1> QED
  BY <1>1, <1>2, <1>3, <1>5, AsBefore, VerifiedKept

LEMMA VerifiedNext ==
  ASSUME VerifiedInv, [Next]_vars
  PROVE  VerifiedInv'
<1>1. TypeOK'
  BY TypesNext DEF VerifiedInv
<1>2. CASE UNCHANGED vars \/ Lock \/ Release
  <2>1. UNCHANGED <<call, row, device, held, downlink, uplink, outstanding, overlapped>>
    BY <1>2 DEF vars, Lock, Release, history
  <2>2. From(uplink', uplink) /\ From(outstanding', outstanding)
    BY <2>1 DEF From
  <2> QED
    BY <1>1, <2>1, <2>2, FewerVerified
<1>3. ASSUME NEW c \in Call, Start(c)
      PROVE  VerifiedInv'
  BY <1>1, <1>3, BeginVerified DEF Start
<1>4. CASE PressStop
  BY <1>1, <1>4, BeginVerified, ControlAssumption DEF PressStop, ControlAssumption
<1>5. ASSUME NEW c \in Call, CallStep(c)
      PROVE  VerifiedInv'
  BY <1>1, <1>5, CheckVerified, LandsVerified, ReadsBackVerified, PublishVerified, RegisterVerified,
     InsertVerified, AttachVerified DEF CallStep
<1>6. ASSUME NEW c \in Call, ConnectionFails(c)
      PROVE  VerifiedInv'
  <2>1. /\ call[c].pc \in {"write", "verify"} /\ TypeOK /\ Reports(c, "failed")
        /\ UNCHANGED <<row, device, held, downlink, uplink, outstanding, overlapped>>
    BY <1>6 DEF ConnectionFails, OnFailure, VerifiedInv, history
  <2>2. /\ SameOrders /\ \A d \in Call : d # c => call'[d] = call[d]
        /\ call'[c].status = "failed"
    BY <2>1, OneMoves DEF Status
  <2>3. \A d \in Call : call'[d].status = "ok" => call[d].status = "ok"
    BY <2>2
  <2>4. \A d \in Call : Traces(d)' => Traces(d)
    BY <2>1, <2>2, CallTraces, OwnedItself
  <2> QED
    BY <1>1, <2>1, <2>2, <2>3, <2>4, AsBefore, VerifiedKept
<1>7. ASSUME NEW c \in Call, PublishFails(c) \/ InsertFails(c)
      PROVE  VerifiedInv'
  BY <1>1, <1>7, PublishVerified, InsertVerified
<1>8. ASSUME (\E i \in DOMAIN uplink : Handle(i)) \/ Expire \/ Sweep \/ SettleFails
      PROVE  VerifiedInv'
  BY <1>1, <1>8, HandleVerified, ExpireVerified, SweepVerified
<1> QED
  BY <1>1, <1>2, <1>3, <1>4, <1>5, <1>6, <1>7, <1>8, DeliverVerified, LoseVerified,
     CrashVerified DEF Next

(***************************************************************************)
(* confirmVerifiedWrite (c30-outstanding.ts:12-13) and the read-back of a    *)
(* direct write (execute.ts:235-239), for any number of calls, registers,    *)
(* lost or late frames, failed statements and process ends: on a device that *)
(* is commanded by one call after the other, a row says ok only of a call    *)
(* whose register held its value.                                            *)
(***************************************************************************)
THEOREM ControlOkVerified == Spec => []OkVerifiedApart
<1>1. Init => VerifiedInv
  <2>1. ASSUME Init PROVE TypeOK
    BY <2>1, ControlTyped
  <2>2. ASSUME Init
        PROVE  /\ \A c \in Call : ~Traces(c) /\ call[c].pc = "ready" /\ call[c].status = "none"
               /\ DOMAIN uplink = {} /\ DOMAIN outstanding = {} /\ OkVerified
    BY <2>2, EmptySeq DEF Init, Traces, OkVerified
  <2> QED
    BY <2>1, <2>2 DEF VerifiedInv, Begun, Witnessed, Apart
<1>2. VerifiedInv /\ [Next]_vars => VerifiedInv'
  BY VerifiedNext
<1>3. VerifiedInv => OkVerifiedApart
  BY DEF VerifiedInv, OkVerifiedApart, Apart
<1> QED
  BY <1>1, <1>2, <1>3, PTL DEF Spec

---------------------------------------------------------------------------
(***************************************************************************)
(* The registry expires from its front: what Alive leaves of it is what the  *)
(* filter of sweepExpired leaves.                                            *)
(***************************************************************************)
InOrder ==
  \A i, j \in DOMAIN outstanding : i < j /\ outstanding[j].expired => outstanding[i].expired
AliveIsLive ==
  \A m \in Matching : Live = m..Len(outstanding)

\* t is made of s in the order of s.
Sub(t, s) ==
  \A i, j \in DOMAIN t : i < j => \E k, l \in DOMAIN s : k < l /\ t[i] = s[k] /\ t[j] = s[l]

LEMMA SubSeqSub ==
  ASSUME NEW S, NEW s \in Seq(S), NEW m \in Nat \ {0}, NEW n \in 0..Len(s)
  PROVE  Sub(SubSeq(s, m, n), s)
<1>1. DOMAIN s = 1..Len(s) /\ Len(s) \in Nat /\ \A i \in m..n : s[i] \in S
  BY SeqFacts
<1>2. /\ SubSeq(s, m, n) \in Seq(S)
      /\ Len(SubSeq(s, m, n)) = IF m <= n THEN n - m + 1 ELSE 0
      /\ \A i \in 1..n - m + 1 : SubSeq(s, m, n)[i] = s[m + i - 1]
  BY <1>1, SubSeqProperties
<1>3. DOMAIN SubSeq(s, m, n) = 1..Len(SubSeq(s, m, n))
  BY <1>2, LenProperties
<1> QED
  <2>1. SUFFICES ASSUME NEW i \in DOMAIN SubSeq(s, m, n), NEW j \in DOMAIN SubSeq(s, m, n), i < j
                 PROVE  \E k, l \in DOMAIN s :
                          k < l /\ SubSeq(s, m, n)[i] = s[k] /\ SubSeq(s, m, n)[j] = s[l]
    BY DEF Sub
  <2>2. /\ i \in 1..n - m + 1 /\ j \in 1..n - m + 1
        /\ m + i - 1 \in DOMAIN s /\ m + j - 1 \in DOMAIN s /\ m + i - 1 < m + j - 1
    BY <1>1, <1>2, <1>3, <2>1
  <2> QED
    BY <1>2, <2>2

LEMMA RemoveAtSub ==
  ASSUME NEW S, NEW s \in Seq(S), NEW i \in DOMAIN s
  PROVE  Sub(RemoveAt(s, i), s)
<1> DEFINE a == SubSeq(s, 1, i - 1)
           b == SubSeq(s, i + 1, Len(s))
           t == RemoveAt(s, i)
<1>1. DOMAIN s = 1..Len(s) /\ i \in 1..Len(s) /\ Len(s) \in Nat /\ \A j \in DOMAIN s : s[j] \in S
  BY SeqFacts
<1>2. /\ a \in Seq(S) /\ Len(a) = i - 1
      /\ \A j \in 1..i - 1 : a[j] = s[j]
  <2>1. \A j \in 1..i - 1 : s[j] \in S
    BY <1>1
  <2>2. /\ a \in Seq(S) /\ Len(a) = IF 1 <= i - 1 THEN (i - 1) - 1 + 1 ELSE 0
        /\ \A j \in 1..(i - 1) - 1 + 1 : a[j] = s[1 + j - 1]
    BY <1>1, <2>1, SubSeqProperties
  <2> QED
    BY <1>1, <2>2
<1>3. /\ b \in Seq(S) /\ Len(b) = Len(s) - i
      /\ \A j \in 1..Len(s) - i : b[j] = s[i + j]
  <2>1. \A j \in i + 1..Len(s) : s[j] \in S
    BY <1>1
  <2>2. /\ b \in Seq(S) /\ Len(b) = IF i + 1 <= Len(s) THEN Len(s) - (i + 1) + 1 ELSE 0
        /\ \A j \in 1..Len(s) - (i + 1) + 1 : b[j] = s[(i + 1) + j - 1]
    BY <1>1, <2>1, SubSeqProperties
  <2> QED
    BY <1>1, <2>2
<1>4. t = a \o b
  BY DEF RemoveAt
<1> HIDE DEF a, b, t
<1>5. /\ t \in Seq(S) /\ Len(t) = Len(s) - 1
      /\ \A j \in 1..Len(s) - 1 : t[j] = IF j <= i - 1 THEN a[j] ELSE b[j - (i - 1)]
  <2>1. /\ a \o b \in Seq(S) /\ Len(a \o b) = Len(a) + Len(b)
        /\ \A j \in 1..Len(a) + Len(b) :
             (a \o b)[j] = IF j <= Len(a) THEN a[j] ELSE b[j - Len(a)]
    BY <1>2, <1>3, ConcatProperties
  <2>2. Len(a) + Len(b) = Len(s) - 1
    BY <1>1, <1>2, <1>3
  <2> QED
    BY <1>2, <1>4, <2>1, <2>2
<1>6. DOMAIN t = 1..Len(s) - 1
  BY <1>5, LenProperties
<1>7. \A j \in DOMAIN t : t[j] = IF j < i THEN s[j] ELSE s[j + 1]
  <2>1. SUFFICES ASSUME NEW j \in DOMAIN t
                 PROVE  t[j] = IF j < i THEN s[j] ELSE s[j + 1]
    OBVIOUS
  <2>2. CASE j < i
    BY <1>1, <1>2, <1>5, <1>6, <2>2
  <2>3. CASE ~(j < i)
    <3>1. j - (i - 1) \in 1..Len(s) - i /\ i + (j - (i - 1)) = j + 1
      BY <1>1, <1>6, <2>3
    <3>2. t[j] = b[j - (i - 1)] /\ b[j - (i - 1)] = s[i + (j - (i - 1))]
      BY <1>1, <1>3, <1>5, <1>6, <2>3, <3>1
    <3> QED
      BY <2>3, <3>1, <3>2
  <2> QED
    BY <2>2, <2>3
<1>8. ASSUME NEW j \in DOMAIN t, NEW k \in DOMAIN t, j < k
      PROVE  \E x, y \in DOMAIN s : x < y /\ t[j] = s[x] /\ t[k] = s[y]
  <2> DEFINE x == IF j < i THEN j ELSE j + 1
             y == IF k < i THEN k ELSE k + 1
  <2>1. x \in DOMAIN s /\ y \in DOMAIN s /\ x < y
    BY <1>1, <1>6, <1>8
  <2>2. t[j] = s[x] /\ t[k] = s[y]
    BY <1>7
  <2> QED
    BY <2>1, <2>2
<1> QED
  BY <1>8 DEF Sub, t

LEMMA InOrderNext ==
  ASSUME TypeOK, InOrder, [Next]_vars
  PROVE  InOrder'
<1>1. /\ outstanding \in Seq(Entry) /\ Len(outstanding) \in Nat
      /\ DOMAIN outstanding = 1..Len(outstanding)
      /\ \A i \in DOMAIN outstanding : outstanding[i] \in Entry
      /\ Matching \subseteq DOMAIN outstanding
  BY SeqFacts, Alives DEF TypeOK
<1>2. CASE UNCHANGED outstanding
  BY <1>2 DEF InOrder
<1>3. CASE Sub(outstanding', outstanding)
  BY <1>3 DEF Sub, InOrder
<1>4. ASSUME NEW c \in Call, Register(c)
      PROVE  InOrder'
  <2> DEFINE entry == [by |-> c, command |-> None, expired |-> FALSE]
  <2>1. outstanding' = Append(outstanding, entry) /\ entry \in Entry
    BY <1>4 DEF Register, Entry
  <2>2. /\ outstanding' \in Seq(Entry) /\ Len(outstanding') = Len(outstanding) + 1
        /\ \A i \in 1..Len(outstanding) : outstanding'[i] = outstanding[i]
        /\ outstanding'[Len(outstanding) + 1] = entry
    BY <1>1, <2>1, AppendProperties
  <2>3. DOMAIN outstanding' = 1..Len(outstanding) + 1
    BY <2>2, LenProperties
  <2>4. ~outstanding'[Len(outstanding) + 1].expired
    BY <2>2
  <2> QED
    BY <1>1, <2>2, <2>3, <2>4 DEF InOrder
<1>5. ASSUME NEW c \in Call, Attach(c)
      PROVE  InOrder'
  <2>1. UNCHANGED outstanding \/ \E a \in DOMAIN outstanding :
          outstanding' = [outstanding EXCEPT ![a].command = c]
    BY <1>5 DEF Attach, Attachable, Unattached
  <2>2. /\ DOMAIN outstanding' = DOMAIN outstanding
        /\ \A i \in DOMAIN outstanding : outstanding'[i].expired = outstanding[i].expired
    BY <1>1, <2>1 DEF Entry
  <2> QED
    BY <2>2 DEF InOrder
<1>6. CASE Expire
  <2>1. PICK m \in Matching : outstanding' = [outstanding EXCEPT ![m].expired = TRUE]
    BY <1>6 DEF Expire
  <2>2. /\ DOMAIN outstanding' = DOMAIN outstanding
        /\ \A i \in DOMAIN outstanding :
             outstanding'[i].expired = IF i = m THEN TRUE ELSE outstanding[i].expired
    BY <1>1, <2>1 DEF Entry
  <2>3. \A i \in DOMAIN outstanding : i < m => outstanding[i].expired
    BY <1>1 DEF Matching, Live
  <2> QED
    BY <1>1, <2>2, <2>3 DEF InOrder
<1>7. CASE outstanding' = Alive
  <2>1. CASE Live = {}
    <3>1. DOMAIN outstanding' = {}
      BY <1>7, <2>1, EmptySeq DEF Alive
    <3> QED
      BY <3>1 DEF InOrder
  <2>2. CASE Live # {}
    <3>1. Matching # {}
      <4>1. Live \subseteq Nat
        BY <1>1 DEF Live
      <4> QED
        BY <2>2, <4>1, LeastOne DEF Matching
    <3> DEFINE first == CHOOSE m \in Matching : TRUE
    <3>2. first \in Nat \ {0} /\ Len(outstanding) \in 0..Len(outstanding)
      BY <1>1, <3>1
    <3>3. outstanding' = SubSeq(outstanding, first, Len(outstanding))
      BY <1>7, <2>2 DEF Alive
    <3> HIDE DEF first
    <3> QED
      BY <1>1, <1>3, <3>2, <3>3, SubSeqSub
  <2> QED
    BY <2>1, <2>2
<1>8. CASE \E m \in Matching : outstanding' = RemoveAt(outstanding, m)
  BY <1>1, <1>3, <1>8, RemoveAtSub
<1>9. CASE outstanding' = <<>>
  BY <1>9, EmptySeq DEF InOrder
<1>10. CASE (\E i \in DOMAIN uplink : Handle(i)) \/ Sweep \/ SettleFails \/ Crash
  BY <1>2, <1>7, <1>8, <1>9, <1>10 DEF Handle, Sweep, SettleFails, Crash
<1>11. ASSUME NEW c \in Call, CallStep(c)
       PROVE  InOrder'
  BY <1>2, <1>4, <1>5, <1>11 DEF CallStep, Check, Lands, ReadsBack, Publish, Insert
<1>12. ASSUME NEW c \in Call, Start(c) \/ ConnectionFails(c) \/ PublishFails(c) \/ InsertFails(c)
       PROVE  InOrder'
  BY <1>2, <1>12 DEF Start, ConnectionFails, PublishFails, InsertFails
<1>13. CASE PressStop \/ Deliver \/ Lose \/ Lock \/ Release \/ UNCHANGED vars
  BY <1>2, <1>13 DEF PressStop, Deliver, Lose, Lock, Release, vars
<1> QED
  BY <1>6, <1>10, <1>11, <1>12, <1>13 DEF Next

(***************************************************************************)
(* sweepExpired (c30-outstanding.ts:94-103) filters each bucket, the model   *)
(* cuts it at its first live entry: for any number of calls, expiries and    *)
(* answers both leave the same entries.                                      *)
(***************************************************************************)
THEOREM ControlAliveIsLive == Spec => []AliveIsLive
<1>1. Init => TypeOK /\ InOrder
  <2>1. Init => DOMAIN outstanding = {}
    BY EmptySeq DEF Init
  <2> QED
    BY <2>1, ControlTyped DEF InOrder
<1>2. TypeOK /\ InOrder /\ [Next]_vars => TypeOK' /\ InOrder'
  BY TypesNext, InOrderNext
<1>3. ASSUME TypeOK, InOrder PROVE AliveIsLive
  <2>1. outstanding \in Seq(Entry)
    BY <1>3 DEF TypeOK
  <2>2. DOMAIN outstanding = 1..Len(outstanding) /\ Len(outstanding) \in Nat
    BY <2>1, SeqFacts
  <2> QED
    BY <1>3, <2>2 DEF InOrder, AliveIsLive, Matching, Live
<1> QED
  BY <1>1, <1>2, <1>3, PTL DEF Spec

=============================================================================
