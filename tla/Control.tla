------------------------------ MODULE Control ------------------------------
(***************************************************************************)
(* Setpoint writes (api/control/execute.ts), the emergency stop               *)
(* (api/routers/control.ts) and the read-back of writes behind a C30 gateway *)
(* (api/mqtt/c30-outstanding.ts), for one device.                            *)
(*                                                                           *)
(* Every writer - an operator, peak shaving, a plan, a schedule, a grid      *)
(* limit - is a call of executeAndLog: it reads the lock, writes, and then   *)
(* inserts a row of the commands table.  A device with an address of its own *)
(* is written and read back on one connection.  Behind a C30 the write and   *)
(* the read are frames of the gateway's downlink, the answer carries no      *)
(* address and is matched with a registry in memory, and the row, inserted   *)
(* as "sent", is settled by the answer or by a sweep.  The calls here are    *)
(* those the whitelist, the verification gate and the range check let pass.  *)
(***************************************************************************)
EXTENDS Integers, Sequences, SequencesExt

CONSTANTS
  Call,          \* executions of executeAndLog
  Stop,          \* the one of setLock
  Key,           \* writable registers of the device
  SafeKey,       \* the one setLock drives to 0
  Value,
  None,
  MaxLost,       \* bound: lost frames, failed publishes and connections
  MaxCuts        \* bound: failed statements and process ends

ASSUME ControlAssumption ==
  /\ Stop \in Call /\ SafeKey \in Key /\ 0 \in Value /\ None \notin Call
  /\ {MaxLost, MaxCuts} \subseteq Nat

VARIABLES
  direct,        \* the meter has a host of its own
  locked,        \* controlLockedAt is set
  stop,          \* where setLock is
  call,          \* where each call is
  row,           \* the status of its commands row
  device,        \* the registers
  downlink, uplink,   \* frames to the gateway, answers from it
  outstanding,   \* the registry of reads
  landed, held,  \* history: the call's write landed; its register held the value
  contested,     \* history: another call may write while setLock is under way
  detached,      \* history: an entry went before its row was attached
  overlapped,    \* history: a call began while another one's traces were about
  lost, cuts

history == <<landed, held, contested, detached, overlapped>>
bounds == <<lost, cuts>>
vars == <<direct, locked, stop, call, row, device, downlink, uplink, outstanding,
          history, bounds>>

Status == {"none", "sent", "ok", "failed"}
CallState ==
  [pc : {"ready", "check", "write", "read", "register", "verify", "insert", "attach", "done"},
   key : Key, value : Value, status : Status]
Frame == [kind : {"write", "read"}, by : Call]
Answer == [by : Call, value : Value]
Entry == [by : Call, command : Call \cup {None}, expired : BOOLEAN]

TypeOK ==
  /\ direct \in BOOLEAN /\ locked \in BOOLEAN
  /\ stop \in {"idle", "safing", "over"}
  /\ call \in [Call -> CallState]
  /\ row \in [Call -> Status]
  /\ device \in [Key -> Value]
  /\ downlink \in Seq(Frame) /\ uplink \in Seq(Answer)
  /\ outstanding \in Seq(Entry)
  /\ landed \subseteq Call /\ held \subseteq Call
  /\ {contested, detached, overlapped} \subseteq BOOLEAN
  /\ lost \in 0..MaxLost /\ cuts \in 0..MaxCuts

---------------------------------------------------------------------------
Init ==
  /\ direct \in BOOLEAN
  /\ locked = FALSE /\ stop = "idle"
  /\ call = [c \in Call |-> [pc |-> "ready", key |-> SafeKey, value |-> 0, status |-> "none"]]
  /\ row = [c \in Call |-> "none"]
  /\ device \in [Key -> Value]
  /\ downlink = <<>> /\ uplink = <<>> /\ outstanding = <<>>
  /\ landed = {} /\ held = {} /\ contested = FALSE /\ detached = FALSE /\ overlapped = FALSE
  /\ lost = 0 /\ cuts = 0

Goes(c, pc) == call' = [call EXCEPT ![c].pc = pc]
Reports(c, status) == call' = [call EXCEPT ![c].pc = "insert", ![c].status = status]

\* The device takes a write: the calls whose value a register then shows.
Shown(regs) == {c \in Call : call[c].pc # "ready" /\ regs[call[c].key] = call[c].value}
Takes(c) ==
  /\ device' = [device EXCEPT ![call[c].key] = call[c].value]
  /\ landed' = landed \cup {c}
  /\ held' = held \cup Shown(device')

UnderWay ==
  \/ \E d \in Call : call[d].pc \notin {"ready", "done"}
  \/ downlink # <<>> \/ uplink # <<>> \/ outstanding # <<>>
Begins(c, k, v) ==
  /\ call[c].pc = "ready"
  /\ call' = [call EXCEPT ![c] = [pc |-> "check", key |-> k, value |-> v, status |-> "none"]]
  /\ held' = IF device[k] = v THEN held \cup {c} ELSE held
  /\ overlapped' = (overlapped \/ UnderWay)

Start(c) ==
  /\ c # Stop
  /\ \E k \in Key, v \in Value : Begins(c, k, v)
  /\ UNCHANGED <<direct, locked, stop, row, device, downlink, uplink, outstanding,
                 landed, contested, detached, bounds>>

\* setLock: the safe state before the lock.
PressStop ==
  /\ stop = "idle"
  /\ stop' = "safing"
  /\ Begins(Stop, SafeKey, 0)
  /\ contested' = (contested \/ \E c \in Call : call[c].pc = "write")
  /\ UNCHANGED <<direct, locked, row, device, downlink, uplink, outstanding,
                 landed, detached, bounds>>

Refuses(c) == locked

\* controlLock: refused, with a row that says so, or on to the bus.
Check(c) ==
  /\ call[c].pc = "check"
  /\ IF Refuses(c)
     THEN Reports(c, "failed") /\ UNCHANGED contested
     ELSE /\ Goes(c, "write")
          /\ contested' = (contested \/ (c # Stop /\ stop = "safing"))
  /\ UNCHANGED <<direct, locked, stop, row, device, downlink, uplink, outstanding,
                 landed, held, detached, overlapped, bounds>>

---------------------------------------------------------------------------
\* A device with an address of its own: writeRegister ...
Lands(c) ==
  /\ direct /\ call[c].pc = "write"
  /\ Takes(c)
  /\ Goes(c, "verify")
  /\ UNCHANGED <<direct, locked, stop, row, downlink, uplink, outstanding,
                 contested, detached, overlapped, bounds>>

\* Mutant: the status of a dry run.
VerdictPreview(c) == "preview"
Verdict(c) == IF device[call[c].key] = call[c].value THEN "ok" ELSE "failed"

\* ... readHoldingRegisters ...
ReadsBack(c) ==
  /\ call[c].pc = "verify"
  /\ Reports(c, Verdict(c))
  /\ UNCHANGED <<direct, locked, stop, row, device, downlink, uplink, outstanding,
                 history, bounds>>

\* Mutant: the exception is rethrown.
OnFailureRethrow(c) == Goes(c, "done")
OnFailure(c) == Reports(c, "failed")

\* ... or an exception of either, which becomes a failed command.
ConnectionFails(c) ==
  /\ lost < MaxLost /\ lost' = lost + 1
  /\ direct /\ call[c].pc \in {"write", "verify"}
  /\ OnFailure(c)
  /\ UNCHANGED <<direct, locked, stop, row, device, downlink, uplink, outstanding,
                 history, cuts>>

\* Behind a C30: the frame of the write, then the frame of the read.
FrameOf(c) == [kind |-> call[c].pc, by |-> c]
Publish(c) ==
  /\ ~direct
  /\ downlink' = Append(downlink, FrameOf(c))
  /\ \/ call[c].pc = "write" /\ Goes(c, "read")
     \/ call[c].pc = "read" /\ Goes(c, "register")
  /\ UNCHANGED <<direct, locked, stop, row, device, uplink, outstanding, history, bounds>>

(***************************************************************************)
(* sendControlFrame throws, with the frame sent or not: no ControlError, so  *)
(* executeAndLog rethrows it and inserts nothing.                            *)
(***************************************************************************)
PublishFails(c) ==
  /\ lost < MaxLost /\ lost' = lost + 1
  /\ ~direct /\ call[c].pc \in {"write", "read"}
  /\ downlink' \in {downlink, Append(downlink, FrameOf(c))}
  /\ Goes(c, "done")
  /\ UNCHANGED <<direct, locked, stop, row, device, uplink, outstanding, history,
                 cuts>>

\* registerOutstanding
Register(c) ==
  /\ call[c].pc = "register"
  /\ outstanding' = Append(outstanding, [by |-> c, command |-> None, expired |-> FALSE])
  /\ Reports(c, "sent")
  /\ UNCHANGED <<direct, locked, stop, row, device, downlink, uplink, history, bounds>>

\* executeAndLog: the row ...
Insert(c) ==
  /\ call[c].pc = "insert"
  /\ row' = [row EXCEPT ![c] = call[c].status]
  /\ Goes(c, IF call[c].status = "sent" THEN "attach" ELSE "done")
  /\ UNCHANGED <<direct, locked, stop, device, downlink, uplink, outstanding,
                 history, bounds>>

InsertFails(c) ==
  /\ cuts < MaxCuts /\ cuts' = cuts + 1
  /\ call[c].pc = "insert"
  /\ Goes(c, "done")
  /\ UNCHANGED <<direct, locked, stop, row, device, downlink, uplink, outstanding,
                 history, lost>>

\* ... and attachVerifyCommand: the first entry without a row.
Unattached == {i \in DOMAIN outstanding : outstanding[i].command = None}
Attachable == {i \in Unattached : \A j \in Unattached : i <= j}

Attach(c) ==
  /\ call[c].pc = "attach"
  /\ \/ /\ Attachable = {} /\ UNCHANGED outstanding
     \/ \E i \in Attachable : outstanding' = [outstanding EXCEPT ![i].command = c]
  /\ Goes(c, "done")
  /\ UNCHANGED <<direct, locked, stop, row, device, downlink, uplink, history, bounds>>

---------------------------------------------------------------------------
\* The gateway puts the next frame on the bus, the device answers a read.
Deliver ==
  /\ downlink # <<>>
  /\ LET f == Head(downlink) IN
       \/ f.kind = "write" /\ Takes(f.by) /\ UNCHANGED uplink
       \/ /\ f.kind = "read"
          /\ uplink' = Append(uplink, [by |-> f.by, value |-> device[call[f.by].key]])
          /\ UNCHANGED <<device, landed, held>>
  /\ downlink' = Tail(downlink)
  /\ UNCHANGED <<direct, locked, stop, call, row, outstanding, contested, detached, overlapped, bounds>>

Lose ==
  /\ lost < MaxLost /\ lost' = lost + 1
  /\ \/ downlink # <<>> /\ downlink' = Tail(downlink) /\ UNCHANGED uplink
     \/ uplink # <<>> /\ uplink' = Tail(uplink) /\ UNCHANGED downlink
  /\ UNCHANGED <<direct, locked, stop, call, row, device, outstanding, history,
                 cuts>>

\* matchOutstanding: the oldest entry that has not expired.
Live == {i \in DOMAIN outstanding : ~outstanding[i].expired}
Matching == {i \in Live : \A j \in Live : i <= j}

\* Mutant: what was expected is not looked at.
ConfirmedAlways(e, value) == "ok"
\* confirmVerifiedWrite
Confirmed(e, value) == IF value = call[e.by].value THEN "ok" ELSE "failed"

(***************************************************************************)
(* handleC30Frame: the handlers of several answers await the database before *)
(* the match, so they may match in another order.  The update of the row is  *)
(* part of the step: no one else has the entry any more.                     *)
(***************************************************************************)
Handle(i) ==
  /\ uplink' = RemoveAt(uplink, i)
  /\ \/ /\ Matching = {}
        /\ UNCHANGED <<row, outstanding, detached>>
     \/ \E m \in Matching :
          LET e == outstanding[m] IN
          /\ outstanding' = RemoveAt(outstanding, m)
          /\ row' = IF e.command = None THEN row
                    ELSE [row EXCEPT ![e.command] = Confirmed(e, uplink[i].value)]
          /\ detached' = (detached \/ e.command = None)
  /\ UNCHANGED <<direct, locked, stop, call, device, downlink, landed, held, contested, overlapped, bounds>>

\* The deadlines pass in the order of registration.
Expire ==
  /\ \E m \in Matching : outstanding' = [outstanding EXCEPT ![m].expired = TRUE]
  /\ UNCHANGED <<direct, locked, stop, call, row, device, downlink, uplink, history, bounds>>

\* bucket.filter: the deadlines pass in the order of registration, so what is
\* left begins with the first entry that is alive.
Alive ==
  IF Live = {} THEN <<>>
  ELSE SubSeq(outstanding, CHOOSE m \in Matching : TRUE, Len(outstanding))

\* Mutant: the entries go, the rows stay.
SweptForgets(expired) == row
\* sweepOutstanding: the rows of expired entries.
Swept(expired) ==
  [c \in Call |-> IF \E e \in expired : e.command = c THEN "failed" ELSE row[c]]

Sweep ==
  LET expired == {outstanding[i] : i \in DOMAIN outstanding \ Live} IN
  /\ expired # {}
  /\ outstanding' = Alive
  /\ row' = Swept(expired)
  /\ detached' = (detached \/ \E e \in expired : e.command = None)
  /\ UNCHANGED <<direct, locked, stop, call, device, downlink, uplink, landed, held,
                 contested, overlapped, bounds>>

\* The update of a row fails; its entry is gone all the same.
SettleFails ==
  /\ cuts < MaxCuts /\ cuts' = cuts + 1
  /\ \/ /\ \E i \in DOMAIN uplink : uplink' = RemoveAt(uplink, i)
        /\ \E m \in Matching : outstanding' = RemoveAt(outstanding, m)
     \/ /\ Live # DOMAIN outstanding
        /\ outstanding' = Alive
        /\ UNCHANGED uplink
  /\ UNCHANGED <<direct, locked, stop, call, row, device, downlink, history, lost>>

---------------------------------------------------------------------------
\* Mutant: the device is locked first, and the safe state is tried behind it.
MayLockFirst == stop = "safing"
\* The safe-state write is over, well or not.
MayLock == stop = "safing" /\ call[Stop].pc = "done"

Lock ==
  /\ MayLock
  /\ locked' = TRUE /\ stop' = "over"
  /\ UNCHANGED <<direct, call, row, device, downlink, uplink, outstanding, history, bounds>>

Release ==
  /\ locked
  /\ locked' = FALSE
  /\ UNCHANGED <<direct, stop, call, row, device, downlink, uplink, outstanding,
                 history, bounds>>

\* The process ends with its calls and its registry; the broker keeps the frames.
Crash ==
  /\ cuts < MaxCuts /\ cuts' = cuts + 1
  /\ call' = [c \in Call |->
       IF call[c].pc = "ready" THEN call[c] ELSE [call[c] EXCEPT !.pc = "done"]]
  /\ outstanding' = <<>>
  /\ stop' = IF stop = "safing" THEN "over" ELSE stop
  /\ UNCHANGED <<direct, locked, row, device, downlink, uplink, history, lost>>

CallStep(c) ==
  \/ Check(c)
  \/ Lands(c)
  \/ ReadsBack(c)
  \/ Publish(c)
  \/ Register(c)
  \/ Insert(c)
  \/ Attach(c)

Next ==
  \/ \E c \in Call :
       \/ Start(c)
       \/ CallStep(c)
       \/ ConnectionFails(c)
       \/ PublishFails(c)
       \/ InsertFails(c)
  \/ PressStop
  \/ Deliver
  \/ Lose
  \/ \E i \in DOMAIN uplink : Handle(i)
  \/ Expire
  \/ Sweep
  \/ SettleFails
  \/ Lock
  \/ Release
  \/ Crash

Spec == Init /\ [][Next]_vars

\* A call goes on behind its insert, the sweep runs every 30 s, and time passes.
FairSpec ==
  /\ Spec
  /\ WF_vars(\E c \in Call : Attach(c)) /\ WF_vars(Expire) /\ WF_vars(Sweep)

---------------------------------------------------------------------------
(***************************************************************************)
(* "the order is what decides whether an emergency stop actually stops       *)
(* anything" (routers/control.ts:122-124): once the lock is set and the      *)
(* frames are out, the register setLock drives to 0 is 0 - if nothing was    *)
(* lost, and no other call was let past the lock while setLock was under way.*)
(***************************************************************************)
StopStops ==
  locked /\ downlink = <<>> /\ lost = 0 /\ ~contested => device[SafeKey] = 0

(***************************************************************************)
(* "compares the read-back register value against the written value"         *)
(* (c30-outstanding.ts:12-13): a command that is reported ok took effect -   *)
(* the register held its value at some time after the call began.            *)
(***************************************************************************)
OkVerified == \A c \in Call : row[c] = "ok" => c \in held

(***************************************************************************)
(* OkVerified of a device that is commanded by one call after the other,     *)
(* whatever is lost, late or cut short.                                      *)
(***************************************************************************)
OkVerifiedApart == ~overlapped => OkVerified

(***************************************************************************)
(* "so a command never sits in sent forever" (mqtt/service.ts:352-354), as   *)
(* long as the process goes on, its statements succeed and no entry goes     *)
(* before its row is attached: lost frames and late answers are excused by   *)
(* nothing.                                                                  *)
(***************************************************************************)
SentSettles ==
  \A c \in Call :
    row[c] = "sent" ~> row[c] # "sent" \/ detached \/ cuts > 0

(***************************************************************************)
(* "Execute + ALWAYS log to commands (audit trail)" (execute.ts:284): a call *)
(* that is over has its row if its write reached the device.  Excused are a  *)
(* statement that failed and a process end, and behind a C30 anything lost:  *)
(* there a publish that fails behind the write leaves no row.                *)
(***************************************************************************)
AlwaysLogged ==
  \A c \in Call :
    call[c].pc = "done" /\ c \in landed
      => row[c] # "none" \/ cuts > 0 \/ (~direct /\ lost > 0)

=============================================================================
