---------------------------- MODULE LeaderLease ----------------------------
(***************************************************************************)
(* Single-writer leases (api/lib/leader.ts): one row of leader_leases that   *)
(* the replicas of a loop (EMS controller, OTA manager, poller, ...) race    *)
(* for at every tick.  A tick asks the database twice - INSERT IGNORE, then  *)
(* a conditional UPDATE - and runs the loop's body when one of them affected *)
(* the row.                                                                  *)
(*                                                                           *)
(* Times are kept as seconds still to go on the database's clock, so a value *)
(* below 0 is a timestamp in the past; they all decrease together.  A tick   *)
(* computes the expiry it will write from its replica's own clock, which is  *)
(* off by a fixed skew.  Nothing stops an interval timer from starting a     *)
(* tick while an earlier one still runs: a replica has several tick slots.   *)
(***************************************************************************)
EXTENDS Integers

CONSTANTS
  Replica,      \* app replicas
  Slot,         \* ticks a replica can have under way at once
  TTL,          \* ttlMs, in time units
  MaxSkew,      \* bound: replica clock against database clock
  MaxCrashes,   \* bound: replica crashes
  MaxDbFails,   \* bound: failed lease statements
  NoOne,        \* there is no row
  Gone          \* the holder id of a process that has died

ASSUME LeaseAssumption ==
  /\ TTL \in Nat
  /\ MaxSkew \in 0..TTL
  /\ MaxCrashes \in Nat
  /\ MaxDbFails \in Nat
  /\ NoOne \notin Replica
  /\ Gone \notin Replica
  /\ NoOne # Gone

VARIABLES
  up,        \* is the replica's process running?
  skew,      \* replica clock minus database clock
  lease,     \* the row: holder and time left until expires_at
  tick,      \* per replica and slot: where the tick is, time left of its expiry
  crashes,   \* bound counter
  dbFails    \* bound counter

vars == <<up, skew, lease, tick, crashes, dbFails>>

Holder == Replica \cup {NoOne, Gone}

\* Time left: -1 stands for any time in the past.
Left == -1..(TTL + MaxSkew)

Tick == [pc : {"idle", "insert", "update", "acting"}, left : Left]
Idle == [pc |-> "idle", left |-> -1]

TypeOK ==
  /\ up \in [Replica -> BOOLEAN]
  /\ skew \in [Replica -> -MaxSkew..MaxSkew]
  /\ lease \in [holder : Holder, left : Left]
  /\ tick \in [Replica -> [Slot -> Tick]]
  /\ crashes \in 0..MaxCrashes
  /\ dbFails \in 0..MaxDbFails

---------------------------------------------------------------------------
Init ==
  /\ up = [r \in Replica |-> TRUE]
  /\ skew \in [Replica -> -MaxSkew..MaxSkew]
  /\ lease = [holder |-> NoOne, left |-> -1]
  /\ tick = [r \in Replica |-> [k \in Slot |-> Idle]]
  /\ crashes = 0
  /\ dbFails = 0

\* Mutant: the renewal extends the stored expiry.
NewExpiryAdds(r) == lease.left + TTL
\* new Date(Date.now() + ttlMs), seen from the database's clock.
NewExpiry(r) == TTL + skew[r]

\* Mutants: an expiry of this very second counts as past; only the holder renews.
MayTakeEarly(r) == lease.holder = r \/ lease.left <= 0
MayTakeOwn(r) == lease.holder = r
\* holder = HOLDER_ID OR expires_at < CURRENT_TIMESTAMP.
MayTake(r) == lease.holder = r \/ lease.left < 0

SetTick(r, k, t) == tick' = [tick EXCEPT ![r][k] = t]
Write(r, k) == lease' = [holder |-> r, left |-> tick[r][k].left]

\* The interval fires: withLease -> acquireLease, which fixes the expiry first.
Start(r, k) ==
  /\ up[r]
  /\ tick[r][k].pc = "idle"
  /\ SetTick(r, k, [pc |-> "insert", left |-> NewExpiry(r)])
  /\ UNCHANGED <<up, skew, lease, crashes, dbFails>>

\* INSERT IGNORE: creates the row, or loses to the existing one.
Insert(r, k) ==
  /\ tick[r][k].pc = "insert"
  /\ IF lease.holder = NoOne
     THEN /\ Write(r, k)
          /\ SetTick(r, k, [tick[r][k] EXCEPT !.pc = "acting"])
     ELSE /\ SetTick(r, k, [tick[r][k] EXCEPT !.pc = "update"])
          /\ UNCHANGED lease
  /\ UNCHANGED <<up, skew, crashes, dbFails>>

\* The conditional UPDATE: renewed or taken, or this tick is skipped.
Update(r, k) ==
  /\ tick[r][k].pc = "update"
  /\ IF MayTake(r)
     THEN /\ Write(r, k)
          /\ SetTick(r, k, [tick[r][k] EXCEPT !.pc = "acting"])
     ELSE /\ SetTick(r, k, Idle)
          /\ UNCHANGED lease
  /\ UNCHANGED <<up, skew, crashes, dbFails>>

(***************************************************************************)
(* A lease statement throws: the replica stands down.  The statement may     *)
(* have reached the database all the same.                                   *)
(***************************************************************************)
DbFails(r, k) ==
  /\ dbFails < MaxDbFails
  /\ dbFails' = dbFails + 1
  /\ tick[r][k].pc \in {"insert", "update"}
  /\ SetTick(r, k, Idle)
  /\ \/ UNCHANGED lease
     \/ /\ tick[r][k].pc = "insert" /\ lease.holder = NoOne
        /\ Write(r, k)
     \/ /\ tick[r][k].pc = "update" /\ MayTake(r)
        /\ Write(r, k)
  /\ UNCHANGED <<up, skew, crashes>>

\* fn() settles.
Finish(r, k) ==
  /\ tick[r][k].pc = "acting"
  /\ SetTick(r, k, Idle)
  /\ UNCHANGED <<up, skew, lease, crashes, dbFails>>

\* The process dies.  Its HOLDER_ID is never used again.
Crash(r) ==
  /\ up[r]
  /\ crashes < MaxCrashes
  /\ crashes' = crashes + 1
  /\ up' = [up EXCEPT ![r] = FALSE]
  /\ tick' = [tick EXCEPT ![r] = [k \in Slot |-> Idle]]
  /\ lease' = IF lease.holder = r THEN [lease EXCEPT !.holder = Gone] ELSE lease
  /\ UNCHANGED <<skew, dbFails>>

Restart(r) ==
  /\ ~up[r]
  /\ up' = [up EXCEPT ![r] = TRUE]
  /\ UNCHANGED <<skew, lease, tick, crashes, dbFails>>

\* A unit of time passes.
Older(left) == IF left = -1 THEN -1 ELSE left - 1
Age ==
  /\ lease' = [lease EXCEPT !.left = Older(@)]
  /\ tick' = [r \in Replica |-> [k \in Slot |-> [tick[r][k] EXCEPT !.left = Older(@)]]]
  /\ UNCHANGED <<up, skew, crashes, dbFails>>

Next ==
  \/ \E r \in Replica, k \in Slot :
       \/ Start(r, k)
       \/ Insert(r, k)
       \/ Update(r, k)
       \/ DbFails(r, k)
       \/ Finish(r, k)
  \/ \E r \in Replica :
       \/ Crash(r)
       \/ Restart(r)
  \/ Age

Spec == Init /\ [][Next]_vars

(***************************************************************************)
(* Interval timers keep firing, statements and ticks settle, a dead replica  *)
(* is restarted and time passes.  Failures are finitely many (MaxDbFails).   *)
(***************************************************************************)
Fairness ==
  /\ \A r \in Replica, k \in Slot :
       /\ WF_vars(Start(r, k))
       /\ WF_vars(Insert(r, k))
       /\ WF_vars(Update(r, k))
       /\ WF_vars(Finish(r, k))
  /\ \A r \in Replica : WF_vars(Restart(r))
  /\ WF_vars(Age)

FairSpec == Spec /\ Fairness

---------------------------------------------------------------------------
Acting(r, k) == tick[r][k].pc = "acting"

(***************************************************************************)
(* The lease's promise to a loop: of two replicas acting at once, at least   *)
(* one has outlived the expiry it asked for.  It holds for replicas whose    *)
(* ticks do not overlap with themselves (one slot), whatever the skews, the  *)
(* crashes and the statements that fail or take effect unseen.               *)
(***************************************************************************)
Exclusive ==
  \A r, s \in Replica : \A j, k \in Slot :
    r # s /\ Acting(r, j) /\ Acting(s, k) => tick[r][j].left < 0 \/ tick[s][k].left < 0

(***************************************************************************)
(* What makes Exclusive inductive: a tick that acts within its expiry is     *)
(* covered by the row, which still names its replica for at least as long.   *)
(***************************************************************************)
Covered ==
  \A r \in Replica : \A k \in Slot :
    Acting(r, k) /\ tick[r][k].left >= 0 => lease.holder = r /\ lease.left >= tick[r][k].left

(***************************************************************************)
(* "A replica that dies stops renewing, and another takes over once the      *)
(* lease expires" (leader.ts:14-16): a dead holder's lease ends up with a    *)
(* replica that acts on it.                                                  *)
(***************************************************************************)
HandsOver ==
  lease.holder = Gone ~> \E r \in Replica : lease.holder = r /\ \E k \in Slot : Acting(r, k)

=============================================================================
