--------------------------- MODULE Polling_proofs ---------------------------
(***************************************************************************)
(* Theorems about LeaderLease, Poller and Polling for every set of replicas, *)
(* devices, units and hosts, every ttl and skew, and any number of crashes,  *)
(* failed statements and faults.  The lease comes first; a refresh is a tick *)
(* of it, so what makes it exclusive holds of the refreshes too, and of two  *)
(* replicas that poll one device one has outlived the lease it last          *)
(* reconciled under.  The sockets of one replica come last.                  *)
(***************************************************************************)
EXTENDS Polling, TLAPS, FiniteSetTheorems

USE DEF Holder, Left

(***************************************************************************)
(* A tick's expiry, as acquireLease computes it, is a time left.             *)
(***************************************************************************)
LEMMA NewExpiryType ==
  ASSUME TypeOK, NEW r \in Replica
  PROVE  NewExpiry(r) \in Left
<1>1. skew[r] \in -MaxSkew..MaxSkew
  BY DEF TypeOK
<1>2. QED
  BY <1>1, LeaseAssumption DEF NewExpiry

\* Setting one slot keeps the table of ticks well-typed, and the other slots.
LEMMA SetTickType ==
  ASSUME TypeOK, NEW r \in Replica, NEW k \in Slot, NEW t \in Tick, SetTick(r, k, t)
  PROVE  /\ tick' \in [Replica -> [Slot -> Tick]]
         /\ tick'[r][k] = t
         /\ \A q \in Replica : \A j \in Slot : q # r \/ j # k => tick'[q][j] = tick[q][j]
BY DEF TypeOK, SetTick

\* Every move of a tick that keeps its expiry yields a tick.
LEMMA MoveType ==
  ASSUME TypeOK, NEW r \in Replica, NEW k \in Slot
  PROVE  /\ Idle \in Tick
         /\ tick[r][k] \in Tick
         /\ [tick[r][k] EXCEPT !.pc = "acting"] \in Tick
         /\ [tick[r][k] EXCEPT !.pc = "update"] \in Tick
         /\ [holder |-> r, left |-> tick[r][k].left] \in [holder : Holder, left : Left]
BY LeaseAssumption DEF TypeOK, Tick, Idle

\* Time left stays a time left when it grows older.
LEMMA OlderType ==
  ASSUME NEW n \in Left
  PROVE  /\ Older(n) \in Left
         /\ Older(n) >= 0 => n = Older(n) + 1
         /\ n >= 1 => Older(n) = n - 1
BY LeaseAssumption DEF Older

\* Every step of a tick, a process or the clock keeps the types.
LEMMA LeaseTypeNext == TypeOK /\ [Next]_vars => TypeOK'
<1> SUFFICES ASSUME TypeOK, [Next]_vars PROVE TypeOK'
  OBVIOUS
<1>1. ASSUME NEW r \in Replica, NEW k \in Slot, Start(r, k) PROVE TypeOK'
  <2>1. [pc |-> "insert", left |-> NewExpiry(r)] \in Tick
    BY NewExpiryType DEF Tick
  <2>2. QED
    BY <1>1, <2>1, SetTickType DEF Start, TypeOK
<1>2. ASSUME NEW r \in Replica, NEW k \in Slot, Insert(r, k) PROVE TypeOK'
  <2>1. tick' \in [Replica -> [Slot -> Tick]]
    BY <1>2, SetTickType, MoveType DEF Insert
  <2>2. lease' \in [holder : Holder, left : Left]
    BY <1>2, MoveType DEF Insert, Write, TypeOK
  <2>3. QED
    BY <1>2, <2>1, <2>2 DEF Insert, TypeOK
<1>3. ASSUME NEW r \in Replica, NEW k \in Slot, Update(r, k) PROVE TypeOK'
  <2>1. tick' \in [Replica -> [Slot -> Tick]]
    BY <1>3, SetTickType, MoveType DEF Update
  <2>2. lease' \in [holder : Holder, left : Left]
    <3>1. lease' = lease \/ lease' = [holder |-> r, left |-> tick[r][k].left]
      BY <1>3, Zenon DEF Update, Write
    <3>2. QED
      BY <3>1, MoveType DEF TypeOK
  <2>3. QED
    BY <1>3, <2>1, <2>2 DEF Update, TypeOK
<1>4. ASSUME NEW r \in Replica, NEW k \in Slot, DbFails(r, k) PROVE TypeOK'
  <2>1. tick' \in [Replica -> [Slot -> Tick]]
    BY <1>4, SetTickType, MoveType DEF DbFails
  <2>2. lease' \in [holder : Holder, left : Left]
    BY <1>4, MoveType DEF DbFails, Write, TypeOK
  <2>3. dbFails' \in 0..MaxDbFails
    BY <1>4, LeaseAssumption DEF DbFails, TypeOK
  <2>4. QED
    BY <1>4, <2>1, <2>2, <2>3 DEF DbFails, TypeOK
<1>5. ASSUME NEW r \in Replica, NEW k \in Slot, Finish(r, k) PROVE TypeOK'
  BY <1>5, SetTickType, MoveType DEF Finish, TypeOK
<1>6. ASSUME NEW r \in Replica, Crash(r) PROVE TypeOK'
  <2>1. tick' \in [Replica -> [Slot -> Tick]]
    BY <1>6, LeaseAssumption DEF Crash, TypeOK, Tick, Idle
  <2>2. lease' \in [holder : Holder, left : Left]
    BY <1>6 DEF Crash, TypeOK
  <2>3. crashes' \in 0..MaxCrashes
    BY <1>6, LeaseAssumption DEF Crash, TypeOK
  <2>4. QED
    BY <1>6, <2>1, <2>2, <2>3 DEF Crash, TypeOK
<1>7. ASSUME NEW r \in Replica, Restart(r) PROVE TypeOK'
  BY <1>7 DEF Restart, TypeOK
<1>8. ASSUME Age PROVE TypeOK'
  <2>1. lease' \in [holder : Holder, left : Left]
    BY <1>8, OlderType DEF Age, TypeOK
  <2>2. \A r \in Replica : \A k \in Slot :
          [tick[r][k] EXCEPT !.left = Older(@)] \in Tick
    <3> TAKE r \in Replica
    <3> TAKE k \in Slot
    <3>1. tick[r][k] \in Tick /\ tick[r][k].left \in Left
      BY DEF TypeOK, Tick
    <3>2. Older(tick[r][k].left) \in Left
      BY <3>1, OlderType
    <3>3. QED
      BY <3>1, <3>2 DEF Tick
  <2>3. tick' \in [Replica -> [Slot -> Tick]]
    BY <1>8, <2>2 DEF Age
  <2>4. QED
    BY <1>8, <2>1, <2>3 DEF Age, TypeOK
<1>9. CASE UNCHANGED vars
  BY <1>9 DEF vars, TypeOK
<1>10. QED
  BY <1>1, <1>2, <1>3, <1>4, <1>5, <1>6, <1>7, <1>8, <1>9 DEF Next

(***************************************************************************)
(* The row, the ticks and the clocks stay within their types.                *)
(***************************************************************************)
THEOREM LeaseTypeCorrect == Spec => []TypeOK
<1>1. Init => TypeOK
  BY LeaseAssumption DEF Init, TypeOK, Tick, Idle
<1>2. TypeOK /\ [Next]_vars => TypeOK'
  BY LeaseTypeNext
<1>3. QED
  BY <1>1, <1>2, PTL DEF Spec

(***************************************************************************)
(* Of two replicas acting at once one has outlived its expiry, provided no   *)
(* replica overlaps its own ticks.  A granted tick wrote the row, so at that *)
(* moment the row covers it; the row then changes only by the replica's own  *)
(* next tick, which the single slot starts after this one, or by a take-over *)
(* of an expired row, and then this tick's expiry is past as well.           *)
(***************************************************************************)
OneSlot == \A j, k \in Slot : j = k

LEMMA CoveredInductive ==
  ASSUME OneSlot
  PROVE  TypeOK /\ Covered /\ [Next]_vars => Covered'
<1> SUFFICES ASSUME TypeOK, Covered, [Next]_vars,
                    NEW q \in Replica, NEW j \in Slot,
                    Acting(q, j)', tick'[q][j].left >= 0
             PROVE  lease'.holder = q /\ lease'.left >= tick'[q][j].left
  BY DEF Covered, Acting
<1> USE DEF Acting
<1>0. tick[q][j] \in Tick /\ lease \in [holder : Holder, left : Left]
  BY DEF TypeOK
<1>1. ASSUME NEW r \in Replica, NEW k \in Slot, Start(r, k)
      PROVE  lease'.holder = q /\ lease'.left >= tick'[q][j].left
  BY <1>1 DEF Start, SetTick, TypeOK, Covered
<1>2. ASSUME NEW r \in Replica, NEW k \in Slot, Insert(r, k)
      PROVE  lease'.holder = q /\ lease'.left >= tick'[q][j].left
  <2>1. CASE q = r
    <3>1. j = k
      BY DEF OneSlot
    <3>2. QED
      BY <1>0, <1>2, <2>1, <3>1 DEF Insert, SetTick, Write, TypeOK, Tick
  <2>2. CASE q # r
    <3>1. tick'[q][j] = tick[q][j]
      BY <1>2, <2>2 DEF Insert, SetTick, TypeOK
    <3>2. lease.holder = q
      BY <3>1 DEF Covered
    <3>3. QED
      BY <1>2, <3>1, <3>2, LeaseAssumption DEF Insert, Covered
  <2>3. QED
    BY <2>1, <2>2
<1>3. ASSUME NEW r \in Replica, NEW k \in Slot, Update(r, k)
      PROVE  lease'.holder = q /\ lease'.left >= tick'[q][j].left
  <2>1. CASE q = r
    <3>1. j = k
      BY DEF OneSlot
    <3>2. QED
      BY <1>0, <1>3, <2>1, <3>1 DEF Update, SetTick, Write, TypeOK, Tick, Idle
  <2>2. CASE q # r
    <3>1. tick'[q][j] = tick[q][j]
      BY <1>3, <2>2 DEF Update, SetTick, TypeOK
    <3>2. lease.holder = q /\ lease.left >= tick[q][j].left
      BY <3>1 DEF Covered
    <3>3. ~ MayTake(r)
      BY <1>0, <2>2, <3>1, <3>2 DEF MayTake, Tick
    <3>4. QED
      BY <1>3, <3>1, <3>2, <3>3 DEF Update
  <2>3. QED
    BY <2>1, <2>2
<1>4. ASSUME NEW r \in Replica, NEW k \in Slot, DbFails(r, k)
      PROVE  lease'.holder = q /\ lease'.left >= tick'[q][j].left
  <2>1. q # r
    BY <1>4 DEF DbFails, SetTick, TypeOK, Idle, OneSlot
  <2>2. tick'[q][j] = tick[q][j]
    BY <1>4, <2>1 DEF DbFails, SetTick, TypeOK
  <2>3. lease.holder = q /\ lease.left >= tick[q][j].left
    BY <2>2 DEF Covered
  <2>4. lease.holder # NoOne /\ ~ MayTake(r)
    BY <1>0, <2>1, <2>2, <2>3, LeaseAssumption DEF MayTake, Tick
  <2>5. QED
    BY <1>4, <2>2, <2>3, <2>4 DEF DbFails
<1>5. ASSUME NEW r \in Replica, NEW k \in Slot, Finish(r, k)
      PROVE  lease'.holder = q /\ lease'.left >= tick'[q][j].left
  BY <1>5 DEF Finish, SetTick, TypeOK, Covered, Idle
<1>6. ASSUME NEW r \in Replica, Crash(r)
      PROVE  lease'.holder = q /\ lease'.left >= tick'[q][j].left
  <2>1. q # r /\ tick'[q][j] = tick[q][j]
    BY <1>6 DEF Crash, TypeOK, Idle
  <2>2. lease.holder = q /\ lease.left >= tick[q][j].left
    BY <2>1 DEF Covered
  <2>3. QED
    BY <1>6, <2>1, <2>2 DEF Crash
<1>7. ASSUME NEW r \in Replica, Restart(r)
      PROVE  lease'.holder = q /\ lease'.left >= tick'[q][j].left
  BY <1>7 DEF Restart, Covered
<1>8. ASSUME Age
      PROVE  lease'.holder = q /\ lease'.left >= tick'[q][j].left
  <2>1. /\ tick'[q][j] = [tick[q][j] EXCEPT !.left = Older(tick[q][j].left)]
        /\ lease'.holder = lease.holder
        /\ lease'.left = Older(lease.left)
    BY <1>8, <1>0 DEF Age
  <2>2. /\ tick[q][j].pc = "acting"
        /\ tick'[q][j].left = Older(tick[q][j].left)
        /\ tick[q][j].left \in Left
        /\ lease.left \in Left
    BY <1>0, <2>1 DEF Tick
  <2>3. tick[q][j].left >= 1 /\ tick'[q][j].left = tick[q][j].left - 1
    BY <2>2, LeaseAssumption DEF Older
  <2>4. lease.holder = q /\ lease.left >= tick[q][j].left
    BY <2>2, <2>3 DEF Covered
  <2>5. lease'.left = lease.left - 1
    BY <2>1, <2>2, <2>3, <2>4, LeaseAssumption DEF Older
  <2>6. QED
    BY <2>1, <2>2, <2>3, <2>4, <2>5, LeaseAssumption
<1>9. CASE UNCHANGED vars
  BY <1>9 DEF vars, Covered
<1>10. QED
  BY <1>1, <1>2, <1>3, <1>4, <1>5, <1>6, <1>7, <1>8, <1>9 DEF Next

\* The row covers every tick that acts within its expiry.
THEOREM LeaseCovers == ASSUME OneSlot PROVE Spec => []Covered
<1>1. Init => Covered
  BY DEF Init, Covered, Acting, Idle
<1>2. TypeOK /\ Covered /\ [Next]_vars => Covered'
  BY CoveredInductive
<1>3. QED
  BY <1>1, <1>2, LeaseTypeCorrect, PTL DEF Spec

\* Of two replicas acting within their expiries the row would name both.
LEMMA CoveredExcludes == TypeOK /\ Covered => Exclusive
<1> SUFFICES ASSUME TypeOK, Covered,
                    NEW r \in Replica, NEW s \in Replica, NEW j \in Slot, NEW k \in Slot,
                    r # s, Acting(r, j), Acting(s, k)
             PROVE  tick[r][j].left < 0 \/ tick[s][k].left < 0
  BY DEF Exclusive
<1>1. tick[r][j].left \in Left /\ tick[s][k].left \in Left
  BY DEF TypeOK, Tick
<1>2. tick[r][j].left \in Int /\ tick[s][k].left \in Int
  BY <1>1, LeaseAssumption DEF Left
<1>3. ~(tick[r][j].left >= 0 /\ tick[s][k].left >= 0)
  <2>1. tick[r][j].left >= 0 => lease.holder = r
    BY DEF Covered
  <2>2. tick[s][k].left >= 0 => lease.holder = s
    BY DEF Covered
  <2> QED
    BY <2>1, <2>2
<1> QED
  BY <1>2, <1>3

\* Two live grants never coexist: both would be covered by one row, which names
\* one holder.
THEOREM LeaseExclusive == ASSUME OneSlot PROVE Spec => []Exclusive
<1>1. TypeOK /\ Covered => Exclusive
  BY CoveredExcludes
<1>2. QED
  BY <1>1, LeaseCovers, LeaseTypeCorrect, PTL

---------------------------------------------------------------------------
\* The supervisor.
LEMMA PollerSteps ==
  ASSUME [PollerNext]_pollerVars
  PROVE  [Next]_vars \/ \E r \in Replica, k \in Slot : QueryFails(r, k)
BY DEF PollerNext, pollerVars, pollVars, vars, Next, Refresh, HasLease, Query, Reconcile,
       Down, Up, Tock, Edit

\* A tick ends, the others stay.
LEMMA TickEnds ==
  ASSUME TypeOK, NEW r \in Replica, NEW k \in Slot, SetTick(r, k, Idle)
  PROVE  /\ tick' \in [Replica -> [Slot -> Tick]] /\ tick'[r][k] = Idle
         /\ \A q \in Replica : \A j \in Slot : q # r \/ j # k => tick'[q][j] = tick[q][j]
<1>1. Idle \in Tick
  BY MoveType
<1> QED
  BY <1>1, SetTickType

\* A query that fails ends the tick, as its return would.
LEMMA QueryFailsLeaves ==
  ASSUME TypeOK, NEW r \in Replica, NEW k \in Slot, QueryFails(r, k)
  PROVE  TypeOK' /\ (Covered => Covered')
<1>1. /\ tick' \in [Replica -> [Slot -> Tick]] /\ tick'[r][k] = Idle
      /\ \A q \in Replica : \A j \in Slot : q # r \/ j # k => tick'[q][j] = tick[q][j]
  BY TickEnds DEF QueryFails
<1>2. dbFails' \in 0..MaxDbFails
  BY LeaseAssumption DEF QueryFails, TypeOK
<1>3. TypeOK'
  BY <1>1, <1>2 DEF QueryFails, TypeOK
<1>4. ASSUME Covered PROVE Covered'
  BY <1>1, <1>4 DEF QueryFails, Covered, Acting, Idle
<1> QED
  BY <1>3, <1>4

---------------------------------------------------------------------------
\* The expiry a replica last reconciled under, and those of its ticks under way.
UntilSound(r) ==
  /\ until[r] \in Left /\ until[r] <= TTL + skew[r]
  /\ until[r] >= 0 => lease.holder = r /\ lease.left >= until[r]

TicksSound(r) ==
  \A k \in Slot :
    tick[r][k].pc # "idle" => tick[r][k].left <= TTL + skew[r] /\ until[r] <= tick[r][k].left

(***************************************************************************)
(* What makes PollsOnce inductive.  A replica that reconciled within its     *)
(* expiry is named by the row until that expiry at least; the tick that      *)
(* renews the row began later, and so does not shorten it.                   *)
(***************************************************************************)
PollInv ==
  /\ TypeOK /\ Covered
  /\ until \in [Replica -> Left]
  /\ \A r \in Replica : UntilSound(r)
  /\ \A r \in Replica : TicksSound(r)

LEMMA PollInvInit == PollerInit => PollInv
<1> SUFFICES ASSUME PollerInit PROVE PollInv
  OBVIOUS
<1>1. TypeOK /\ Covered
  BY LeaseAssumption DEF PollerInit, Init, TypeOK, Tick, Idle, Covered, Acting
<1>2. \A r \in Replica : until[r] = -1 /\ skew[r] \in -MaxSkew..MaxSkew
  BY DEF PollerInit, Init
<1>3. until \in [Replica -> Left] /\ \A r \in Replica : UntilSound(r)
  BY <1>2, LeaseAssumption DEF PollerInit, UntilSound
<1>4. \A r \in Replica : TicksSound(r)
  BY DEF PollerInit, Init, TicksSound, Idle
<1> QED
  BY <1>1, <1>3, <1>4 DEF PollInv

\* A replica that stands down claims nothing.
LEMMA StandsDownSound ==
  ASSUME PollInv, NEW r \in Replica, until'[r] = -1, skew' = skew,
         \A k \in Slot : tick'[r][k].pc = "idle"
  PROVE  UntilSound(r)' /\ TicksSound(r)'
<1>1. skew[r] \in -MaxSkew..MaxSkew
  BY DEF PollInv, TypeOK
<1> QED
  BY <1>1, LeaseAssumption DEF UntilSound, TicksSound

\* A tick moves on and keeps its expiry.
LEMMA MovesOn ==
  ASSUME TypeOK, NEW r \in Replica, NEW k \in Slot, tick[r][k].pc # "idle",
         NEW p \in {"acting", "update"}, SetTick(r, k, [tick[r][k] EXCEPT !.pc = p])
  PROVE  /\ tick'[r][k].pc = p
         /\ \A q \in Replica : \A j \in Slot :
              \/ tick'[q][j] = tick[q][j]
              \/ tick[q][j].pc # "idle" /\ tick'[q][j].left = tick[q][j].left
<1>1. [tick[r][k] EXCEPT !.pc = p] \in Tick /\ tick[r][k] \in Tick
  BY MoveType
<1>2. /\ tick'[r][k] = [tick[r][k] EXCEPT !.pc = p]
      /\ \A q \in Replica : \A j \in Slot : q # r \/ j # k => tick'[q][j] = tick[q][j]
  BY <1>1, SetTickType
<1>3. tick'[r][k].pc = p /\ tick'[r][k].left = tick[r][k].left
  BY <1>1, <1>2 DEF Tick
<1> QED
  BY <1>2, <1>3

LEMMA PollInvNext ==
  ASSUME OneSlot, PollInv, [PollerNext]_pollerVars
  PROVE  PollInv'
<1> USE DEF PollInv
<1>a. TypeOK' /\ Covered'
  BY PollerSteps, LeaseTypeNext, CoveredInductive, QueryFailsLeaves
<1>b. \A q \in Replica : /\ until[q] \in Left /\ UntilSound(q) /\ TicksSound(q)
                         /\ \A j \in Slot : tick[q][j] \in Tick /\ tick[q][j].left \in Left
  BY DEF TypeOK, Tick
<1>c. ASSUME NEW r \in Replica, NEW k \in Slot, MayTake(r) \/ lease.holder = NoOne,
             NEW q \in Replica, q # r
      PROVE  ~(until[q] >= 0)
  BY <1>b, <1>c, LeaseAssumption DEF MayTake, UntilSound, TypeOK
<1>1. ASSUME NEW r \in Replica, NEW k \in Slot, Refresh(r, k), Start(r, k) PROVE PollInv'
  <2>1. /\ tick'[r][k] = [pc |-> "insert", left |-> NewExpiry(r)]
        /\ \A q \in Replica : q # r => \A j \in Slot : tick'[q][j] = tick[q][j]
    <3>1. [pc |-> "insert", left |-> NewExpiry(r)] \in Tick
      BY NewExpiryType DEF Tick
    <3> QED
      BY <1>1, <3>1, SetTickType DEF Start
  <2>2. UNCHANGED <<until, skew, lease>>
    BY <1>1 DEF Refresh, Start, pollVars
  <2>3. UntilSound(r)' /\ TicksSound(r)'
    <3>1. \A j \in Slot : tick'[r][j] = [pc |-> "insert", left |-> TTL + skew[r]]
      BY <2>1 DEF OneSlot, NewExpiry
    <3>2. skew[r] \in Int /\ TTL \in Int /\ until[r] \in Int
      BY LeaseAssumption DEF TypeOK
    <3> QED
      BY <2>2, <3>1, <3>2 DEF UntilSound, TicksSound
  <2>4. \A q \in Replica : q # r => UntilSound(q)' /\ TicksSound(q)'
    BY <2>1, <2>2 DEF UntilSound, TicksSound
  <2> QED
    BY <1>a, <2>2, <2>3, <2>4
<1>2. ASSUME NEW r \in Replica, NEW k \in Slot, Refresh(r, k), Insert(r, k) PROVE PollInv'
  <2>1. \A q \in Replica : \A j \in Slot :
          \/ tick'[q][j] = tick[q][j]
          \/ tick[q][j].pc # "idle" /\ tick'[q][j].left = tick[q][j].left
    BY <1>2, MovesOn DEF Insert
  <2>2. UNCHANGED <<until, skew>>
    BY <1>2 DEF Refresh, Insert, pollVars
  <2>3. \A q \in Replica : until[q] >= 0 => lease' = lease
    BY <1>2, <1>b, LeaseAssumption DEF Insert, UntilSound
  <2>4. ASSUME NEW q \in Replica PROVE UntilSound(q)' /\ TicksSound(q)'
    BY <1>b, <2>1, <2>2, <2>3 DEF UntilSound, TicksSound
  <2> QED
    BY <1>a, <2>2, <2>4
<1>3. ASSUME NEW r \in Replica, NEW k \in Slot, HasLease(r, k) PROVE PollInv'
  <2>1. tick[r][k].pc # "idle"
    BY <1>3 DEF HasLease, Update, DbFails
  <2>2. CASE Update(r, k) /\ MayTake(r)
    <3>1. /\ lease' = [holder |-> r, left |-> tick[r][k].left]
          /\ SetTick(r, k, [tick[r][k] EXCEPT !.pc = "acting"])
      BY <2>2 DEF Update, Write
    <3>2. /\ tick'[r][k].pc = "acting"
          /\ \A q \in Replica : \A j \in Slot :
               \/ tick'[q][j] = tick[q][j]
               \/ tick[q][j].pc # "idle" /\ tick'[q][j].left = tick[q][j].left
      BY <2>1, <3>1, MovesOn
    <3>3. UNCHANGED <<until, skew>>
      BY <1>3, <2>2, <3>2 DEF HasLease, Update
    <3>4. UntilSound(r)'
      BY <1>b, <2>1, <3>1, <3>3 DEF UntilSound, TicksSound
    <3>5. \A q \in Replica : q # r => UntilSound(q)'
      BY <1>b, <1>c, <2>2, <3>3 DEF UntilSound
    <3>6. \A q \in Replica : TicksSound(q)'
      BY <1>b, <3>2, <3>3 DEF TicksSound
    <3> QED
      BY <1>a, <3>3, <3>4, <3>5, <3>6
  <2>3. CASE ~(Update(r, k) /\ MayTake(r))
    <3>1. /\ SetTick(r, k, Idle) /\ skew' = skew
          /\ \A q \in Replica : q # r /\ until[q] >= 0 => lease' = lease
      BY <1>3, <1>c, <2>3 DEF HasLease, Update, DbFails
    <3>2. /\ tick'[r][k] = Idle
          /\ \A q \in Replica : \A j \in Slot : q # r \/ j # k => tick'[q][j] = tick[q][j]
      BY <3>1, TickEnds
    <3>3. /\ until' \in [Replica -> Left] /\ until'[r] = -1
          /\ \A q \in Replica : q # r => until'[q] = until[q]
      BY <1>3, <3>2, LeaseAssumption DEF HasLease, StandDown, Idle
    <3>4. UntilSound(r)' /\ TicksSound(r)'
      BY <3>1, <3>2, <3>3, StandsDownSound DEF OneSlot, Idle
    <3>5. ASSUME NEW q \in Replica, q # r PROVE UntilSound(q)' /\ TicksSound(q)'
      BY <3>1, <3>2, <3>3, <3>5 DEF UntilSound, TicksSound
    <3> QED
      BY <1>a, <3>3, <3>4, <3>5
  <2> QED
    BY <2>2, <2>3
<1>4. ASSUME NEW r \in Replica, NEW k \in Slot, Reconcile(r, k) PROVE PollInv'
  <2>1. SetTick(r, k, Idle) /\ UNCHANGED <<skew, lease>> /\ Acting(r, k)
    BY <1>4 DEF Reconcile, Finish, Acting
  <2>2. /\ tick'[r][k] = Idle
        /\ \A q \in Replica : \A j \in Slot : q # r \/ j # k => tick'[q][j] = tick[q][j]
    BY <2>1, TickEnds
  <2>3. /\ until' \in [Replica -> Left] /\ until'[r] = tick[r][k].left
        /\ \A q \in Replica : q # r => until'[q] = until[q]
    BY <1>4, <1>b DEF Reconcile
  <2>4. UntilSound(r)' /\ TicksSound(r)'
    <3>1. TicksSound(r)'
      BY <2>2 DEF OneSlot, TicksSound, Idle
    <3>2. UntilSound(r)'
      BY <1>b, <2>1, <2>3 DEF UntilSound, TicksSound, Covered, Acting
    <3> QED
      BY <3>1, <3>2
  <2>5. ASSUME NEW q \in Replica, q # r PROVE UntilSound(q)' /\ TicksSound(q)'
    BY <2>1, <2>2, <2>3, <2>5 DEF UntilSound, TicksSound
  <2> QED
    BY <1>a, <2>3, <2>4, <2>5
<1>5. ASSUME NEW r \in Replica, NEW k \in Slot, QueryFails(r, k) PROVE PollInv'
  <2>1. SetTick(r, k, Idle) /\ UNCHANGED <<skew, lease, until>>
    BY <1>5 DEF QueryFails, pollVars
  <2>2. /\ tick'[r][k] = Idle
        /\ \A q \in Replica : \A j \in Slot : q # r \/ j # k => tick'[q][j] = tick[q][j]
    BY <2>1, TickEnds
  <2>3. ASSUME NEW q \in Replica PROVE UntilSound(q)' /\ TicksSound(q)'
    BY <2>1, <2>2 DEF UntilSound, TicksSound, OneSlot, Idle
  <2> QED
    BY <1>a, <2>1, <2>3
<1>6. ASSUME NEW r \in Replica, Down(r) PROVE PollInv'
  <2>1. /\ tick'[r] = [k \in Slot |-> Idle] /\ skew' = skew
        /\ \A q \in Replica : q # r => tick'[q] = tick[q]
        /\ \A q \in Replica : q # r /\ until[q] >= 0 => lease' = lease
    BY <1>6, <1>b DEF Down, Crash, TypeOK, UntilSound
  <2>2. /\ until' \in [Replica -> Left] /\ until'[r] = -1
        /\ \A q \in Replica : q # r => until'[q] = until[q]
    BY <1>6, LeaseAssumption DEF Down, StandDown
  <2>3. UntilSound(r)' /\ TicksSound(r)'
    BY <2>1, <2>2, StandsDownSound DEF Idle
  <2>4. ASSUME NEW q \in Replica, q # r PROVE UntilSound(q)' /\ TicksSound(q)'
    BY <2>1, <2>2, <2>4 DEF UntilSound, TicksSound
  <2> QED
    BY <1>a, <2>2, <2>3, <2>4
<1>7. ASSUME Tock PROVE PollInv'
  <2>1. /\ skew' = skew /\ lease'.holder = lease.holder /\ lease'.left = Older(lease.left)
        /\ lease.left \in Left
    BY <1>7 DEF Tock, Age, TypeOK
  <2>2. \A q \in Replica : \A k \in Slot : /\ tick'[q][k].pc = tick[q][k].pc
                                           /\ tick'[q][k].left = Older(tick[q][k].left)
    BY <1>7, <1>b DEF Tock, Age, Tick
  <2>3. until' \in [Replica -> Left] /\ \A q \in Replica : until'[q] = Older(until[q])
    BY <1>7, <1>b, OlderType DEF Tock
  <2>4. \A m, n \in Left : m <= n => Older(m) <= Older(n)
    BY LeaseAssumption DEF Older
  <2>5. \A n \in Left : Older(n) <= n /\ (Older(n) >= 0 => n >= 0)
    BY LeaseAssumption DEF Older
  <2>6. \A q \in Replica : skew[q] \in -MaxSkew..MaxSkew
    BY DEF TypeOK
  <2>7. ASSUME NEW q \in Replica PROVE UntilSound(q)'
    BY <1>b, <2>1, <2>3, <2>4, <2>5, <2>6, OlderType, LeaseAssumption DEF UntilSound
  <2>8. ASSUME NEW q \in Replica PROVE TicksSound(q)'
    <3> SUFFICES ASSUME NEW k \in Slot, tick'[q][k].pc # "idle"
                 PROVE  /\ tick'[q][k].left <= TTL + skew'[q]
                        /\ until'[q] <= tick'[q][k].left
      BY DEF TicksSound
    <3>1. /\ tick[q][k].left \in Left /\ until[q] \in Left
          /\ tick[q][k].left <= TTL + skew[q] /\ until[q] <= tick[q][k].left
      BY <1>b, <2>2 DEF TicksSound
    <3>2. Older(until[q]) <= Older(tick[q][k].left) /\ Older(tick[q][k].left) <= tick[q][k].left
      BY <2>4, <2>5, <3>1
    <3>3. Older(tick[q][k].left) \in Left
      BY <3>1, OlderType
    <3> QED
      BY <2>1, <2>2, <2>3, <2>6, <3>1, <3>2, <3>3, LeaseAssumption
  <2> QED
    BY <1>a, <2>3, <2>7, <2>8
<1>8. ASSUME UNCHANGED <<skew, lease, tick, until>> PROVE PollInv'
  BY <1>8, <1>a DEF UntilSound, TicksSound
<1> QED
  BY <1>1, <1>2, <1>3, <1>4, <1>5, <1>6, <1>7, <1>8
  DEF PollerNext, Refresh, Query, Up, Restart, Edit, pollerVars, pollVars, vars

(***************************************************************************)
(* Only one replica polls a device: of two with a task for it, one has       *)
(* outlived the lease it last reconciled under (refreshDevices), for         *)
(* refreshes that do not overlap with themselves.                            *)
(***************************************************************************)
THEOREM PollerPollsOnce == ASSUME OneSlot PROVE PollerSpec => []PollsOnce
<1>1. PollerInit => PollInv
  BY PollInvInit
<1>2. PollInv /\ [PollerNext]_pollerVars => PollInv'
  BY PollInvNext
<1>3. PollInv => PollsOnce
  BY DEF PollInv, PollsOnce, UntilSound
<1> QED
  BY <1>1, <1>2, <1>3, PTL DEF PollerSpec

---------------------------------------------------------------------------
\* The types of the supervisor.
LEMMA PollerTypeInit == PollerInit => PollerTypeOK
<1> SUFFICES ASSUME PollerInit PROVE PollerTypeOK
  OBVIOUS
<1>1. TypeOK
  BY PollInvInit DEF PollInv
<1>2. NoTasks \in Fleet
  BY DEF NoTasks, Fleet
<1>3. fleet = NoTasks /\ rows = [r \in Replica |-> [k \in Slot |-> NoOne]]
      /\ tasks = [r \in Replica |-> NoTasks] /\ until = [r \in Replica |-> -1]
  BY DEF PollerInit
<1>4. -1 \in Left
  BY LeaseAssumption
<1> QED
  BY <1>1, <1>2, <1>3, <1>4 DEF PollerTypeOK

LEMMA PollerTypeNext == PollerTypeOK /\ [PollerNext]_pollerVars => PollerTypeOK'
<1> SUFFICES ASSUME PollerTypeOK, [PollerNext]_pollerVars PROVE PollerTypeOK'
  OBVIOUS
<1>1. TypeOK /\ TypeOK'
  BY PollerSteps, LeaseTypeNext, QueryFailsLeaves DEF PollerTypeOK
<1>2. /\ fleet \in Fleet /\ rows \in [Replica -> [Slot -> Fleet \cup {NoOne}]]
      /\ tasks \in [Replica -> Fleet] /\ until \in [Replica -> Left]
  BY DEF PollerTypeOK
<1>3. NoTasks \in Fleet /\ -1 \in Left
  BY LeaseAssumption DEF NoTasks, Fleet
<1>4. \A r \in Replica : StandDown(r) => tasks' \in [Replica -> Fleet] /\ until' \in [Replica -> Left]
  BY <1>2, <1>3 DEF StandDown
<1>5. ASSUME NEW r \in Replica, NEW k \in Slot, Refresh(r, k) PROVE PollerTypeOK'
  BY <1>1, <1>2, <1>5 DEF PollerTypeOK, Refresh, pollVars
<1>6. ASSUME NEW r \in Replica, NEW k \in Slot, HasLease(r, k) PROVE PollerTypeOK'
  BY <1>1, <1>2, <1>4, <1>6 DEF PollerTypeOK, HasLease
<1>7. ASSUME NEW r \in Replica, NEW k \in Slot, Query(r, k) PROVE PollerTypeOK'
  <2>1. rows' \in [Replica -> [Slot -> Fleet \cup {NoOne}]]
    BY <1>2, <1>7 DEF Query
  <2> QED
    BY <1>1, <1>2, <1>7, <2>1 DEF PollerTypeOK, Query
<1>8. ASSUME NEW r \in Replica, NEW k \in Slot, Reconcile(r, k) PROVE PollerTypeOK'
  <2>1. rows[r][k] \in Fleet /\ tick[r][k].left \in Left
    BY <1>1, <1>2, <1>8 DEF Reconcile, TypeOK, Tick
  <2>2. /\ tasks' = [tasks EXCEPT ![r] = rows[r][k]]
        /\ until' = [until EXCEPT ![r] = tick[r][k].left]
        /\ rows' = [rows EXCEPT ![r][k] = NoOne] /\ fleet' = fleet
    BY <1>8 DEF Reconcile, Reconciled
  <2> QED
    BY <1>1, <1>2, <2>1, <2>2 DEF PollerTypeOK
<1>9. ASSUME NEW r \in Replica, NEW k \in Slot, QueryFails(r, k) PROVE PollerTypeOK'
  BY <1>1, <1>2, <1>9 DEF PollerTypeOK, QueryFails, pollVars
<1>10. ASSUME NEW r \in Replica, Down(r) PROVE PollerTypeOK'
  <2>1. rows' \in [Replica -> [Slot -> Fleet \cup {NoOne}]] /\ fleet' = fleet
    BY <1>2, <1>10 DEF Down
  <2> QED
    BY <1>1, <1>2, <1>4, <1>10, <2>1 DEF PollerTypeOK, Down
<1>11. ASSUME NEW r \in Replica, Up(r) PROVE PollerTypeOK'
  BY <1>1, <1>2, <1>11 DEF PollerTypeOK, Up, pollVars
<1>12. CASE Tock
  BY <1>1, <1>2, <1>12, OlderType DEF PollerTypeOK, Tock
<1>13. CASE Edit
  <2>1. PICK d \in Device, s \in Setup \cup {Absent} : fleet' = [fleet EXCEPT ![d] = s]
    BY <1>13 DEF Edit
  <2>2. fleet' \in Fleet
    BY <1>2, <2>1 DEF Fleet
  <2> QED
    BY <1>1, <1>2, <1>13, <2>2 DEF PollerTypeOK, Edit
<1>14. CASE UNCHANGED pollerVars
  BY <1>1, <1>2, <1>14 DEF PollerTypeOK, pollerVars, pollVars
<1> QED
  BY <1>5, <1>6, <1>7, <1>8, <1>9, <1>10, <1>11, <1>12, <1>13, <1>14 DEF PollerNext


---------------------------------------------------------------------------
\* The sockets of one replica.
Reads(u, e) == poll[u].pc = "read" /\ poll[u].entry = e

\* Where a poll is and what it has; a host somebody awaits has nothing open.
PollSound(u) ==
  /\ poll[u].pc = "idle" => poll[u] = B!Idle
  /\ poll[u].pc = "connect" =>
       poll[u].host \in Host /\ poll[u].entry = NoOne /\ ~B!IsOpen(conns[poll[u].host])
  /\ poll[u].pc \in {"wait", "read"} => poll[u].host \in Host /\ poll[u].entry \in B!Entry

\* A slot is taken by the one who reads on it.
SlotSound(e) ==
  /\ ~link[e].busy => \A u \in Unit : ~Reads(u, e)
  /\ link[e].busy => \E u \in Unit : Reads(u, e) /\ \A v \in Unit : Reads(v, e) => v = u

BusInv ==
  /\ B!TypeOK /\ B!NoneLeaked
  /\ \A u \in Unit : PollSound(u)
  /\ \A e \in B!Entry : SlotSound(e)

\* The constants, and the names of connections.
LEMMA BusFacts ==
  /\ Unit # {} /\ IsFiniteSet(Unit) /\ Host # {} /\ IsFiniteSet(Host)
  /\ NoOne \notin B!Entry /\ NoOne \notin Host /\ MaxFaults \in Nat
  /\ \A f : B!Range(f) = {f[x] : x \in DOMAIN f}
<1>1. \A S : B!IsFiniteSet(S) <=> IsFiniteSet(S)
  BY DEF B!IsFiniteSet, IsFiniteSet
<1>2. \A f : B!Range(f) = {f[x] : x \in DOMAIN f}
  BY DEF B!Range
<1>3. /\ Unit # {} /\ B!IsFiniteSet(Unit) /\ Host # {} /\ B!IsFiniteSet(Host)
      /\ NoOne \notin B!Entry /\ NoOne \notin Host /\ MaxFaults \in Nat
  BY PollingAssumption DEF PollingAssumption, B!BusAssumption
<1> QED
  BY <1>1, <1>2, <1>3

\* The image of a set is no larger than the set.
LEMMA ImageNoLarger ==
  ASSUME NEW S, NEW f, DOMAIN f = S, IsFiniteSet(S)
  PROVE  LET T == {f[x] : x \in S} IN IsFiniteSet(T) /\ Cardinality(T) <= Cardinality(S)
<1> DEFINE T == {f[x] : x \in S}
           g == [x \in S |-> f[x]]
<1>1. g \in Surjection(S, T)
  BY DEF Surjection
<1> HIDE DEF T, g
<1>2. IsFiniteSet(T) /\ Cardinality(T) <= Cardinality(S)
  BY <1>1, FS_Surjection
<1> QED
  BY <1>2 DEF T

LEMMA BusInit == B!Init => BusInv
<1> SUFFICES ASSUME B!Init PROVE BusInv
  OBVIOUS
<1>1. B!TypeOK
  BY BusFacts DEF B!Init, B!TypeOK, B!Idle, B!Link, B!NoLink
<1>2. \A e \in B!Entry : link[e].state = "closed" /\ ~link[e].busy
  BY DEF B!Init, B!NoLink
<1>3. B!NoneLeaked
  BY <1>2 DEF B!NoneLeaked, B!IsOpen
<1>4. \A u \in Unit : poll[u] = B!Idle /\ poll[u].pc = "idle"
  BY DEF B!Init, B!Idle
<1>5. \A u \in Unit : PollSound(u)
  BY <1>4 DEF PollSound
<1>6. \A e \in B!Entry : SlotSound(e)
  BY <1>2, <1>4 DEF SlotSound, Reads
<1> QED
  BY <1>1, <1>3, <1>5, <1>6 DEF BusInv

(***************************************************************************)
(* There is a name left for a new connection as long as somebody awaits one: *)
(* the others hold on to one each, and each host has one.                    *)
(***************************************************************************)
LEMMA NameLeft ==
  ASSUME B!TypeOK, NEW v \in Unit, poll[v].entry = NoOne
  PROVE  B!Unused # {}
<1> DEFINE held == {poll[u].entry : u \in Unit \ {v}}
           had == {conns[h] : h \in Host}
<1>1. /\ IsFiniteSet(had) /\ Cardinality(had) <= Cardinality(Host)
  <2>1. DOMAIN conns = Host
    BY DEF B!TypeOK
  <2> QED
    BY <2>1, BusFacts, ImageNoLarger
<1>2. /\ IsFiniteSet(Unit \ {v}) /\ Cardinality(Unit \ {v}) = Cardinality(Unit) - 1
      /\ Cardinality(Unit) \in Nat /\ Cardinality(Host) \in Nat
  BY BusFacts, FS_RemoveElement, FS_CardinalityType
<1>3. IsFiniteSet(held) /\ Cardinality(held) <= Cardinality(Unit) - 1
  <2> DEFINE f == [u \in Unit \ {v} |-> poll[u].entry]
  <2>1. DOMAIN f = Unit \ {v} /\ held = {f[u] : u \in Unit \ {v}}
    OBVIOUS
  <2> HIDE DEF f, held
  <2> QED
    BY <1>2, <2>1, ImageNoLarger
<1> HIDE DEF held, had
<1>4. /\ IsFiniteSet(held \cup had)
      /\ Cardinality(held \cup had) = Cardinality(held) + Cardinality(had) - Cardinality(held \cap had)
  BY <1>1, <1>3, FS_Union
<1>5. Cardinality(held \cap had) \in Nat /\ Cardinality(held) \in Nat /\ Cardinality(had) \in Nat
  BY <1>1, <1>3, FS_CardinalityType, FS_Intersection
<1>6. Cardinality(held \cup had) < Cardinality(Unit) + Cardinality(Host)
  BY <1>1, <1>2, <1>3, <1>4, <1>5
<1>7. Cardinality(B!Entry) = Cardinality(Unit) + Cardinality(Host)
  <2>1. \A n \in Nat : Cardinality(1..n) = n
    <3>1. ASSUME NEW n \in Nat PROVE Cardinality(1..n) = n
      <4>1. Cardinality(1..n) = IF 1 > n THEN 0 ELSE n - 1 + 1
        BY FS_Interval
      <4> QED
        BY <4>1
    <3> QED
      BY <3>1
  <2> QED
    <3>1. B!Entry = 1..(Cardinality(Unit) + Cardinality(Host))
      <4>1. \A S : B!Cardinality(S) = Cardinality(S)
        BY DEF B!Cardinality, Cardinality
      <4> QED
        BY <4>1 DEF B!Entry
    <3> QED
      BY <1>2, <2>1, <3>1
<1>8. ~(B!Entry \subseteq held \cup had)
  <2>1. ASSUME B!Entry \subseteq held \cup had PROVE FALSE
    <3>1. Cardinality(B!Entry) <= Cardinality(held \cup had)
      BY <1>4, <2>1, FS_Subset
    <3>2. Cardinality(held \cup had) \in Nat
      BY <1>4, FS_CardinalityType
    <3> QED
      BY <1>2, <1>6, <1>7, <3>1, <3>2
  <2> QED
    BY <2>1
<1>9. PICK e \in B!Entry : e \notin held \cup had
  BY <1>8
<1>10. e # NoOne
  BY BusFacts
<1>11. e \notin {poll[u].entry : u \in Unit}
  BY <1>9, <1>10 DEF held
<1>12. e \notin B!Range(conns)
  BY <1>9, BusFacts DEF had, B!TypeOK
<1> QED
  BY <1>9, <1>11, <1>12 DEF B!Unused


\* The rows of the table of polls, and those of the links.
PollRow == [pc : {"idle", "connect", "wait", "read"}, host : Host \cup {NoOne},
            entry : B!Entry \cup {NoOne}]

LEMMA BusTypes ==
  B!TypeOK <=>
    /\ device \in [Unit -> Host] /\ poll \in [Unit -> PollRow]
    /\ conns \in [Host -> B!Entry \cup {NoOne}] /\ link \in [B!Entry -> B!Link]
    /\ faults \in 0..MaxFaults
BY DEF B!TypeOK, PollRow

LEMMA FaultType == ASSUME B!TypeOK, B!Fault PROVE faults' \in 0..MaxFaults
<1>1. faults \in 0..MaxFaults /\ MaxFaults \in Nat /\ faults < MaxFaults /\ faults' = faults + 1
  BY BusFacts DEF B!TypeOK, B!Fault
<1> QED
  BY <1>1

(***************************************************************************)
(* Closing the connections of some hosts: none opens, none leaks, and only   *)
(* the slot that is freed changes.                                           *)
(***************************************************************************)
LEMMA DropsSound ==
  ASSUME BusInv, NEW hosts \in SUBSET Host, NEW free, B!Drops(hosts, free)
  PROVE  /\ conns' \in [Host -> B!Entry \cup {NoOne}] /\ link' \in [B!Entry -> B!Link]
         /\ B!NoneLeaked'
         /\ \A h \in Host : B!IsOpen(conns[h])' => B!IsOpen(conns[h])
         /\ \A e \in B!Entry : link'[e].busy = (link[e].busy /\ e # free)
         /\ \A e \in B!Entry : e \notin {conns[h] : h \in hosts} => link'[e].state = link[e].state
<1>1. /\ conns \in [Host -> B!Entry \cup {NoOne}] /\ link \in [B!Entry -> B!Link]
      /\ \A e \in B!Entry : link[e].state # "closed" => \E h \in Host : conns[h] = e
  <2>1. \A e \in B!Entry : e # NoOne
    BY BusFacts
  <2> QED
    BY <2>1, BusFacts DEF BusInv, BusTypes, B!TypeOK, B!NoneLeaked, B!IsOpen
<1>2. /\ conns' = [h \in Host |-> IF h \in hosts THEN NoOne ELSE conns[h]]
      /\ link' = [e \in B!Entry |->
           [state |-> IF \E h \in hosts : conns[h] = e THEN "closed" ELSE link[e].state,
            busy |-> link[e].busy /\ e # free]]
  BY DEF B!Drops
<1>3. conns' \in [Host -> B!Entry \cup {NoOne}]
  BY <1>1, <1>2
<1>4. ASSUME NEW e \in B!Entry
      PROVE  /\ link'[e] \in B!Link
             /\ link'[e].state = (IF \E h \in hosts : conns[h] = e THEN "closed" ELSE link[e].state)
             /\ link'[e].busy = (link[e].busy /\ e # free)
  <2>1. link[e] \in B!Link /\ link[e].busy \in BOOLEAN
    BY <1>1 DEF B!Link
  <2>2. (link[e].busy /\ e # free) \in BOOLEAN
    BY <2>1
  <2>3. link'[e] = [state |-> IF \E h \in hosts : conns[h] = e THEN "closed" ELSE link[e].state,
                    busy |-> link[e].busy /\ e # free]
    BY <1>2
  <2> QED
    BY <2>1, <2>2, <2>3 DEF B!Link
<1>5. link' \in [B!Entry -> B!Link]
  BY <1>2, <1>4
<1>6. B!NoneLeaked'
  <2>1. ASSUME NEW e \in B!Entry, link'[e].state # "closed"
        PROVE  \E h \in Host : conns'[h] = e
    <3>1. PICK h \in Host : conns[h] = e
      BY <1>1, <1>4, <2>1
    <3>2. h \notin hosts
      BY <1>4, <2>1, <3>1
    <3> QED
      BY <1>2, <3>1, <3>2
  <2>2. B!Range(conns)' = {conns'[h] : h \in Host}
    BY <1>3 DEF B!Range
  <2> QED
    BY <2>1, <2>2 DEF B!NoneLeaked, B!IsOpen
<1>7. ASSUME NEW h \in Host, B!IsOpen(conns[h])'
      PROVE  B!IsOpen(conns[h])
  <2>1. conns'[h] # NoOne /\ link'[conns'[h]].state # "closed"
    BY <1>7 DEF B!IsOpen
  <2>2. conns'[h] = conns[h] /\ conns[h] \in B!Entry
    BY <1>1, <1>2, <2>1
  <2> QED
    BY <1>4, <2>1, <2>2 DEF B!IsOpen
<1>8. \A e \in B!Entry : e \notin {conns[h] : h \in hosts} => link'[e].state = link[e].state
  BY <1>4
<1> QED
  BY <1>3, <1>4, <1>5, <1>6, <1>7, <1>8

(***************************************************************************)
(* One poll leaves its connection alone, the others do not move.             *)
(***************************************************************************)
LEMMA PollEnds ==
  ASSUME BusInv, NEW u \in Unit, poll[u].pc \in {"read", "wait"},
         poll' = [poll EXCEPT ![u] = B!Idle], device' = device, faults' \in 0..MaxFaults,
         conns' \in [Host -> B!Entry \cup {NoOne}], link' \in [B!Entry -> B!Link],
         B!NoneLeaked',
         \A h \in Host : B!IsOpen(conns[h])' => B!IsOpen(conns[h]),
         \A e \in B!Entry : link'[e].busy = (link[e].busy /\ (poll[u].pc = "wait" \/ e # poll[u].entry))
  PROVE  BusInv'
<1>1. B!Idle \in PollRow /\ poll \in [Unit -> PollRow] /\ device \in [Unit -> Host]
  BY BusTypes DEF B!Idle, PollRow, BusInv
<1>2. /\ poll' \in [Unit -> PollRow] /\ poll'[u] = B!Idle
      /\ \A v \in Unit \ {u} : poll'[v] = poll[v]
  BY <1>1
<1>3. B!TypeOK'
  BY <1>1, <1>2 DEF B!TypeOK, PollRow
<1>4. ASSUME NEW v \in Unit PROVE PollSound(v)'
  <2>1. CASE v = u
    BY <1>2, <2>1 DEF PollSound, B!Idle
  <2>2. CASE v # u
    BY <1>2, <2>2 DEF BusInv, PollSound
  <2> QED
    BY <2>1, <2>2
<1>5. ASSUME NEW e \in B!Entry PROVE SlotSound(e)'
  <2>1. SlotSound(e)
    BY DEF BusInv
  <2>2. \A v \in Unit : Reads(v, e)' <=> Reads(v, e) /\ v # u
    BY <1>2 DEF Reads, B!Idle
  <2>3. CASE Reads(u, e)
    <3>1. ~link'[e].busy
      BY <2>3 DEF Reads
    <3>2. \A v \in Unit : Reads(v, e) => v = u
      BY <2>1, <2>3 DEF SlotSound
    <3> QED
      BY <2>2, <3>1, <3>2 DEF SlotSound
  <2>4. CASE ~Reads(u, e)
    <3>1. link'[e].busy = link[e].busy
      <4>1. link[e].busy \in BOOLEAN
        BY DEF BusInv, B!TypeOK, B!Link
      <4>2. poll[u].pc = "wait" \/ e # poll[u].entry
        BY <2>4 DEF Reads
      <4>3. link'[e].busy = (link[e].busy /\ (poll[u].pc = "wait" \/ e # poll[u].entry))
        OBVIOUS
      <4> QED
        BY <4>1, <4>2, <4>3
    <3>2. \A v \in Unit : Reads(v, e)' <=> Reads(v, e)
      BY <2>2, <2>4
    <3> QED
      BY <2>1, <3>1, <3>2 DEF SlotSound
  <2> QED
    BY <2>3, <2>4
<1> QED
  BY <1>3, <1>4, <1>5 DEF BusInv


LEMMA GetConnKeeps ==
  ASSUME BusInv, NEW u \in Unit, B!GetConn(u)
  PROVE  BusInv'
<1> DEFINE h == device[u]
<1>1. /\ poll[u].pc = "idle" /\ UNCHANGED <<device, conns, link, faults>>
      /\ poll' = [poll EXCEPT ![u] =
           IF B!IsOpen(conns[h]) THEN [pc |-> "wait", host |-> h, entry |-> conns[h]]
           ELSE [pc |-> "connect", host |-> h, entry |-> NoOne]]
  BY DEF B!GetConn
<1>2. /\ h \in Host /\ conns[h] \in B!Entry \cup {NoOne} /\ poll \in [Unit -> PollRow]
      /\ B!TypeOK /\ B!NoneLeaked
  BY DEF BusInv, B!TypeOK, PollRow
<1>3. \/ /\ B!IsOpen(conns[h]) /\ conns[h] \in B!Entry
         /\ poll'[u] = [pc |-> "wait", host |-> h, entry |-> conns[h]]
      \/ /\ ~B!IsOpen(conns[h])
         /\ poll'[u] = [pc |-> "connect", host |-> h, entry |-> NoOne]
  BY <1>1, <1>2 DEF B!IsOpen
<1>4. poll' \in [Unit -> PollRow] /\ \A v \in Unit \ {u} : poll'[v] = poll[v]
  BY <1>1, <1>2, <1>3 DEF PollRow
<1>5. B!TypeOK'
  BY <1>1, <1>2, <1>4 DEF B!TypeOK, PollRow
<1>6. B!NoneLeaked'
  BY <1>1, <1>2 DEF B!NoneLeaked, B!IsOpen, B!Range
<1>7. \A g : B!IsOpen(conns[g])' = B!IsOpen(conns[g])
  BY <1>1 DEF B!IsOpen
<1>8. ASSUME NEW v \in Unit PROVE PollSound(v)'
  <2>1. CASE v = u
    BY <1>1, <1>2, <1>3, <1>7, <2>1 DEF PollSound
  <2>2. CASE v # u
    BY <1>1, <1>4, <1>7, <2>2 DEF BusInv, PollSound
  <2> QED
    BY <2>1, <2>2
<1>9. ASSUME NEW e \in B!Entry PROVE SlotSound(e)'
  <2>1. \A v \in Unit : Reads(v, e)' <=> Reads(v, e)
    <3>1. ~Reads(u, e) /\ ~Reads(u, e)'
      BY <1>1, <1>3 DEF Reads
    <3> QED
      BY <1>4, <3>1 DEF Reads
  <2> QED
    BY <1>1, <2>1 DEF BusInv, SlotSound
<1> QED
  BY <1>5, <1>6, <1>8, <1>9 DEF BusInv

LEMMA TakeKeeps ==
  ASSUME BusInv, NEW u \in Unit, B!Take(u)
  PROVE  BusInv'
<1> DEFINE e == poll[u].entry
<1>1. /\ poll[u].pc = "wait" /\ ~link[e].busy /\ UNCHANGED <<device, conns, faults>>
      /\ link' = [link EXCEPT ![e].busy = TRUE] /\ poll' = [poll EXCEPT ![u].pc = "read"]
  BY DEF B!Take, B!Free
<1>2. /\ poll \in [Unit -> PollRow] /\ link \in [B!Entry -> B!Link]
      /\ B!TypeOK /\ B!NoneLeaked /\ e \in B!Entry /\ poll[u].host \in Host
  BY <1>1 DEF BusInv, B!TypeOK, PollRow, PollSound
<1> HIDE DEF e
<1>3. /\ link' \in [B!Entry -> B!Link] /\ link'[e].busy
      /\ \A f \in B!Entry : link'[f].state = link[f].state
      /\ \A f \in B!Entry \ {e} : link'[f] = link[f]
  BY <1>1, <1>2 DEF B!Link
<1>4. /\ poll' \in [Unit -> PollRow] /\ poll'[u].pc = "read" /\ poll'[u].entry = poll[u].entry
      /\ poll'[u].host = poll[u].host
      /\ \A v \in Unit \ {u} : poll'[v] = poll[v]
  BY <1>1, <1>2 DEF PollRow
<1>5. B!TypeOK'
  BY <1>1, <1>2, <1>3, <1>4 DEF B!TypeOK, PollRow
<1>6. B!NoneLeaked'
  BY <1>1, <1>2, <1>3 DEF B!NoneLeaked, B!IsOpen, B!Range
<1>7. \A g \in Host : B!IsOpen(conns[g])' => B!IsOpen(conns[g])
  BY <1>1, <1>2, <1>3 DEF B!IsOpen, B!TypeOK
<1>8. ASSUME NEW v \in Unit PROVE PollSound(v)'
  <2>1. CASE v = u
    BY <1>2, <1>4, <2>1 DEF PollSound, e
  <2>2. CASE v # u
    BY <1>1, <1>4, <1>7, <2>2 DEF BusInv, PollSound
  <2> QED
    BY <2>1, <2>2
<1>9. ASSUME NEW f \in B!Entry PROVE SlotSound(f)'
  <2>1. SlotSound(f)
    BY DEF BusInv
  <2>2. CASE f = e
    <3>1. \A v \in Unit : ~Reads(v, e)
      BY <1>1, <2>1, <2>2 DEF SlotSound
    <3>2. \A v \in Unit : Reads(v, e)' <=> v = u
      BY <1>4, <3>1 DEF Reads, e
    <3>3. \E w \in Unit : Reads(w, e)' /\ \A v \in Unit : Reads(v, e)' => v = w
      BY <3>2
    <3>4. e' = e
      BY <1>4 DEF e
    <3> QED
      BY <1>3, <2>2, <3>3, <3>4 DEF SlotSound
  <2>3. CASE f # e
    <3>1. \A v \in Unit : Reads(v, f)' <=> Reads(v, f)
      BY <1>1, <1>4, <2>3 DEF Reads, e
    <3> QED
      BY <1>3, <2>1, <2>3, <3>1 DEF SlotSound
  <2> QED
    BY <2>2, <2>3
<1> QED
  BY <1>5, <1>6, <1>8, <1>9 DEF BusInv

LEMMA PollEndsKeeps ==
  ASSUME BusInv, NEW u \in Unit,
         B!GiveUp(u) \/ B!ReadOk(u) \/ B!DeviceFails(u) \/ B!TransportFails(u)
  PROVE  BusInv'
<1>0. B!TypeOK /\ B!NoneLeaked /\ faults \in 0..MaxFaults /\ device[u] \in Host
  BY DEF BusInv, B!TypeOK
<1>1. CASE B!GiveUp(u)
  <2>1. /\ poll[u].pc = "wait" /\ poll' = [poll EXCEPT ![u] = B!Idle]
        /\ UNCHANGED <<device, conns, link, faults>>
    BY <1>1 DEF B!GiveUp
  <2>2. B!NoneLeaked' /\ \A h \in Host : B!IsOpen(conns[h])' => B!IsOpen(conns[h])
    BY <1>0, <2>1 DEF B!NoneLeaked, B!IsOpen, B!Range
  <2>3. \A e \in B!Entry : link'[e].busy = (link[e].busy /\ (poll[u].pc = "wait" \/ e # poll[u].entry))
    BY <1>0, <2>1 DEF B!TypeOK, B!Link
  <2>4. conns' \in [Host -> B!Entry \cup {NoOne}] /\ link' \in [B!Entry -> B!Link]
    BY <1>0, <2>1 DEF B!TypeOK
  <2> QED
    BY <1>0, <2>1, <2>2, <2>3, <2>4, PollEnds
<1>2. ASSUME NEW hosts \in SUBSET Host, B!Drops(hosts, poll[u].entry), poll[u].pc = "read",
             poll' = [poll EXCEPT ![u] = B!Idle], device' = device, faults' \in 0..MaxFaults
      PROVE  BusInv'
  <2>1. \A e \in B!Entry : link'[e].busy = (link[e].busy /\ (poll[u].pc = "wait" \/ e # poll[u].entry))
    <3>1. \A e \in B!Entry : link'[e].busy = (link[e].busy /\ e # poll[u].entry)
      BY <1>2, DropsSound
    <3>2. poll[u].pc # "wait"
      BY <1>2
    <3> QED
      BY <3>1, <3>2
  <2>2. /\ conns' \in [Host -> B!Entry \cup {NoOne}] /\ link' \in [B!Entry -> B!Link]
        /\ B!NoneLeaked' /\ \A h \in Host : B!IsOpen(conns[h])' => B!IsOpen(conns[h])
    BY <1>2, DropsSound
  <2> QED
    BY <1>2, <2>1, <2>2, PollEnds
<1>3. CASE B!ReadOk(u)
  BY <1>0, <1>2, <1>3 DEF B!ReadOk
<1>4. CASE B!DeviceFails(u)
  BY <1>0, <1>2, <1>4, FaultType DEF B!DeviceFails, B!DropsOnDeviceError
<1>5. CASE B!TransportFails(u)
  BY <1>0, <1>2, <1>5 DEF B!TransportFails, B!DropsOnTransportError
<1> QED
  BY <1>1, <1>3, <1>4, <1>5


\* Who awaits a connection reads on none, before and after.
LEMMA Awaits ==
  ASSUME B!TypeOK, NEW h \in Host
  PROVE  /\ B!Awaiting(h) \subseteq Unit
         /\ \A u \in B!Awaiting(h) : poll[u].pc = "connect" /\ poll[u].host = h
         /\ \A u \in Unit \ B!Awaiting(h) : poll[u].pc = "connect" => poll[u].host # h
BY DEF B!Awaiting

LEMMA ConnectedKeeps ==
  ASSUME BusInv, NEW h \in Host, B!Connected(h)
  PROVE  BusInv'
<1> DEFINE e == CHOOSE x \in B!Unused : TRUE
<1>1. /\ B!Awaiting(h) # {} /\ UNCHANGED <<device, faults>>
      /\ conns' = [conns EXCEPT ![h] = e]
      /\ link' = [link EXCEPT ![e] = [state |-> "open", busy |-> FALSE]]
      /\ poll' = [u \in Unit |->
           IF u \in B!Awaiting(h) THEN [pc |-> "wait", host |-> h, entry |-> e] ELSE poll[u]]
  BY DEF B!Connected
<1>2. /\ B!TypeOK /\ B!NoneLeaked /\ poll \in [Unit -> PollRow] /\ link \in [B!Entry -> B!Link]
      /\ conns \in [Host -> B!Entry \cup {NoOne}]
  BY DEF BusInv, B!TypeOK, PollRow
<1>3. PICK w \in Unit : poll[w].pc = "connect" /\ poll[w].host = h
  BY <1>1 DEF B!Awaiting
<1>4. poll[w].entry = NoOne /\ ~B!IsOpen(conns[h])
  BY <1>3 DEF BusInv, PollSound
<1>5. e \in B!Unused
  BY <1>2, <1>4, NameLeft
<1>6. /\ e \in B!Entry /\ e # NoOne
      /\ \A g \in Host : conns[g] # e
      /\ \A u \in Unit : poll[u].entry # e
  BY <1>2, <1>5, BusFacts DEF B!Unused
<1> HIDE DEF e
<1>7. /\ conns' \in [Host -> B!Entry \cup {NoOne}] /\ conns'[h] = e
      /\ \A g \in Host \ {h} : conns'[g] = conns[g]
  BY <1>1, <1>2, <1>6
<1>8. /\ link' \in [B!Entry -> B!Link] /\ ~link'[e].busy
      /\ \A f \in B!Entry \ {e} : link'[f] = link[f]
  BY <1>1, <1>2, <1>6 DEF B!Link
<1>9. /\ \A u \in B!Awaiting(h) : poll'[u] = [pc |-> "wait", host |-> h, entry |-> e]
      /\ \A u \in Unit \ B!Awaiting(h) : poll'[u] = poll[u]
      /\ poll' \in [Unit -> PollRow]
  <2>1. [pc |-> "wait", host |-> h, entry |-> e] \in PollRow
    BY <1>6 DEF PollRow
  <2> QED
    BY <1>1, <1>2, <2>1, Awaits
<1>10. B!TypeOK'
  BY <1>1, <1>2, <1>7, <1>8, <1>9 DEF B!TypeOK, PollRow
<1>11. B!NoneLeaked'
  <2>1. ASSUME NEW f \in B!Entry, B!IsOpen(f)'
        PROVE  f \in B!Range(conns)'
    <3>1. B!Range(conns) = {conns[g] : g \in Host} /\ B!Range(conns)' = {conns'[g] : g \in Host}
      BY <1>2, <1>7 DEF B!Range
    <3>2. CASE f = e
      BY <1>7, <3>1, <3>2
    <3>3. CASE f # e
      <4>1. B!IsOpen(f)
        BY <1>8, <2>1, <3>3 DEF B!IsOpen
      <4>2. PICK g \in Host : conns[g] = f
        BY <1>2, <3>1, <4>1 DEF B!NoneLeaked
      <4>3. g # h
        BY <1>4, <4>1, <4>2
      <4> QED
        BY <1>7, <3>1, <4>2, <4>3
    <3> QED
      BY <3>2, <3>3
  <2> QED
    BY <2>1 DEF B!NoneLeaked
<1>12. ASSUME NEW u \in Unit PROVE PollSound(u)'
  <2>1. CASE u \in B!Awaiting(h)
    BY <1>6, <1>9, <2>1 DEF PollSound
  <2>2. CASE u \notin B!Awaiting(h)
    <3>1. poll'[u] = poll[u] /\ PollSound(u)
      BY <1>9, <2>2 DEF BusInv
    <3>2. ASSUME poll[u].pc = "connect"
          PROVE  ~B!IsOpen(conns[poll[u].host])'
      <4>1. poll[u].host \in Host \ {h} /\ ~B!IsOpen(conns[poll[u].host])
        BY <1>2, <2>2, <3>1, <3>2, Awaits DEF PollSound
      <4>2. conns[poll[u].host]' = conns[poll[u].host] /\ conns[poll[u].host] # e
        BY <1>6, <1>7, <3>1, <4>1
      <4>3. conns[poll[u].host] = NoOne \/ conns[poll[u].host] \in B!Entry \ {e}
        BY <1>2, <4>1, <4>2
      <4> QED
        BY <1>8, <4>1, <4>2, <4>3 DEF B!IsOpen
    <3> QED
      BY <3>1, <3>2 DEF PollSound
  <2> QED
    BY <2>1, <2>2
<1>13. ASSUME NEW f \in B!Entry PROVE SlotSound(f)'
  <2>1. ASSUME NEW u \in Unit PROVE Reads(u, f)' <=> Reads(u, f)
    <3>1. CASE u \in B!Awaiting(h)
      BY <1>2, <1>9, <3>1, Awaits DEF Reads
    <3>2. CASE u \notin B!Awaiting(h)
      BY <1>9, <3>2 DEF Reads
    <3> QED
      BY <3>1, <3>2
  <2>2. CASE f = e
    <3>1. \A u \in Unit : ~Reads(u, f)
      BY <1>6, <2>2 DEF Reads
    <3> QED
      BY <1>8, <2>1, <2>2, <3>1 DEF SlotSound
  <2>3. CASE f # e
    <3>1. link'[f].busy = link[f].busy /\ SlotSound(f)
      BY <1>8, <2>3 DEF BusInv
    <3> QED
      BY <2>1, <3>1 DEF SlotSound
  <2> QED
    BY <2>2, <2>3
<1> QED
  BY <1>10, <1>11, <1>12, <1>13 DEF BusInv

LEMMA RefusedKeeps ==
  ASSUME BusInv, NEW h \in Host, B!Refused(h)
  PROVE  BusInv'
<1>1. /\ B!Fault /\ device' = device
      /\ poll' = [u \in Unit |-> IF u \in B!Awaiting(h) THEN B!Idle ELSE poll[u]]
  BY DEF B!Refused
<1>2. B!TypeOK /\ poll \in [Unit -> PollRow] /\ device \in [Unit -> Host]
  BY DEF BusInv, B!TypeOK, PollRow
<1>3. PICK hosts \in SUBSET Host : B!Drops(hosts, NoOne)
  <2>1. PICK transport \in BOOLEAN :
          B!Drops(IF transport THEN {device[u] : u \in B!Awaiting(h)} ELSE {}, NoOne)
    BY DEF B!Refused
  <2>2. (IF transport THEN {device[u] : u \in B!Awaiting(h)} ELSE {}) \in SUBSET Host
    BY <1>2, Awaits
  <2> QED
    BY <2>1, <2>2
<1>4. /\ conns' \in [Host -> B!Entry \cup {NoOne}] /\ link' \in [B!Entry -> B!Link]
      /\ B!NoneLeaked' /\ \A g \in Host : B!IsOpen(conns[g])' => B!IsOpen(conns[g])
      /\ \A e \in B!Entry : link'[e].busy = (link[e].busy /\ e # NoOne)
  BY <1>3, DropsSound
<1>5. \A e \in B!Entry : link'[e].busy = link[e].busy
  <2>1. \A e \in B!Entry : e # NoOne /\ link[e].busy \in BOOLEAN
    BY <1>2, BusFacts DEF B!TypeOK, B!Link
  <2> QED
    BY <1>4, <2>1
<1>6. /\ \A u \in B!Awaiting(h) : poll'[u] = B!Idle
      /\ \A u \in Unit \ B!Awaiting(h) : poll'[u] = poll[u]
      /\ poll' \in [Unit -> PollRow]
  <2>1. B!Idle \in PollRow
    BY DEF B!Idle, PollRow
  <2> QED
    BY <1>1, <1>2, <2>1, Awaits
<1>7. B!TypeOK'
  BY <1>1, <1>2, <1>4, <1>6, FaultType DEF B!TypeOK, PollRow
<1>8. ASSUME NEW u \in Unit PROVE PollSound(u)'
  <2>1. CASE u \in B!Awaiting(h)
    BY <1>6, <2>1 DEF PollSound, B!Idle
  <2>2. CASE u \notin B!Awaiting(h)
    BY <1>4, <1>6, <2>2 DEF BusInv, PollSound
  <2> QED
    BY <2>1, <2>2
<1>9. ASSUME NEW e \in B!Entry PROVE SlotSound(e)'
  <2>1. ASSUME NEW u \in Unit PROVE Reads(u, e)' <=> Reads(u, e)
    <3>1. CASE u \in B!Awaiting(h)
      BY <1>2, <1>6, <3>1, Awaits DEF Reads, B!Idle
    <3>2. CASE u \notin B!Awaiting(h)
      BY <1>6, <3>2 DEF Reads
    <3> QED
      BY <3>1, <3>2
  <2> QED
    BY <1>5, <2>1 DEF BusInv, SlotSound
<1> QED
  BY <1>4, <1>7, <1>8, <1>9 DEF BusInv

LEMMA BreaksKeeps ==
  ASSUME BusInv, NEW e \in B!Entry, B!Breaks(e)
  PROVE  BusInv'
<1>1. PICK state \in {"broken", "closed"} :
        /\ B!Fault /\ link[e].state = "open" /\ link' = [link EXCEPT ![e].state = state]
        /\ UNCHANGED <<device, poll, conns>>
  BY DEF B!Breaks
<1>2. B!TypeOK /\ link \in [B!Entry -> B!Link]
  BY DEF BusInv, B!TypeOK
<1>3. /\ link' \in [B!Entry -> B!Link]
      /\ \A f \in B!Entry : link'[f].busy = link[f].busy
      /\ \A f \in B!Entry : link'[f].state # "closed" => link[f].state # "closed"
  BY <1>1, <1>2 DEF B!Link
<1>4. B!TypeOK'
  BY <1>1, <1>2, <1>3, FaultType DEF B!TypeOK
<1>5. B!NoneLeaked'
  BY <1>1, <1>3 DEF BusInv, B!NoneLeaked, B!IsOpen, B!Range
<1>6. \A g \in Host : B!IsOpen(conns[g])' => B!IsOpen(conns[g])
  BY <1>1, <1>2, <1>3 DEF B!IsOpen, B!TypeOK
<1>7. \A u \in Unit : PollSound(u)'
  BY <1>1, <1>6 DEF BusInv, PollSound
<1>8. \A f \in B!Entry : SlotSound(f)'
  BY <1>1, <1>3 DEF BusInv, SlotSound, Reads
<1> QED
  BY <1>4, <1>5, <1>7, <1>8 DEF BusInv

LEMMA MoveKeeps ==
  ASSUME BusInv, B!TypeOK', UNCHANGED <<poll, conns, link>>
  PROVE  BusInv'
BY DEF BusInv, B!NoneLeaked, B!IsOpen, B!Range, PollSound, SlotSound, Reads

LEMMA BusNext == BusInv /\ [B!Next]_(B!vars) => BusInv'
<1> SUFFICES ASSUME BusInv, [B!Next]_(B!vars) PROVE BusInv'
  OBVIOUS
<1>1. B!TypeOK /\ device \in [Unit -> Host]
  BY DEF BusInv, B!TypeOK
<1>2. ASSUME NEW u \in Unit, B!Move(u) PROVE BusInv'
  <2>1. B!TypeOK'
    BY <1>1, <1>2, FaultType DEF B!Move, B!TypeOK
  <2> QED
    BY <1>2, <2>1, MoveKeeps DEF B!Move
<1>3. CASE UNCHANGED B!vars
  <2>1. B!TypeOK'
    BY <1>1, <1>3 DEF B!vars, B!TypeOK
  <2> QED
    BY <1>3, <2>1, MoveKeeps DEF B!vars
<1>4. ASSUME NEW u \in Unit,
             B!GetConn(u) \/ B!Take(u) \/ B!GiveUp(u) \/ B!ReadOk(u) \/ B!DeviceFails(u) \/ B!TransportFails(u)
      PROVE  BusInv'
  BY <1>4, GetConnKeeps, TakeKeeps, PollEndsKeeps
<1>5. ASSUME NEW h \in Host, B!Connected(h) \/ B!Refused(h) PROVE BusInv'
  BY <1>5, ConnectedKeeps, RefusedKeeps
<1>6. ASSUME NEW e \in B!Entry, B!Breaks(e) PROVE BusInv'
  BY <1>6, BreaksKeeps
<1> QED
  BY <1>2, <1>3, <1>4, <1>5, <1>6 DEF B!Next


---------------------------------------------------------------------------
PollingInv == PollerTypeOK /\ BusInv /\ part \in {"supervisor", "bus"}

LEMMA PollingInvInit == PollingInit => PollingInv
BY PollerTypeInit, BusInit DEF PollingInit, PollingInv

LEMMA PollingInvNext == PollingInv /\ [PollingNext]_pollingVars => PollingInv'
<1> SUFFICES ASSUME PollingInv, [PollingNext]_pollingVars PROVE PollingInv'
  OBVIOUS
<1>1. [PollerNext]_pollerVars /\ [B!Next]_(B!vars) /\ part' = part
  BY DEF PollingNext, pollingVars, bus, B!vars
<1> QED
  BY <1>1, PollerTypeNext, BusNext DEF PollingInv

LEMMA PollingAlways == PollingSpec => []PollingInv
BY PollingInvInit, PollingInvNext, PTL DEF PollingSpec

(***************************************************************************)
(* The types of the poller, the lease's and the sockets' among them: there   *)
(* is always a name for a new connection, and the row, the tasks and the     *)
(* expiries keep their form whatever ticks overlap, fail or end.             *)
(***************************************************************************)
THEOREM PollingTypeCorrect == PollingSpec => []PollingTypeOK
<1>1. PollingInv => PollingTypeOK
  BY DEF PollingInv, PollingTypeOK, BusInv
<1> QED
  BY <1>1, PollingAlways, PTL

(***************************************************************************)
(* "Serialize access per socket" (service.ts:117) and "the losing socket     *)
(* leaked" (service.ts:63-64): for any units and hosts, one poll at a time   *)
(* reads on a connection, a slot that is taken has somebody reading, and     *)
(* what is open is some host's connection.                                   *)
(***************************************************************************)
THEOREM PollingSocketsShared == PollingSpec => [](B!OneReader /\ B!NoneLeaked)
<1>1. ASSUME BusInv PROVE B!OneReader /\ B!NoneLeaked
  <2>1. ASSUME NEW e \in B!Entry
        PROVE  B!Cardinality(B!Reading(e)) = (IF link[e].busy THEN 1 ELSE 0)
    <3>1. SlotSound(e)
      BY <1>1 DEF BusInv
    <3>2. \A S : B!Cardinality(S) = Cardinality(S)
      BY DEF B!Cardinality, Cardinality
    <3>3. CASE ~link[e].busy
      <4>1. B!Reading(e) = {}
        BY <3>1, <3>3 DEF SlotSound, Reads, B!Reading
      <4> QED
        BY <3>2, <3>3, <4>1, FS_EmptySet
    <3>4. CASE link[e].busy
      <4>1. PICK u \in Unit : Reads(u, e) /\ \A v \in Unit : Reads(v, e) => v = u
        BY <3>1, <3>4 DEF SlotSound
      <4>2. B!Reading(e) = {u}
        BY <4>1 DEF Reads, B!Reading
      <4>3. Cardinality({u}) = 1
        BY FS_Singleton
      <4> QED
        BY <3>2, <3>4, <4>2, <4>3
    <3> QED
      BY <3>3, <3>4
  <2> QED
    BY <1>1, <2>1 DEF BusInv, B!OneReader
<1>2. PollingInv => B!OneReader /\ B!NoneLeaked
  BY <1>1 DEF PollingInv
<1> QED
  BY <1>2, PollingAlways, PTL

\* The action of ErrorsStayApart.
StaysApart ==
  \A u \in Unit :
    poll[u].pc = "read" /\ poll'[u] = B!Idle /\ B!Works(poll[u].entry)
      => \A e \in B!Entry : B!Works(e) => B!Works(e)'

LEMMA StepsApart ==
  ASSUME BusInv, [B!Next]_(B!vars), NEW u \in Unit,
         poll[u].pc = "read", poll'[u] = B!Idle, B!Works(poll[u].entry),
         NEW e \in B!Entry, B!Works(e)
  PROVE  B!Works(e)'
<1>0. B!TypeOK /\ BusInv' /\ poll \in [Unit -> PollRow]
  BY BusNext DEF BusInv, B!TypeOK, PollRow
<1>1. poll' # poll /\ poll'[u].pc = "idle"
  BY DEF B!Idle
<1>2. \A v \in Unit : poll' = [poll EXCEPT ![v] = B!Idle] => v = u
  BY <1>0, <1>1
<1>3. ASSUME NEW v \in Unit, NEW free, B!Drops({}, free)
      PROVE  B!Works(e)'
  BY <1>0, <1>3, DropsSound DEF B!Works
<1>4. CASE \E v \in Unit : B!ReadOk(v) \/ B!DeviceFails(v)
  BY <1>3, <1>4 DEF B!ReadOk, B!DeviceFails, B!DropsOnDeviceError
<1>5. ASSUME NEW v \in Unit, B!TransportFails(v) PROVE B!Works(e)'
  BY <1>2, <1>5 DEF B!TransportFails, B!Works
<1>6. ASSUME NEW v \in Unit, B!GetConn(v) \/ B!Take(v) \/ B!GiveUp(v) \/ B!Move(v) PROVE B!Works(e)'
  <2>1. CASE B!GetConn(v) \/ B!GiveUp(v) \/ B!Move(v)
    BY <2>1 DEF B!GetConn, B!GiveUp, B!Move, B!Works
  <2>2. CASE B!Take(v)
    <3>1. poll' = [poll EXCEPT ![v].pc = "read"]
      BY <2>2 DEF B!Take
    <3> QED
      BY <1>0, <1>1, <3>1 DEF PollRow
  <2> QED
    BY <1>6, <2>1, <2>2
<1>7. ASSUME NEW h \in Host, B!Connected(h) \/ B!Refused(h) PROVE B!Works(e)'
  <2>1. poll'[u] = poll[u]
    BY <1>0, <1>7, Awaits DEF B!Connected, B!Refused
  <2> QED
    BY <1>1, <2>1
<1>8. CASE (\E f \in B!Entry : B!Breaks(f)) \/ UNCHANGED B!vars
  BY <1>1, <1>8 DEF B!Breaks, B!vars
<1> QED
  BY <1>4, <1>5, <1>6, <1>7, <1>8 DEF B!Next

(***************************************************************************)
(* "must not disconnect the other units sharing host:port" (service.ts:172): *)
(* for any units and hosts, a poll that ends on a connection that works      *)
(* closes none.                                                              *)
(***************************************************************************)
THEOREM PollingErrorsApart == PollingSpec => B!ErrorsStayApart
<1>1. ASSUME PollingInv, [PollingNext]_pollingVars
      PROVE  [StaysApart]_(B!vars)
  <2>1. [B!Next]_(B!vars) /\ BusInv
    BY <1>1 DEF PollingInv, PollingNext, pollingVars, bus, B!vars
  <2> QED
    BY <2>1, StepsApart DEF StaysApart
<1>2. PollingSpec => [][StaysApart]_(B!vars)
  BY <1>1, PollingAlways, PTL DEF PollingSpec
<1> QED
  BY <1>2 DEF B!ErrorsStayApart, StaysApart

(***************************************************************************)
(* The supervisor as the two parts together run it: with refreshes that do   *)
(* not overlap with themselves, the row covers every tick that acts within   *)
(* its expiry, two replicas never both do, and no device has polling tasks   *)
(* on two replicas whose leases are both good.                               *)
(***************************************************************************)
THEOREM PollingOnLease == ASSUME OneSlot PROVE PollingSpec => [](Covered /\ Exclusive /\ PollsOnce)
<1>1. PollingInit => PollInv
  BY PollInvInit DEF PollingInit
<1>2. PollInv /\ [PollingNext]_pollingVars => PollInv'
  BY PollInvNext DEF PollingNext, pollingVars
<1>3. PollInv => Covered /\ Exclusive /\ PollsOnce
  <2>1. TypeOK /\ Covered => Exclusive
    BY CoveredExcludes
  <2> QED
    BY <2>1 DEF PollInv, PollsOnce, UntilSound
<1> QED
  BY <1>1, <1>2, <1>3, PTL DEF PollingSpec

=============================================================================
