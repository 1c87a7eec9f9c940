------------------------ MODULE EmsController_proofs ------------------------
(***************************************************************************)
(* Theorems about EmsController for every set of replicas, peak-shaving      *)
(* configurations, plans and schedules, and any number of failures and       *)
(* process ends: the types, and who commands the BESS in a tick.             *)
(***************************************************************************)
EXTENDS EmsController, TLAPS

(***************************************************************************)
(* A tick calls send() for the first strategy that drives the BESS: what it  *)
(* has sent so far, the stage it is in, and whether the later strategies     *)
(* are still to be asked.                                                    *)
(***************************************************************************)
InOrder(t) ==
  /\ t.stage = "idle" => t = IdleTick
  /\ t.sent \in (SUBSET Config) \cup {{"plan"}, {"schedule"}}
  /\ t.stage = "peak" => t.sent \subseteq Config
  /\ t.stage = "schedule" => t.sent # {"schedule"}
  /\ t.stage \in {"peak", "schedule"} /\ t.sent # {} => t.drove
  /\ t.cmd # None /\ t.cmd.by \in Config => t.stage = "peak" /\ t.drove

OrderInv == TypeOK /\ \A r \in Replica, k \in Slot : InOrder(tick[r][k])

(***************************************************************************)
(* Once a configuration has been evaluated, its event being active means     *)
(* that the tick is taken; and a plan or schedule that did send found none.  *)
(***************************************************************************)
Claimed(r, k) ==
  LET t == tick[r][k] IN
  /\ t.stage # "idle" => \A c \in Config \ t.todo : peak[r][c].active => t.drove
  /\ t.sent \cap {"plan", "schedule"} # {} => \A c \in Config : ~peak[r][c].active
  /\ t.stage \in {"schedule", "ending"} => t.todo = {}

OwnerInv == OrderInv /\ (fails = 0 => \A r \in Replica, k \in Slot : Claimed(r, k))

\* Ticks that do not overlap with themselves.
OneSlot == \A j, k \in Slot : j = k

---------------------------------------------------------------------------
\* The numbers of the decisions.
LEMMA Ranges ==
  /\ 0 \in Setpoint
  /\ Lesser(MaxDischarge, RegisterMax) \in Nat
  /\ Power \subseteq Nat /\ Threshold \in Nat /\ Window \in Nat
  /\ MaxFails \in Nat /\ MaxCrashes \in Nat
  /\ NoEvent \in Event
<1>1. MaxDischarge \in Nat /\ RegisterMax \in Nat /\ Threshold \in Nat /\ Window \in Nat
  BY EmsAssumption DEF EmsAssumption
<1>2. Lesser(MaxDischarge, RegisterMax) \in Nat
  BY <1>1 DEF Lesser
<1>3. 0 \in 0..Lesser(MaxDischarge, RegisterMax)
  BY <1>2
<1>4. 0 \in Setpoint
  BY <1>3 DEF Setpoint
<1>5. NoEvent \in Event
  BY DEF NoEvent, Event
<1> QED
  BY <1>1, <1>2, <1>4, <1>5, EmsAssumption DEF EmsAssumption

LEMMA Started ==
  ASSUME NEW import \in Power, import > Threshold, StartPower(import) > 0
  PROVE  StartPower(import) \in Setpoint
<1> DEFINE cap == Lesser(MaxDischarge, RegisterMax)
<1>1. import \in Nat /\ Threshold \in Nat /\ cap \in Nat
  BY Ranges
<1>2. StartPower(import) = Lesser(import - Threshold, cap)
  BY DEF StartPower
<1> HIDE DEF cap
<1>3. StartPower(import) \in 0..cap
  BY <1>1, <1>2 DEF Lesser
<1> QED
  BY <1>3 DEF Setpoint, cap

LEMMA Held ==
  ASSUME NEW import \in Power
  PROVE  HoldPower(import) \in Setpoint
<1> DEFINE cap == Lesser(MaxDischarge, RegisterMax)
<1>1. import \in Nat /\ Threshold \in Nat /\ cap \in Nat
  BY Ranges
<1>2. HoldPower(import) = Lesser(Greater(import - Threshold, 0), cap)
  BY DEF HoldPower
<1> HIDE DEF cap
<1>3. HoldPower(import) \in 0..cap
  BY <1>1, <1>2 DEF Lesser, Greater
<1> QED
  BY <1>3 DEF Setpoint, cap

(***************************************************************************)
(* What an evaluation of peak shaving comes to: a value that is sent drives  *)
(* the BESS, and so does an event that is active afterwards, unless the row  *)
(* carried no power.                                                         *)
(***************************************************************************)
OutcomeSound(out) ==
  /\ out.value \in Setpoint \cup {None} /\ out.next \in Event /\ out.drives \in BOOLEAN
  /\ out.value # None => out.drives

LEMMA Outcomes ==
  ASSUME NEW v \in Setpoint \cup {None}, NEW e \in Event, NEW d \in BOOLEAN, v # None => d
  PROVE  OutcomeSound(Outcome(v, e, d)) /\ Outcome(v, e, d).next = e /\ Outcome(v, e, d).drives = d
BY DEF OutcomeSound, Outcome

LEMMA PeakSound ==
  ASSUME NEW st \in Event, NEW import \in Reading, NEW limited
  PROVE  LET out == PeakOutcome(st, import, limited)
         IN /\ OutcomeSound(out)
            /\ out.next.active /\ import # NoMetric => out.drives
<1>1. OutcomeSound(Leave(st)) /\ Leave(st).next = st
  BY Outcomes DEF Leave
<1>2. OutcomeSound(Cut(st)) /\ (Cut(st).next.active => Cut(st).drives)
  <2>1. CASE st.active
    BY <2>1, Outcomes, Ranges DEF Cut
  <2>2. CASE ~st.active
    BY <1>1, <2>2 DEF Cut
  <2> QED
    BY <2>1, <2>2
<1>3. ASSUME NEW p \in Setpoint
      PROVE  LET out == Outcome(p, [active |-> TRUE, lastSent |-> p], TRUE)
             IN OutcomeSound(out) /\ out.drives
  <2>1. [active |-> TRUE, lastSent |-> p] \in Event
    BY DEF Event
  <2> QED
    BY <2>1, Outcomes
<1>4. CASE Blocked(1, limited) \/ import = Stale
  BY <1>2, <1>4 DEF PeakOutcome
<1>5. CASE ~(Blocked(1, limited) \/ import = Stale) /\ import = NoMetric
  BY <1>1, <1>5 DEF PeakOutcome
<1>6. CASE ~(Blocked(1, limited) \/ import = Stale) /\ import # NoMetric
  <2>1. import \in Power
    BY <1>6, EmsAssumption DEF EmsAssumption
  <2>2. OutcomeSound(Ride(import, st)) /\ (Ride(import, st).next.active => Ride(import, st).drives)
    <3>1. CASE StopDue(import)
      BY <1>2, <3>1 DEF Ride
    <3>2. CASE ~StopDue(import) /\ RetrimDue(HoldPower(import), st.lastSent)
      BY <1>3, <2>1, <3>2, Held DEF Ride
    <3>3. CASE ~StopDue(import) /\ ~RetrimDue(HoldPower(import), st.lastSent)
      BY <3>3, Outcomes DEF Ride
    <3> QED
      BY <3>1, <3>2, <3>3
  <2>3. CASE st.active
    BY <1>6, <2>2, <2>3 DEF PeakOutcome
  <2>4. CASE ~st.active
    <3>1. PeakOutcome(st, import, limited) = Rest(import, st)
      BY <1>6, <2>4 DEF PeakOutcome
    <3>2. CASE import > Threshold /\ StartPower(import) > 0
      BY <1>3, <2>1, <3>1, <3>2, Started DEF Rest
    <3>3. CASE ~(import > Threshold /\ StartPower(import) > 0)
      BY <1>1, <2>4, <3>1, <3>3 DEF Rest
    <3> QED
      BY <3>2, <3>3
  <2> QED
    BY <2>3, <2>4
<1> QED
  BY <1>4, <1>5, <1>6

\* What a plan or a schedule asks for can be sent.
LEMMA Asked ==
  ASSUME plan \in Plan, due \in Schedule
  PROVE  PlanValue \in Setpoint \cup {None} /\ ScheduleValue \in Setpoint \cup {None}
<1>1. ASSUME NEW p \in Plan \cup Schedule, p # NoPlan, p.kw # None PROVE p.kw \in Setpoint
  BY <1>1 DEF Setpoint
<1>2. PlanValue \in Setpoint \cup {None}
  BY <1>1, Ranges DEF PlanValue
<1>3. ScheduleValue \in Setpoint \cup {None}
  BY <1>1 DEF ScheduleValue
<1> QED
  BY <1>2, <1>3

---------------------------------------------------------------------------
LEMMA TickSet ==
  ASSUME NEW r \in Replica, NEW k \in Slot, NEW t \in TickState,
         tick \in [Replica -> [Slot -> TickState]], SetTick(r, k, t)
  PROVE  /\ tick' \in [Replica -> [Slot -> TickState]]
         /\ tick'[r][k] = t
         /\ \A q \in Replica, j \in Slot : q # r \/ j # k => tick'[q][j] = tick[q][j]
BY DEF SetTick

\* A tick whose other fields are as they were.
LEMMA TickMoves ==
  ASSUME NEW t \in TickState
  PROVE  /\ IdleTick \in TickState
         /\ \A s \in {"idle", "peak", "schedule", "ending"} : [t EXCEPT !.stage = s] \in TickState
         /\ [t EXCEPT !.cmd = None] \in TickState
         /\ \A c : [t EXCEPT !.todo = @ \ {c}] \in TickState
BY DEF TickState, IdleTick


(***************************************************************************)
(* send(): the rest of the tick stays, the strategy is noted if there was a  *)
(* value, and the peak event is recorded at once unless a write is under way. *)
(***************************************************************************)
LEMMA SendsSound ==
  ASSUME TypeOK, NEW r \in Replica, NEW k \in Slot, NEW t \in TickState, t.cmd = None,
         NEW by \in Strategy, NEW out, OutcomeSound(out), Sends(r, k, t, by, out)
  PROVE  /\ tick' \in [Replica -> [Slot -> TickState]]
         /\ \A q \in Replica, j \in Slot : q # r \/ j # k => tick'[q][j] = tick[q][j]
         /\ tick'[r][k].stage = t.stage /\ tick'[r][k].todo = t.todo /\ tick'[r][k].drove = t.drove
         /\ IF out.value = None THEN tick'[r][k] = t ELSE tick'[r][k].sent = t.sent \cup {by}
         /\ tick'[r][k].cmd # None => out.value # None /\ tick'[r][k].cmd.by = by
         /\ peak' \in [Replica -> [Config -> Event]]
         /\ IF tick'[r][k].cmd = None /\ by \in Config
            THEN peak'[r][by] = out.next
            ELSE peak' = peak
         /\ \A q \in Replica, c \in Config : q # r \/ c # by => peak'[q][c] = peak[q][c]
<1>1. /\ tick \in [Replica -> [Slot -> TickState]] /\ peak \in [Replica -> [Config -> Event]]
  BY DEF TypeOK
<1>2. /\ out.value \in Setpoint \cup {None} /\ out.next \in Event
  BY DEF OutcomeSound
<1> DEFINE wide == [t EXCEPT !.sent = @ \cup {by}]
           cmd == [value |-> out.value, by |-> by, next |-> out.next, landed |-> FALSE]
           busy == [t EXCEPT !.sent = @ \cup {by}, !.cmd = cmd]
           noted == IF by \in Config THEN [peak EXCEPT ![r][by] = out.next] ELSE peak
<1>3. /\ wide \in TickState /\ wide.stage = t.stage /\ wide.todo = t.todo /\ wide.drove = t.drove
      /\ wide.sent = t.sent \cup {by} /\ wide.cmd = None
  BY DEF TickState
<1>4. noted \in [Replica -> [Config -> Event]]
  <2>1. CASE by \in Config
    <3>1. [peak EXCEPT ![r][by] = out.next] \in [Replica -> [Config -> Event]]
      BY <1>1, <1>2, <2>1
    <3> QED
      BY <2>1, <3>1
  <2>2. CASE by \notin Config
    BY <1>1, <2>2
  <2> QED
    BY <2>1, <2>2
<1>5. /\ IF by \in Config THEN noted[r][by] = out.next ELSE noted = peak
      /\ \A q \in Replica, c \in Config : q # r \/ c # by => noted[q][c] = peak[q][c]
  BY <1>1
<1>6. CASE out.value = None
  <2>1. SetTick(r, k, t) /\ peak' = noted
    BY <1>6 DEF Sends
  <2>2. /\ tick' \in [Replica -> [Slot -> TickState]] /\ tick'[r][k] = t
        /\ \A q \in Replica, j \in Slot : q # r \/ j # k => tick'[q][j] = tick[q][j]
    BY <1>1, <2>1, TickSet
  <2> HIDE DEF noted
  <2> QED
    BY <1>4, <1>5, <1>6, <2>1, <2>2
<1>7. CASE out.value # None /\ Duplicate(r, out.value)
  <2>1. SetTick(r, k, wide) /\ peak' = noted
    BY <1>7 DEF Sends
  <2> HIDE DEF noted, wide
  <2>2. /\ tick' \in [Replica -> [Slot -> TickState]] /\ tick'[r][k] = wide
        /\ \A q \in Replica, j \in Slot : q # r \/ j # k => tick'[q][j] = tick[q][j]
    BY <1>1, <1>3, <2>1, TickSet
  <2> QED
    BY <1>3, <1>4, <1>5, <1>7, <2>1, <2>2
<1>8. CASE out.value # None /\ ~Duplicate(r, out.value)
  <2>1. SetTick(r, k, busy) /\ peak' = peak
    BY <1>8 DEF Sends
  <2>2. cmd \in Command
    BY <1>2, <1>8 DEF Command
  <2>3. cmd.by = by /\ cmd # None
    BY <2>2, NoneAssumption
  <2> HIDE DEF cmd
  <2>4. /\ busy \in TickState /\ busy.stage = t.stage /\ busy.todo = t.todo /\ busy.drove = t.drove
        /\ busy.sent = t.sent \cup {by} /\ busy.cmd = cmd
    BY <2>2 DEF TickState
  <2> HIDE DEF noted, wide, busy
  <2>5. /\ tick' \in [Replica -> [Slot -> TickState]] /\ tick'[r][k] = busy
        /\ \A q \in Replica, j \in Slot : q # r \/ j # k => tick'[q][j] = tick[q][j]
    BY <1>1, <2>1, <2>4, TickSet
  <2> QED
    BY <1>1, <1>8, <2>1, <2>3, <2>4, <2>5
<1> QED
  BY <1>6, <1>7, <1>8

\* One tick moves, the others stay.
LEMMA OrderKept ==
  ASSUME OrderInv, TypeOK', NEW r \in Replica, NEW k \in Slot, InOrder(tick'[r][k]),
         \A q \in Replica, j \in Slot : q # r \/ j # k => tick'[q][j] = tick[q][j]
  PROVE  OrderInv'
<1>1. ASSUME NEW q \in Replica, NEW j \in Slot PROVE InOrder(tick'[q][j])
  BY DEF OrderInv
<1> QED
  BY <1>1 DEF OrderInv

LEMMA ClaimsKept ==
  ASSUME OneSlot, NEW r \in Replica, NEW k \in Slot, Claimed(r, k)',
         \A q \in Replica, j \in Slot : q # r \/ j # k => tick'[q][j] = tick[q][j],
         \A q \in Replica \ {r}, c \in Config : peak'[q][c] = peak[q][c],
         \A q \in Replica, j \in Slot : Claimed(q, j)
  PROVE  \A q \in Replica, j \in Slot : Claimed(q, j)'
<1>1. ASSUME NEW q \in Replica, NEW j \in Slot PROVE Claimed(q, j)'
  <2>1. CASE q = r
    <3>1. j = k
      BY DEF OneSlot
    <3> QED
      BY <2>1, <3>1
  <2>2. CASE q # r
    BY <2>2 DEF Claimed
  <2> QED
    BY <2>1, <2>2
<1> QED
  BY <1>1

---------------------------------------------------------------------------
LEMMA EvalPeakKeeps ==
  ASSUME OrderInv, NEW r \in Replica, NEW k \in Slot, NEW c \in Config, EvalPeak(r, k, c)
  PROVE  /\ OrderInv'
         /\ OneSlot /\ NoMetric \notin Reading /\ (\A q \in Replica, j \in Slot : Claimed(q, j))
              => \A q \in Replica, j \in Slot : Claimed(q, j)'
<1> DEFINE t == tick[r][k]
           out == PeakOutcome(peak[r][c], reading[c], t.limited)
           next == [t EXCEPT !.todo = @ \ {c}, !.drove = @ \/ out.drives]
<1>1. /\ t.stage = "peak" /\ c \in t.todo /\ t.cmd = None
      /\ Sends(r, k, next, c, out) /\ UNCHANGED <<reading, soc, plan, due, register, last, fails, crashes>>
  BY DEF EvalPeak, env
<1>2. TypeOK /\ t \in TickState /\ peak[r][c] \in Event /\ reading[c] \in Reading /\ InOrder(t)
  BY DEF OrderInv, TypeOK
<1>3. OutcomeSound(out) /\ (out.next.active /\ reading[c] # NoMetric => out.drives)
  BY <1>2, PeakSound
<1>4. out.drives \in BOOLEAN /\ (out.value # None => out.drives)
  BY <1>3 DEF OutcomeSound
<1> HIDE DEF out
<1>5. /\ next \in TickState /\ next.stage = "peak" /\ next.todo = t.todo \ {c} /\ next.sent = t.sent
      /\ next.cmd = None /\ next.drove = (t.drove \/ out.drives)
  <2>1. t.drove \in BOOLEAN
    BY <1>2 DEF TickState
  <2>2. (t.drove \/ out.drives) \in BOOLEAN
    BY <1>4, <2>1
  <2> QED
    BY <1>1, <1>2, <2>2 DEF TickState
<1>6. c \in Strategy
  BY DEF Strategy
<1> HIDE DEF next
<1>7. /\ tick' \in [Replica -> [Slot -> TickState]]
      /\ \A q \in Replica, j \in Slot : q # r \/ j # k => tick'[q][j] = tick[q][j]
      /\ tick'[r][k].stage = "peak" /\ tick'[r][k].todo = t.todo \ {c}
      /\ tick'[r][k].drove = next.drove
      /\ IF out.value = None THEN tick'[r][k] = next ELSE tick'[r][k].sent = next.sent \cup {c}
      /\ tick'[r][k].cmd # None => out.value # None /\ tick'[r][k].cmd.by = c
      /\ peak' \in [Replica -> [Config -> Event]]
      /\ IF tick'[r][k].cmd = None THEN peak'[r][c] = out.next ELSE peak' = peak
      /\ \A q \in Replica, d \in Config : q # r \/ d # c => peak'[q][d] = peak[q][d]
  <2>1. Sends(r, k, next, c, out)
    BY <1>1
  <2> HIDE DEF t
  <2> QED
    BY <1>2, <1>3, <1>5, <1>6, <2>1, SendsSound
<1>8. TypeOK'
  BY <1>1, <1>2, <1>7 DEF TypeOK
<1> DEFINE new == tick'[r][k]
<1>9. new.sent \subseteq Config /\ (new.sent # {} => new.drove) /\ (new.cmd # None => new.drove)
  <2>1. t.sent \subseteq Config /\ (t.sent # {} => t.drove)
    BY <1>1, <1>2 DEF InOrder
  <2>2. CASE out.value = None
    BY <1>5, <1>7, <2>1, <2>2
  <2>3. CASE out.value # None
    BY <1>4, <1>5, <1>7, <2>1, <2>3
  <2> QED
    BY <2>2, <2>3
<1>10. InOrder(tick'[r][k])
  <2>1. new.sent \in SUBSET Config
    BY <1>9
  <2>2. new.stage = "peak"
    BY <1>7
  <2> HIDE DEF new
  <2>3. InOrder(new)
    BY <1>9, <2>1, <2>2 DEF InOrder
  <2> QED
    BY <2>3 DEF new
<1>11. OrderInv'
  BY <1>7, <1>8, <1>10, OrderKept
<1>12. ASSUME OneSlot, NoMetric \notin Reading, \A q \in Replica, j \in Slot : Claimed(q, j)
       PROVE  \A q \in Replica, j \in Slot : Claimed(q, j)'
  <2>1. ASSUME NEW d \in Config \ new.todo, peak'[r][d].active PROVE new.drove
    <3>1. CASE d = c /\ new.cmd = None
      <4>1. out.next.active /\ reading[c] # NoMetric
        BY <1>2, <1>7, <1>12, <2>1, <3>1
      <4>2. out.drives
        BY <1>3, <4>1
      <4> QED
        BY <1>5, <1>7, <4>2
    <3>2. CASE d = c /\ new.cmd # None
      BY <1>9, <3>2
    <3>3. CASE d # c
      <4>1. peak[r][d].active /\ d \in Config \ t.todo
        BY <1>7, <2>1, <3>3
      <4>2. t.drove
        BY <1>1, <1>12, <4>1 DEF Claimed
      <4> QED
        BY <1>5, <1>7, <4>2
    <3> QED
      BY <3>1, <3>2, <3>3
  <2>2. new.sent \cap {"plan", "schedule"} = {}
    BY <1>9, EmsAssumption DEF EmsAssumption
  <2>3. new.stage = "peak"
    BY <1>7
  <2>4. Claimed(r, k)'
    BY <2>1, <2>2, <2>3 DEF Claimed
  <2> QED
    BY <1>7, <1>12, <2>4, ClaimsKept
<1> QED
  BY <1>11, <1>12


LEMMA EvalPlanKeeps ==
  ASSUME OrderInv, NEW r \in Replica, NEW k \in Slot, EvalPlan(r, k)
  PROVE  /\ OrderInv'
         /\ OneSlot /\ (\A q \in Replica, j \in Slot : Claimed(q, j))
              => \A q \in Replica, j \in Slot : Claimed(q, j)'
<1> DEFINE t == tick[r][k]
           value == IF t.drove THEN None ELSE PlanValue
           out == Outcome(value, NoEvent, TRUE)
           next == [t EXCEPT !.stage = "schedule", !.drove = @ \/ value # None]
<1>1. /\ t.stage = "peak" /\ t.todo = {} /\ t.cmd = None
      /\ Sends(r, k, next, "plan", out) /\ UNCHANGED <<reading, soc, plan, due, register, last, fails, crashes>>
  BY DEF EvalPlan, env
<1>2. TypeOK /\ t \in TickState /\ InOrder(t) /\ plan \in Plan /\ due \in Schedule
  BY DEF OrderInv, TypeOK
<1>3. OutcomeSound(out) /\ out.value = value
  <2>1. value \in Setpoint \cup {None}
    BY <1>2, Asked
  <2> QED
    BY <2>1, Outcomes, Ranges DEF Outcome
<1>4. /\ next \in TickState /\ next.stage = "schedule" /\ next.todo = {} /\ next.sent = t.sent
      /\ next.cmd = None /\ next.drove = (t.drove \/ value # None)
  <2>1. t.drove \in BOOLEAN
    BY <1>2 DEF TickState
  <2>2. (t.drove \/ value # None) \in BOOLEAN
    BY <2>1
  <2> QED
    BY <1>1, <1>2, <2>2 DEF TickState
<1>5. "plan" \in Strategy /\ "plan" \notin Config
  BY EmsAssumption DEF Strategy, EmsAssumption
<1>6. t.drove => value = None
  OBVIOUS
<1> HIDE DEF next, out, value
<1>7. /\ tick' \in [Replica -> [Slot -> TickState]]
      /\ \A q \in Replica, j \in Slot : q # r \/ j # k => tick'[q][j] = tick[q][j]
      /\ tick'[r][k].stage = "schedule" /\ tick'[r][k].todo = {}
      /\ tick'[r][k].drove = next.drove
      /\ IF value = None THEN tick'[r][k] = next ELSE tick'[r][k].sent = next.sent \cup {"plan"}
      /\ tick'[r][k].cmd # None => tick'[r][k].cmd.by = "plan"
      /\ peak' = peak
  <2>1. Sends(r, k, next, "plan", out)
    BY <1>1
  <2> HIDE DEF t
  <2> QED
    BY <1>2, <1>3, <1>4, <1>5, <2>1, SendsSound
<1>8. TypeOK'
  BY <1>1, <1>2, <1>7 DEF TypeOK
<1> DEFINE new == tick'[r][k]
<1>9. /\ t.sent \subseteq Config /\ (t.sent # {} => t.drove)
  BY <1>1, <1>2 DEF InOrder
<1>10. new.sent \in (SUBSET Config) \cup {{"plan"}} /\ (new.sent # {} => new.drove)
       /\ ("plan" \in new.sent => ~t.drove)
  <2>1. CASE value = None
    BY <1>4, <1>5, <1>7, <1>9, <2>1
  <2>2. CASE value # None
    <3>1. t.sent = {} /\ ~t.drove
      BY <1>6, <1>9, <2>2
    <3> QED
      BY <1>4, <1>7, <2>2, <3>1
  <2> QED
    BY <2>1, <2>2
<1>11. InOrder(tick'[r][k])
  <2>1. new.stage = "schedule" /\ (new.cmd # None => new.cmd.by \notin Config) /\ "schedule" \notin Config
    BY <1>5, <1>7, EmsAssumption DEF EmsAssumption
  <2> HIDE DEF new, t
  <2>2. new.sent # {"schedule"}
    BY <1>10, <2>1
  <2>3. InOrder(new)
    BY <1>10, <2>1, <2>2 DEF InOrder
  <2> QED
    BY <2>3 DEF new
<1>12. OrderInv'
  BY <1>7, <1>8, <1>11, OrderKept
<1>13. ASSUME OneSlot, \A q \in Replica, j \in Slot : Claimed(q, j)
       PROVE  \A q \in Replica, j \in Slot : Claimed(q, j)'
  <2>1. \A c \in Config : peak[r][c].active => t.drove
    BY <1>1, <1>13 DEF Claimed
  <2>2. t.drove => new.drove
    BY <1>4, <1>7
  <2>3. new.sent \cap {"plan", "schedule"} # {} => ~t.drove
    <3>1. "schedule" \notin new.sent
      BY <1>10, EmsAssumption DEF EmsAssumption
    <3> QED
      BY <1>10, <3>1
  <2>4. new.todo = {} /\ peak'[r] = peak[r]
    BY <1>7
  <2>5. Claimed(r, k)'
    BY <2>1, <2>2, <2>3, <2>4 DEF Claimed
  <2>6. \A q \in Replica \ {r}, c \in Config : peak'[q][c] = peak[q][c]
    BY <1>7
  <2> QED
    BY <1>7, <1>13, <2>5, <2>6, ClaimsKept
<1> QED
  BY <1>12, <1>13

LEMMA EvalScheduleKeeps ==
  ASSUME OrderInv, NEW r \in Replica, NEW k \in Slot, EvalSchedule(r, k)
  PROVE  /\ OrderInv'
         /\ OneSlot /\ (\A q \in Replica, j \in Slot : Claimed(q, j))
              => \A q \in Replica, j \in Slot : Claimed(q, j)'
<1> DEFINE t == tick[r][k]
           value == IF t.drove THEN None ELSE ScheduleValue
           out == Outcome(value, NoEvent, TRUE)
           next == [t EXCEPT !.stage = "ending"]
<1>1. /\ t.stage = "schedule" /\ t.cmd = None
      /\ Sends(r, k, next, "schedule", out) /\ UNCHANGED <<reading, soc, plan, due, register, last, fails, crashes>>
  BY DEF EvalSchedule, env
<1>2. TypeOK /\ t \in TickState /\ InOrder(t) /\ plan \in Plan /\ due \in Schedule
  BY DEF OrderInv, TypeOK
<1>3. OutcomeSound(out) /\ out.value = value
  <2>1. value \in Setpoint \cup {None}
    BY <1>2, Asked
  <2> QED
    BY <2>1, Outcomes, Ranges DEF Outcome
<1>4. /\ next \in TickState /\ next.stage = "ending" /\ next.todo = t.todo /\ next.sent = t.sent
      /\ next.cmd = None /\ next.drove = t.drove
  BY <1>1, <1>2 DEF TickState
<1>5. "schedule" \in Strategy /\ "schedule" \notin Config
  BY EmsAssumption DEF Strategy, EmsAssumption
<1>6. t.drove => value = None
  OBVIOUS
<1> HIDE DEF next, out, value
<1>7. /\ tick' \in [Replica -> [Slot -> TickState]]
      /\ \A q \in Replica, j \in Slot : q # r \/ j # k => tick'[q][j] = tick[q][j]
      /\ tick'[r][k].stage = "ending" /\ tick'[r][k].todo = t.todo
      /\ tick'[r][k].drove = t.drove
      /\ IF value = None THEN tick'[r][k] = next ELSE tick'[r][k].sent = next.sent \cup {"schedule"}
      /\ tick'[r][k].cmd # None => tick'[r][k].cmd.by = "schedule"
      /\ peak' = peak
  <2>1. Sends(r, k, next, "schedule", out)
    BY <1>1
  <2> HIDE DEF t
  <2> QED
    BY <1>2, <1>3, <1>4, <1>5, <2>1, SendsSound
<1>8. TypeOK'
  BY <1>1, <1>2, <1>7 DEF TypeOK
<1> DEFINE new == tick'[r][k]
<1>9. /\ t.sent \in (SUBSET Config) \cup {{"plan"}, {"schedule"}} /\ (t.sent # {} => t.drove)
  BY <1>1, <1>2 DEF InOrder
<1>10. /\ new.sent \in (SUBSET Config) \cup {{"plan"}, {"schedule"}}
       /\ new.sent = t.sent \/ (~t.drove /\ t.sent = {} /\ new.sent = {"schedule"})
  <2>1. CASE value = None
    BY <1>4, <1>7, <1>9, <2>1
  <2>2. CASE value # None
    <3>1. t.sent = {} /\ ~t.drove
      BY <1>6, <1>9, <2>2
    <3> QED
      BY <1>4, <1>7, <2>2, <3>1
  <2> QED
    BY <2>1, <2>2
<1>11. InOrder(tick'[r][k])
  <2>1. new.stage = "ending" /\ (new.cmd # None => new.cmd.by \notin Config)
    BY <1>5, <1>7
  <2> HIDE DEF new, t
  <2>3. InOrder(new)
    BY <1>10, <2>1 DEF InOrder
  <2> QED
    BY <2>3 DEF new
<1>12. OrderInv'
  BY <1>7, <1>8, <1>11, OrderKept
<1>13. ASSUME OneSlot, \A q \in Replica, j \in Slot : Claimed(q, j)
       PROVE  \A q \in Replica, j \in Slot : Claimed(q, j)'
  <2>1. /\ \A c \in Config : peak[r][c].active => t.drove
        /\ t.sent \cap {"plan", "schedule"} # {} => \A c \in Config : ~peak[r][c].active
        /\ t.todo = {}
    BY <1>1, <1>13 DEF Claimed
  <2>2. new.drove = t.drove /\ new.todo = {} /\ peak'[r] = peak[r] /\ new.stage = "ending"
    BY <1>7, <2>1
  <2>3. new.sent \cap {"plan", "schedule"} # {} => \A c \in Config : ~peak[r][c].active
    BY <1>10, <2>1
  <2>5. Claimed(r, k)'
    BY <2>1, <2>2, <2>3 DEF Claimed
  <2>6. \A q \in Replica \ {r}, c \in Config : peak'[q][c] = peak[q][c]
    BY <1>7
  <2> QED
    BY <1>7, <1>13, <2>5, <2>6, ClaimsKept
<1> QED
  BY <1>12, <1>13


---------------------------------------------------------------------------
LEMMA BeginKeeps ==
  ASSUME OrderInv, NEW r \in Replica, NEW k \in Slot, Begin(r, k)
  PROVE  /\ OrderInv'
         /\ OneSlot /\ (\A q \in Replica, j \in Slot : Claimed(q, j))
              => \A q \in Replica, j \in Slot : Claimed(q, j)'
<1> DEFINE limits == IF plan = NoPlan THEN FALSE ELSE plan.limited
           next == [IdleTick EXCEPT !.stage = "peak", !.todo = Config, !.limited = limits]
<1>1. /\ SetTick(r, k, next) /\ UNCHANGED <<reading, soc, plan, due, register, peak, fails, crashes>>
      /\ last' = [s \in Replica |-> [last[s] EXCEPT !.age = Lesser(@ + 1, Window)]]
  BY DEF Begin, env
<1>2. TypeOK /\ plan \in Plan
  BY DEF OrderInv, TypeOK
<1>3. limits \in BOOLEAN
  BY <1>2, EmsAssumption DEF EmsAssumption
<1> HIDE DEF limits
<1>4. /\ next \in TickState /\ next.stage = "peak" /\ next.todo = Config /\ next.sent = {}
      /\ next.cmd = None
  BY <1>3 DEF IdleTick, TickState
<1> HIDE DEF next
<1>5. /\ tick' \in [Replica -> [Slot -> TickState]] /\ tick'[r][k] = next
      /\ \A q \in Replica, j \in Slot : q # r \/ j # k => tick'[q][j] = tick[q][j]
  BY <1>1, <1>2, <1>4, TickSet DEF TypeOK
<1>6. last' \in [Replica -> [value : Setpoint, age : 0..Window]]
  <2>1. \A a \in 0..Window : Lesser(a + 1, Window) \in 0..Window
    BY Ranges DEF Lesser
  <2> QED
    BY <1>1, <1>2, <2>1 DEF TypeOK
<1>7. TypeOK'
  BY <1>1, <1>2, <1>5, <1>6 DEF TypeOK
<1>8. InOrder(next)
  BY <1>4 DEF InOrder
<1>9. OrderInv'
  BY <1>5, <1>7, <1>8, OrderKept
<1>10. Claimed(r, k)'
  BY <1>4, <1>5 DEF Claimed
<1>11. \A q \in Replica \ {r}, c \in Config : peak'[q][c] = peak[q][c]
  BY <1>1
<1> QED
  BY <1>5, <1>9, <1>10, <1>11, ClaimsKept

LEMMA EndKeeps ==
  ASSUME OrderInv, NEW r \in Replica, NEW k \in Slot, End(r, k)
  PROVE  /\ OrderInv'
         /\ OneSlot /\ (\A q \in Replica, j \in Slot : Claimed(q, j))
              => \A q \in Replica, j \in Slot : Claimed(q, j)'
<1>1. SetTick(r, k, IdleTick) /\ UNCHANGED <<reading, soc, plan, due, register, peak, last, fails, crashes>>
  BY DEF End, env
<1>2. TypeOK
  BY DEF OrderInv
<1>3. /\ IdleTick \in TickState /\ IdleTick.stage = "idle" /\ IdleTick.sent = {} /\ IdleTick.cmd = None
  BY DEF IdleTick, TickState
<1>4. /\ tick' \in [Replica -> [Slot -> TickState]] /\ tick'[r][k] = IdleTick
      /\ \A q \in Replica, j \in Slot : q # r \/ j # k => tick'[q][j] = tick[q][j]
  BY <1>1, <1>2, <1>3, TickSet DEF TypeOK
<1>5. TypeOK'
  BY <1>1, <1>2, <1>4 DEF TypeOK
<1>6. InOrder(IdleTick)
  BY <1>3 DEF InOrder
<1>7. OrderInv'
  BY <1>4, <1>5, <1>6, OrderKept
<1>8. Claimed(r, k)'
  BY <1>3, <1>4 DEF Claimed
<1>9. \A q \in Replica \ {r}, c \in Config : peak'[q][c] = peak[q][c]
  BY <1>1
<1> QED
  BY <1>4, <1>7, <1>8, <1>9, ClaimsKept

LEMMA LandsKeeps ==
  ASSUME OrderInv, NEW r \in Replica, NEW k \in Slot, Lands(r, k)
  PROVE  /\ OrderInv'
         /\ OneSlot /\ (\A q \in Replica, j \in Slot : Claimed(q, j))
              => \A q \in Replica, j \in Slot : Claimed(q, j)'
<1> DEFINE t == tick[r][k]
           landed == [t.cmd EXCEPT !.landed = TRUE]
           next == [t EXCEPT !.cmd = landed]
<1>1. /\ t.cmd # None /\ register' = t.cmd.value
      /\ SetTick(r, k, [t EXCEPT !.cmd.landed = TRUE])
      /\ UNCHANGED <<reading, soc, plan, due, peak, last, fails, crashes>>
  BY DEF Lands, env
<1>2. TypeOK /\ t \in TickState /\ InOrder(t)
  BY DEF OrderInv, TypeOK
<1>3. t.cmd \in Command
  BY <1>1, <1>2 DEF TickState
<1>4. SetTick(r, k, next)
  BY <1>1
<1>5. landed \in Command /\ landed.by = t.cmd.by /\ t.cmd.value \in Setpoint
  BY <1>3 DEF Command
<1> HIDE DEF landed
<1>6. /\ next \in TickState /\ next.stage = t.stage /\ next.todo = t.todo /\ next.sent = t.sent
      /\ next.drove = t.drove /\ next.cmd = landed
  BY <1>2, <1>5 DEF TickState
<1> HIDE DEF next
<1>7. /\ tick' \in [Replica -> [Slot -> TickState]] /\ tick'[r][k] = next
      /\ \A q \in Replica, j \in Slot : q # r \/ j # k => tick'[q][j] = tick[q][j]
  BY <1>2, <1>4, <1>6, TickSet DEF TypeOK
<1>8. TypeOK'
  BY <1>1, <1>2, <1>5, <1>7 DEF TypeOK
<1>9. t.stage # "idle"
  BY <1>1, <1>2 DEF InOrder, IdleTick
<1>10. InOrder(next)
  BY <1>1, <1>2, <1>5, <1>6, <1>9 DEF InOrder
<1>11. OrderInv'
  BY <1>7, <1>8, <1>10, OrderKept
<1>12. Claimed(r, k) => Claimed(r, k)'
  BY <1>1, <1>6, <1>7 DEF Claimed
<1>13. \A q \in Replica \ {r}, c \in Config : peak'[q][c] = peak[q][c]
  BY <1>1
<1> QED
  BY <1>7, <1>11, <1>12, <1>13, ClaimsKept

(***************************************************************************)
(* When send() returns the peak event is recorded: its configuration drove   *)
(* the BESS, in a tick that has not come to plans yet.                       *)
(***************************************************************************)
LEMMA ReturnsKeeps ==
  ASSUME OrderInv, NEW r \in Replica, NEW k \in Slot, tick[r][k].cmd # None, Returns(r, k),
         last' = last \/ Remember(r, tick[r][k].cmd.value), fails' \in 0..MaxFails
  PROVE  /\ OrderInv'
         /\ OneSlot /\ (\A q \in Replica, j \in Slot : Claimed(q, j))
              => \A q \in Replica, j \in Slot : Claimed(q, j)'
<1> DEFINE t == tick[r][k]
           next == [t EXCEPT !.cmd = None]
<1>1. /\ t.cmd # None /\ SetTick(r, k, next)
      /\ peak' = IF t.cmd.by \in Config THEN [peak EXCEPT ![r][t.cmd.by] = t.cmd.next] ELSE peak
      /\ UNCHANGED <<reading, soc, plan, due, register, crashes>>
  BY DEF Returns, env
<1>2. TypeOK /\ t \in TickState /\ InOrder(t) /\ peak \in [Replica -> [Config -> Event]]
  BY DEF OrderInv, TypeOK
<1>3. t.cmd \in Command
  BY <1>1, <1>2 DEF TickState
<1>4. t.cmd.next \in Event /\ t.cmd.value \in Setpoint
  BY <1>3 DEF Command
<1>5. /\ next \in TickState /\ next.stage = t.stage /\ next.todo = t.todo /\ next.sent = t.sent
      /\ next.drove = t.drove /\ next.cmd = None
  BY <1>2 DEF TickState
<1> HIDE DEF next
<1>6. /\ tick' \in [Replica -> [Slot -> TickState]] /\ tick'[r][k] = next
      /\ \A q \in Replica, j \in Slot : q # r \/ j # k => tick'[q][j] = tick[q][j]
  BY <1>1, <1>2, <1>5, TickSet DEF TypeOK
<1>7. /\ peak' \in [Replica -> [Config -> Event]]
      /\ \A q \in Replica \ {r}, c \in Config : peak'[q][c] = peak[q][c]
      /\ peak' = peak \/ t.cmd.by \in Config
  <2>1. CASE t.cmd.by \in Config
    <3>1. peak' = [peak EXCEPT ![r][t.cmd.by] = t.cmd.next]
      BY <1>1, <2>1
    <3> HIDE DEF t
    <3> QED
      BY <1>2, <1>4, <2>1, <3>1
  <2>2. CASE t.cmd.by \notin Config
    BY <1>1, <1>2, <2>2
  <2> QED
    BY <2>1, <2>2
<1>8. last' \in [Replica -> [value : Setpoint, age : 0..Window]]
  <2>1. CASE last' = last
    BY <1>2, <2>1 DEF TypeOK
  <2>2. CASE Remember(r, t.cmd.value)
    <3>1. last' = [last EXCEPT ![r] = [value |-> t.cmd.value, age |-> 0]]
      BY <2>2 DEF Remember
    <3>2. [value |-> t.cmd.value, age |-> 0] \in [value : Setpoint, age : 0..Window]
      BY <1>4, Ranges
    <3> HIDE DEF t
    <3> QED
      BY <1>2, <3>1, <3>2 DEF TypeOK
  <2> QED
    BY <2>1, <2>2
<1>9. TypeOK'
  BY <1>1, <1>2, <1>6, <1>7, <1>8 DEF TypeOK
<1>10. t.stage # "idle" /\ (t.cmd.by \in Config => t.stage = "peak" /\ t.drove)
  BY <1>1, <1>2 DEF InOrder, IdleTick
<1>11. InOrder(next)
  BY <1>2, <1>5, <1>10 DEF InOrder
<1>12. OrderInv'
  BY <1>6, <1>9, <1>11, OrderKept
<1>13. Claimed(r, k) => Claimed(r, k)'
  <2>1. CASE peak' = peak
    BY <1>5, <1>6, <2>1 DEF Claimed
  <2>2. CASE t.cmd.by \in Config
    <3>1. next.drove /\ next.stage = "peak" /\ next.sent \cap {"plan", "schedule"} = {}
      BY <1>2, <1>5, <1>10, <2>2, EmsAssumption DEF InOrder, EmsAssumption
    <3> QED
      BY <1>6, <3>1 DEF Claimed
  <2> QED
    BY <1>7, <2>1, <2>2
<1> QED
  BY <1>6, <1>7, <1>12, <1>13, ClaimsKept

LEMMA EvalFailsKeeps ==
  ASSUME OrderInv, NEW r \in Replica, NEW k \in Slot, EvalFails(r, k)
  PROVE  OrderInv'
<1> DEFINE t == tick[r][k]
<1>1. /\ fails < MaxFails /\ fails' = fails + 1 /\ t.cmd = None
      /\ UNCHANGED <<reading, soc, plan, due, register, peak, last, crashes>>
  BY DEF EvalFails, env
<1>2. TypeOK /\ t \in TickState /\ InOrder(t) /\ fails \in 0..MaxFails
  BY DEF OrderInv, TypeOK
<1>3. fails' \in 0..MaxFails
  BY <1>1, <1>2, Ranges
<1>4. ASSUME NEW s \in {"peak", "schedule", "ending"}, NEW next \in TickState, SetTick(r, k, next),
             next.sent = t.sent, next.cmd = None, next.drove = t.drove, next.stage = s,
             <<t.stage, s>> \in {<<"peak", "peak">>, <<"peak", "schedule">>, <<"schedule", "ending">>}
      PROVE  OrderInv'
  <2>1. /\ tick' \in [Replica -> [Slot -> TickState]] /\ tick'[r][k] = next
        /\ \A q \in Replica, j \in Slot : q # r \/ j # k => tick'[q][j] = tick[q][j]
    BY <1>2, <1>4, TickSet DEF TypeOK
  <2>2. TypeOK'
    BY <1>1, <1>2, <1>3, <2>1 DEF TypeOK
  <2>3. t.stage = "peak" /\ s = "schedule" => t.sent # {"schedule"}
    BY <1>2, EmsAssumption DEF InOrder, EmsAssumption
  <2>4. InOrder(next)
    BY <1>2, <1>4, <2>3 DEF InOrder
  <2> QED
    BY <2>1, <2>2, <2>4, OrderKept
<1>5. CASE t.stage = "peak" /\ \E c \in t.todo : SetTick(r, k, [t EXCEPT !.todo = @ \ {c}])
  <2>1. PICK c \in t.todo : SetTick(r, k, [t EXCEPT !.todo = @ \ {c}])
    BY <1>5
  <2> DEFINE next == [t EXCEPT !.todo = @ \ {c}]
  <2>2. /\ next \in TickState /\ next.sent = t.sent /\ next.cmd = None /\ next.drove = t.drove
        /\ next.stage = "peak" /\ SetTick(r, k, next)
    BY <1>1, <1>2, <1>5, <2>1 DEF TickState
  <2> HIDE DEF next
  <2> QED
    BY <1>4, <1>5, <2>2
<1>6. CASE t.stage = "peak" /\ SetTick(r, k, [t EXCEPT !.stage = "schedule"])
  <2> DEFINE next == [t EXCEPT !.stage = "schedule"]
  <2>2. /\ next \in TickState /\ next.sent = t.sent /\ next.cmd = None /\ next.drove = t.drove
        /\ next.stage = "schedule" /\ SetTick(r, k, next)
    BY <1>1, <1>2, <1>6 DEF TickState
  <2> HIDE DEF next
  <2> QED
    BY <1>4, <1>6, <2>2
<1>7. CASE t.stage = "schedule" /\ SetTick(r, k, [t EXCEPT !.stage = "ending"])
  <2> DEFINE next == [t EXCEPT !.stage = "ending"]
  <2>2. /\ next \in TickState /\ next.sent = t.sent /\ next.cmd = None /\ next.drove = t.drove
        /\ next.stage = "ending" /\ SetTick(r, k, next)
    BY <1>1, <1>2, <1>7 DEF TickState
  <2> HIDE DEF next
  <2> QED
    BY <1>4, <1>7, <2>2
<1> QED
  BY <1>5, <1>6, <1>7 DEF EvalFails


---------------------------------------------------------------------------
LEMMA CrashKeeps ==
  ASSUME OrderInv, NEW r \in Replica, Crash(r)
  PROVE  /\ OrderInv'
         /\ (\A q \in Replica, j \in Slot : Claimed(q, j))
              => \A q \in Replica, j \in Slot : Claimed(q, j)'
<1>1. /\ crashes < MaxCrashes /\ crashes' = crashes + 1
      /\ peak' = [peak EXCEPT ![r] = [c \in Config |-> NoEvent]]
      /\ last' = [last EXCEPT ![r] = [value |-> 0, age |-> Window]]
      /\ tick' = [tick EXCEPT ![r] = [k \in Slot |-> IdleTick]]
      /\ UNCHANGED <<reading, soc, plan, due, register, fails>>
  BY DEF Crash, env
<1>2. TypeOK
  BY DEF OrderInv
<1>3. IdleTick \in TickState /\ InOrder(IdleTick)
  BY DEF IdleTick, TickState, InOrder
<1>4. /\ tick' \in [Replica -> [Slot -> TickState]]
      /\ \A j \in Slot : tick'[r][j] = IdleTick
      /\ \A q \in Replica \ {r} : tick'[q] = tick[q]
  BY <1>1, <1>2, <1>3 DEF TypeOK
<1>5. /\ peak' \in [Replica -> [Config -> Event]]
      /\ \A c \in Config : peak'[r][c] = NoEvent
      /\ \A q \in Replica \ {r} : peak'[q] = peak[q]
  BY <1>1, <1>2, Ranges DEF TypeOK
<1>6. last' \in [Replica -> [value : Setpoint, age : 0..Window]]
  <2>1. [value |-> 0, age |-> Window] \in [value : Setpoint, age : 0..Window]
    BY Ranges
  <2> QED
    BY <1>1, <1>2, <2>1 DEF TypeOK
<1>7. crashes' \in 0..MaxCrashes
  BY <1>1, <1>2, Ranges DEF TypeOK
<1>8. TypeOK'
  BY <1>1, <1>2, <1>4, <1>5, <1>6, <1>7 DEF TypeOK
<1>9. \A q \in Replica, j \in Slot : InOrder(tick'[q][j])
  BY <1>3, <1>4 DEF OrderInv
<1>10. OrderInv'
  BY <1>8, <1>9 DEF OrderInv
<1>11. ASSUME \A q \in Replica, j \in Slot : Claimed(q, j), NEW q \in Replica, NEW j \in Slot
       PROVE  Claimed(q, j)'
  <2>1. CASE q = r
    BY <1>4, <1>5, <2>1 DEF Claimed, IdleTick, NoEvent
  <2>2. CASE q # r
    BY <1>4, <1>5, <1>11, <2>2 DEF Claimed
  <2> QED
    BY <2>1, <2>2
<1> QED
  BY <1>10, <1>11

LEMMA ChangeKeeps ==
  ASSUME OrderInv, Change \/ UNCHANGED vars
  PROVE  /\ OrderInv'
         /\ (\A q \in Replica, j \in Slot : Claimed(q, j))
              => \A q \in Replica, j \in Slot : Claimed(q, j)'
<1>1. UNCHANGED <<register, peak, last, tick, fails, crashes>>
  BY DEF Change, vars
<1>2. TypeOK
  BY DEF OrderInv
<1>3. reading' \in [Config -> Reading] /\ soc' \in Soc /\ plan' \in Plan /\ due' \in Schedule
  <2>1. CASE Change
    BY <1>2, <2>1 DEF Change, TypeOK
  <2>2. CASE UNCHANGED vars
    BY <1>2, <2>2 DEF vars, TypeOK
  <2> QED
    BY <2>1, <2>2
<1>4. TypeOK'
  BY <1>1, <1>2, <1>3 DEF TypeOK
<1>5. OrderInv'
  BY <1>1, <1>4 DEF OrderInv
<1> QED
  BY <1>1, <1>5 DEF Claimed

\* A write that comes back, with an answer or a failure.
LEMMA SendOkKeeps ==
  ASSUME OrderInv, NEW r \in Replica, NEW k \in Slot, SendOk(r, k)
  PROVE  /\ OrderInv'
         /\ OneSlot /\ (\A q \in Replica, j \in Slot : Claimed(q, j))
              => \A q \in Replica, j \in Slot : Claimed(q, j)'
<1>1. fails' \in 0..MaxFails
  BY DEF SendOk, OrderInv, TypeOK
<1>2. tick[r][k].cmd # None /\ Returns(r, k) /\ Remember(r, tick[r][k].cmd.value)
  BY DEF SendOk
<1> QED
  BY <1>1, <1>2, ReturnsKeeps

LEMMA SendFailsKeeps ==
  ASSUME OrderInv, NEW r \in Replica, NEW k \in Slot, SendFails(r, k)
  PROVE  OrderInv' /\ fails' # 0
<1>1. fails \in Nat /\ fails < MaxFails /\ fails' = fails + 1 /\ MaxFails \in Nat
  BY Ranges DEF SendFails, OrderInv, TypeOK
<1>2. fails' \in 0..MaxFails /\ fails' # 0
  BY <1>1
<1>3. /\ tick[r][k].cmd # None /\ Returns(r, k)
      /\ last' = last \/ Remember(r, tick[r][k].cmd.value)
  BY DEF SendFails
<1> QED
  BY <1>2, <1>3, ReturnsKeeps

---------------------------------------------------------------------------
LEMMA OwnerInit == Init => OwnerInv
<1> SUFFICES ASSUME Init PROVE OwnerInv
  OBVIOUS
<1>1. IdleTick \in TickState /\ InOrder(IdleTick)
  BY DEF IdleTick, TickState, InOrder
<1>2. [value |-> 0, age |-> Window] \in [value : Setpoint, age : 0..Window]
  BY Ranges
<1>3. TypeOK
  BY <1>1, <1>2, Ranges DEF Init, TypeOK
<1>4. OrderInv
  BY <1>1, <1>3 DEF OrderInv, Init
<1>5. \A r \in Replica, k \in Slot : Claimed(r, k)
  BY DEF Claimed, Init, IdleTick, NoEvent
<1> QED
  BY <1>4, <1>5 DEF OwnerInv

LEMMA OrderNext == OrderInv /\ [Next]_vars => OrderInv'
<1> SUFFICES ASSUME OrderInv, [Next]_vars PROVE OrderInv'
  OBVIOUS
<1>1. ASSUME NEW r \in Replica, NEW k \in Slot, TickStep(r, k)
      PROVE  OrderInv'
  BY <1>1, EvalPeakKeeps, EvalPlanKeeps, EvalScheduleKeeps, EndKeeps, LandsKeeps, SendOkKeeps DEF TickStep
<1>2. ASSUME NEW r \in Replica, NEW k \in Slot, Begin(r, k) \/ SendFails(r, k) \/ EvalFails(r, k)
      PROVE  OrderInv'
  BY <1>2, BeginKeeps, SendFailsKeeps, EvalFailsKeeps
<1>3. ASSUME NEW r \in Replica, Crash(r)
      PROVE  OrderInv'
  BY <1>3, CrashKeeps
<1>4. CASE Change \/ UNCHANGED vars
  BY <1>4, ChangeKeeps
<1> QED
  BY <1>1, <1>2, <1>3, <1>4 DEF Next

LEMMA OwnerNext ==
  ASSUME OneSlot, NoMetric \notin Reading
  PROVE  OwnerInv /\ [Next]_vars => OwnerInv'
<1> SUFFICES ASSUME OwnerInv, [Next]_vars, fails' = 0
             PROVE  \A q \in Replica, j \in Slot : Claimed(q, j)'
  BY OrderNext DEF OwnerInv
<1> USE DEF OwnerInv
<1>1. fails = 0
  <2>1. fails \in Nat
    BY DEF OrderInv, TypeOK
  <2>2. ASSUME NEW r \in Replica, NEW k \in Slot, TickStep(r, k)
        PROVE  fails' = fails
    <3>1. ASSUME NEW c \in Config, EvalPeak(r, k, c) PROVE fails' = fails
      BY <3>1 DEF EvalPeak
    <3>2. EvalPlan(r, k) => fails' = fails
      BY DEF EvalPlan
    <3>3. EvalSchedule(r, k) => fails' = fails
      BY DEF EvalSchedule
    <3>4. End(r, k) \/ Lands(r, k) \/ SendOk(r, k) => fails' = fails
      BY DEF End, Lands, SendOk
    <3> QED
      BY <2>2, <3>1, <3>2, <3>3, <3>4 DEF TickStep
  <2>3. \A r \in Replica, k \in Slot :
          Begin(r, k) \/ SendFails(r, k) \/ EvalFails(r, k) => fails' = fails \/ fails' = fails + 1
    BY DEF Begin, SendFails, EvalFails
  <2>4. (\E r \in Replica : Crash(r)) \/ Change \/ UNCHANGED vars => fails' = fails
    BY DEF Crash, Change, vars
  <2>5. fails' = fails \/ fails' = fails + 1
    BY <2>2, <2>3, <2>4 DEF Next
  <2> QED
    BY <2>1, <2>5
<1>2. OrderInv /\ \A q \in Replica, j \in Slot : Claimed(q, j)
  BY <1>1
<1>3. ASSUME NEW r \in Replica, NEW k \in Slot, TickStep(r, k)
      PROVE  \A q \in Replica, j \in Slot : Claimed(q, j)'
  <2>1. ASSUME NEW c \in Config, EvalPeak(r, k, c)
        PROVE  \A q \in Replica, j \in Slot : Claimed(q, j)'
    BY <1>2, <2>1, EvalPeakKeeps
  <2>2. CASE EvalPlan(r, k)
    BY <1>2, <2>2, EvalPlanKeeps
  <2>3. CASE EvalSchedule(r, k)
    BY <1>2, <2>3, EvalScheduleKeeps
  <2>4. CASE End(r, k)
    BY <1>2, <2>4, EndKeeps
  <2>5. CASE Lands(r, k)
    BY <1>2, <2>5, LandsKeeps
  <2>6. CASE SendOk(r, k)
    BY <1>2, <2>6, SendOkKeeps
  <2> QED
    BY <1>3, <2>1, <2>2, <2>3, <2>4, <2>5, <2>6 DEF TickStep
<1>4. ASSUME NEW r \in Replica, NEW k \in Slot, Begin(r, k)
      PROVE  \A q \in Replica, j \in Slot : Claimed(q, j)'
  BY <1>2, <1>4, BeginKeeps
<1>5. ASSUME NEW r \in Replica, NEW k \in Slot, SendFails(r, k) \/ EvalFails(r, k)
      PROVE  FALSE
  <2>1. fails' = fails + 1
    BY <1>5 DEF SendFails, EvalFails
  <2> QED
    BY <1>1, <2>1
<1>6. ASSUME NEW r \in Replica, Crash(r)
      PROVE  \A q \in Replica, j \in Slot : Claimed(q, j)'
  BY <1>2, <1>6, CrashKeeps
<1>7. CASE Change \/ UNCHANGED vars
  BY <1>2, <1>7, ChangeKeeps
<1> QED
  BY <1>3, <1>4, <1>5, <1>6, <1>7 DEF Next

---------------------------------------------------------------------------
(***************************************************************************)
(* The types: whatever is asked, fails or ends, the ticks, peak events and   *)
(* remembered setpoints keep their form, and the register holds a setpoint   *)
(* that a strategy can ask for.                                              *)
(***************************************************************************)
THEOREM EmsTypeCorrect == Spec => []TypeOK
<1>1. Init => OrderInv
  BY OwnerInit DEF OwnerInv
<1>2. OrderInv => TypeOK
  BY DEF OrderInv
<1> QED
  BY <1>1, <1>2, OrderNext, PTL DEF Spec

(***************************************************************************)
(* Priority peak > plan > schedule: at most one of the three calls send()    *)
(* for the BESS in a tick, however ticks overlap, whatever fails and         *)
(* whichever processes end.                                                  *)
(***************************************************************************)
THEOREM EmsOneStrategy == Spec => []OneStrategyPerTick
<1>1. Init => OrderInv
  BY OwnerInit DEF OwnerInv
<1>2. OrderInv => OneStrategyPerTick
  BY DEF OrderInv, InOrder, OneStrategyPerTick
<1> QED
  BY <1>1, <1>2, OrderNext, PTL DEF Spec

(***************************************************************************)
(* "a BESS with a firing/active peak config this tick skips plan and         *)
(* schedule evaluation entirely" (controller.ts:45-46): with ticks of a      *)
(* replica that do not overlap and source rows that carry the power, no plan *)
(* and no schedule sends while a peak event is active, until a query or a    *)
(* write fails.                                                              *)
(***************************************************************************)
THEOREM EmsOneOwner ==
  ASSUME OneSlot, NoMetric \notin Reading
  PROVE  Spec => []OneOwner
<1>1. OwnerInv => OneOwner
  BY DEF OwnerInv, OrderInv, InOrder, Claimed, OneOwner, OneStrategyPerTick, PeakOwnsTick
<1>2. OwnerInv /\ [Next]_vars => OwnerInv'
  BY OwnerNext
<1> QED
  BY <1>1, <1>2, OwnerInit, PTL DEF Spec

=============================================================================
