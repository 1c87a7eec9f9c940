----------------------------- MODULE GridLimit -----------------------------
(***************************************************************************)
(* The grid connection limit of one site (evalGridLimits in                  *)
(* api/ems/controller.ts): at every tick the total held back is nudged by    *)
(* the reading at the point of common coupling, split over the site's        *)
(* assets, written to their activePowerLimitPct registers one after the      *)
(* other, and stored.  The plant answers: an asset puts out what the sun     *)
(* gives it up to its register's limit, and the coupling meter shows the     *)
(* load minus all of that.                                                   *)
(***************************************************************************)
EXTENDS Curtail

CONSTANTS
  N,            \* number of curtailment assets; the number is the priority
  Followers,    \* those whose profile declares activePowerLimitPct
  Rated,        \* rated power of every asset
  Limits,       \* the site's limits
  Weather,      \* [sun, load, pcc, seen]: supply, demand, is the coupling
                \* meter fresh, which assets have fresh telemetry
  MaxTotal,     \* bound: the total held back
  MaxFails,     \* bound: failed writes and updates
  MaxCrashes    \* bound: process ends

Asset == 1..N

GridAssumption ==
  /\ N \in Nat /\ Followers \subseteq Asset /\ Rated \in Nat \ {0}
  /\ {Limits.maxImport, Limits.maxExport} \subseteq Nat \cup {None} /\ None \notin Int
  /\ Limits.deadband \in Nat /\ Limits.maxStep \in Nat
  /\ \A w \in Weather : w.sun \in 0..Rated /\ w.load \in Nat /\ w.pcc \in BOOLEAN
                        /\ w.seen \subseteq Asset
  /\ {MaxTotal, MaxFails, MaxCrashes} \subseteq Nat

VARIABLES
  weather,
  limit,     \* the registers, in tenths of a percent
  total,     \* gridLimits.curtailKw
  cmd,       \* lastCmd: the last value sent to each asset, fresh for one tick
  round,     \* the tick under way
  fails, crashes

vars == <<weather, limit, total, cmd, round, fails, crashes>>

Idle == [on |-> FALSE, read |-> 0, next |-> 0, shares |-> <<>>, dark |-> FALSE]
Unsent == [value |-> None, fresh |-> FALSE]
Pct == {LimitPct([rated |-> Rated, take |-> t]) : t \in 0..Rated}

\* The curtail_kw column of grid_limits.
CurtailKw == 0..MaxTotal

TypeOK ==
  /\ weather \in Weather
  /\ limit \in [Asset -> Pct]
  /\ total \in CurtailKw
  /\ cmd \in [Asset -> [value : Pct \cup {None}, fresh : BOOLEAN]]
  /\ round.read \in 0..MaxTotal /\ round.next \in 0..MaxTotal
  /\ fails \in 0..MaxFails /\ crashes \in 0..MaxCrashes

\* The plant.
Output(a) == Lesser(weather.sun, (Rated * limit[a]) \div 1000)
Supply[a \in 0..N] == IF a = 0 THEN 0 ELSE Supply[a - 1] + Output(a)
Grid == weather.load - Supply[N]

---------------------------------------------------------------------------
Init ==
  /\ weather \in Weather
  /\ limit = [a \in Asset |-> 1000]
  /\ total = 0
  /\ cmd = [a \in Asset |-> Unsent]
  /\ round = Idle
  /\ fails = 0 /\ crashes = 0

\* The reading at the coupling point decides; a stale one holds the total.
NextTotal == IF weather.pcc
  THEN Lesser(MaxTotal, StepCurtailment(total, GridStatus(Grid, Limits), Limits)) ELSE total

Assets ==
  [a \in Asset |-> [id |-> a, priority |-> a, rated |-> Rated,
                    output |-> IF a \in weather.seen THEN Output(a) ELSE None]]

\* The tick reads the row and the telemetry and works out the shares.
Begin ==
  /\ ~round.on
  /\ round' = [on |-> TRUE, read |-> total, next |-> NextTotal, dark |-> ~weather.pcc,
               shares |-> Allocate(NextTotal, Assets)]
  /\ UNCHANGED <<weather, limit, total, cmd, fails, crashes>>

Share == Head(round.shares)
Sent(value) == cmd' = [cmd EXCEPT ![Share.id] = [value |-> value, fresh |-> TRUE]]
NextShare == round' = [round EXCEPT !.shares = Tail(@)]

\* No such register, or send() finds the same value sent within its window.
Skip ==
  /\ round.shares # <<>>
  /\ Share.id \in Followers => cmd[Share.id] = [value |-> LimitPct(Share), fresh |-> TRUE]
  /\ NextShare
  /\ UNCHANGED <<weather, limit, total, cmd, fails, crashes>>

\* send(): the write succeeds.
Send ==
  /\ round.shares # <<>> /\ Share.id \in Followers
  /\ cmd[Share.id] # [value |-> LimitPct(Share), fresh |-> TRUE]
  /\ limit' = [limit EXCEPT ![Share.id] = LimitPct(Share)]
  /\ Sent(LimitPct(Share))
  /\ NextShare
  /\ UNCHANGED <<weather, total, fails, crashes>>

(***************************************************************************)
(* send() catches a failed write, which may have reached the device, and     *)
(* remembers it when the chokepoint reported or refused it.                  *)
(***************************************************************************)
SendFails ==
  /\ fails < MaxFails /\ fails' = fails + 1
  /\ round.shares # <<>> /\ Share.id \in Followers
  /\ UNCHANGED limit \/ limit' = [limit EXCEPT ![Share.id] = LimitPct(Share)]
  /\ UNCHANGED cmd \/ Sent(LimitPct(Share))
  /\ NextShare
  /\ UNCHANGED <<weather, total, crashes>>

\* The total is stored when it changed, after the writes.
Store ==
  /\ round.on /\ round.shares = <<>>
  /\ total' = IF round.next # round.read THEN round.next ELSE total
  /\ round' = Idle
  /\ UNCHANGED <<weather, limit, cmd, fails, crashes>>

StoreFails ==
  /\ fails < MaxFails /\ fails' = fails + 1
  /\ round.on /\ round.shares = <<>>
  /\ round' = Idle
  /\ UNCHANGED <<weather, limit, total, cmd, crashes>>

\* EMS_IDEMPOTENCY_MS after a command.
Expire(a) ==
  /\ cmd[a].fresh
  /\ cmd' = [cmd EXCEPT ![a].fresh = FALSE]
  /\ UNCHANGED <<weather, limit, total, round, fails, crashes>>

\* The process ends and is started again.
Crash ==
  /\ crashes < MaxCrashes /\ crashes' = crashes + 1
  /\ round' = Idle
  /\ cmd' = [a \in Asset |-> Unsent]
  /\ UNCHANGED <<weather, limit, total, fails>>

\* Clouds, load, meters that go dark and come back.
Change == weather' \in Weather /\ UNCHANGED <<limit, total, cmd, round, fails, crashes>>

Step == Begin \/ Skip \/ Send \/ Store
Next == Step \/ SendFails \/ StoreFails \/ Crash \/ Change \/ \E a \in Asset : Expire(a)

Spec == Init /\ [][Next]_vars

\* The loop ticks and its writes settle; time passes.
FairSpec == Spec /\ WF_vars(Step) /\ \A a \in Asset : WF_vars(Expire(a))

---------------------------------------------------------------------------
Seen(w) == w.pcc /\ w.seen = Asset
Exported(w, assets) == w.sun * Cardinality(assets) - w.load

(***************************************************************************)
(* "capacity given back slowly" (curtail.test.ts:2-3), but given back: once  *)
(* the weather stays such that the assets unlimited would neither breach the *)
(* export limit nor reach its deadband (nor the load the import limit's),    *)
(* every register ends up at 100 %, whatever was held back, failed or was    *)
(* cut short before.                                                         *)
(***************************************************************************)
Harmless(w) ==
  /\ Seen(w)
  /\ Exported(w, Asset) < Limits.maxExport - Limits.deadband
  /\ w.load < Limits.maxImport - Limits.deadband
Released ==
  \A w \in Weather : Harmless(w) /\ <>[](weather = w) => <>[](\A a \in Asset : limit[a] = 1000)

(***************************************************************************)
(* "a breach is happening now and must be answered now" (curtail.ts:86-87):  *)
(* when holding back what the assets that follow can give brings the site    *)
(* inside its export limit, the loop keeps bringing it inside, whichever     *)
(* assets are ranked first and cannot follow.  Halves restricts it to full   *)
(* sun and to what halving every follower gives: a share is capped by what   *)
(* the asset puts out already limited, and taken off its rated power, so the *)
(* loop cannot ask an asset for less than half of that for two ticks.        *)
(***************************************************************************)
Breach == -Grid > Limits.maxExport
Halves(w) ==
  w.sun = Rated /\ 2 * Exported(w, Asset) - Rated * Cardinality(Followers) <= 2 * Limits.maxExport
Answered ==
  \A w \in Weather : Seen(w) /\ Halves(w) /\ <>[](weather = w) => []<>~Breach

\* The same for whatever the followers could give.
BreachEnds ==
  \A w \in Weather :
    Seen(w) /\ Exported(w, Asset \ Followers) <= Limits.maxExport /\ <>[](weather = w)
      => []<>~Breach

(***************************************************************************)
(* "a site that was curtailed when its meter went dark stays curtailed until *)
(* it comes back" (controller.ts:316-321): a tick that found the coupling    *)
(* meter stale raises no register.                                           *)
(***************************************************************************)
HeldWhenDark ==
  [][\A a \in Asset : round.on /\ round.dark => limit'[a] <= limit[a]]_vars

=============================================================================
