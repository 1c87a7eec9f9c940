------------------------------ MODULE Curtail ------------------------------
(***************************************************************************)
(* The arithmetic of the grid connection limit (api/ems/curtail.ts).  Powers *)
(* are whole kW, percentages tenths; grid power is positive when the site    *)
(* draws.  A limits record has maxImport, maxExport (None: no such limit),   *)
(* deadband and maxStep.  An asset has priority, id, rated and output (None: *)
(* no fresh telemetry).                                                      *)
(***************************************************************************)
EXTENDS Integers, Sequences, FiniteSets

CONSTANT None

Lesser(a, b) == IF a < b THEN a ELSE b
Greater(a, b) == IF a > b THEN a ELSE b

\* The room each limit leaves past the deadband; no limit, no room to offer.
Rooms(grid, limits) ==
  (IF limits.maxExport = None THEN {} ELSE {limits.maxExport + grid - limits.deadband})
  \cup (IF limits.maxImport = None THEN {} ELSE {limits.maxImport - grid - limits.deadband})

Status(state, excess, headroom) == [state |-> state, excess |-> excess, headroom |-> headroom]

\* gridStatus: export is looked at first.
GridStatus(grid, limits) ==
  IF limits.maxExport # None /\ -grid > limits.maxExport
  THEN Status("over-export", -grid - limits.maxExport, 0)
  ELSE IF limits.maxImport # None /\ grid > limits.maxImport
  THEN Status("over-import", grid - limits.maxImport, 0)
  ELSE LET rooms == Rooms(grid, limits)
       IN Status("ok", 0, IF rooms = {} \/ \E room \in rooms : room < 0 THEN 0
                             ELSE CHOOSE room \in rooms : \A other \in rooms : room <= other)

\* Mutants: the excess replaces the total; nothing is given back while all is well.
StepForgets(current, status, limits) ==
  IF status.state = "over-export" THEN Lesser(status.excess, limits.maxStep)
  ELSE Greater(0, current - Lesser(status.headroom, limits.maxStep))
StepHolds(current, status, limits) ==
  CASE status.state = "over-export" -> current + Lesser(status.excess, limits.maxStep)
    [] status.state = "over-import" -> Greater(0, current - Lesser(status.excess, limits.maxStep))
    [] OTHER                        -> current
\* stepCurtailment: the next total held back.
StepCurtailment(current, status, limits) ==
  LET by(kw) == Lesser(kw, limits.maxStep)
  IN CASE status.state = "over-export" -> current + by(status.excess)
       [] status.state = "over-import" -> Greater(0, current - by(status.excess))
       [] status.state = "ok"          -> Greater(0, current - by(status.headroom))

Before(a, b) == a.priority < b.priority \/ (a.priority = b.priority /\ a.id <= b.id)

Available(asset) == IF asset.output = None THEN 0 ELSE Greater(0, asset.output)

\* The assets in that order; no two of them have the same id.
Order(assets) ==
  CHOOSE p \in [DOMAIN assets -> DOMAIN assets] :
    \A i \in DOMAIN p : \A j \in DOMAIN p : i < j => p[i] # p[j] /\ Before(assets[p[i]], assets[p[j]])

\* allocateCurtailment: greedy, in priority order, each up to its own output.
Allocate(total, assets) ==
  LET ordered == [i \in DOMAIN assets |-> assets[Order(assets)[i]]]
      remaining[i \in 0..Len(assets)] ==
        IF i = 0 THEN Greater(0, total)
        ELSE remaining[i - 1] - Lesser(remaining[i - 1], Available(ordered[i]))
  IN [i \in DOMAIN ordered |->
        [id |-> ordered[i].id, rated |-> ordered[i].rated,
         take |-> remaining[i - 1] - remaining[i]]]

\* limitPct, in tenths of a percent of the rated power, halves rounded up.
LimitPct(share) ==
  IF share.rated <= 0 THEN 1000
  ELSE LET allowed == Greater(0, share.rated - share.take)
       IN Lesser(1000, (2000 * allowed + share.rated) \div (2 * share.rated))

=============================================================================
