----------------------------- MODULE DataExport -----------------------------
(***************************************************************************)
(* The data exports of one organisation (api/orgs/export.ts, requestExport   *)
(* of api/routers/orgs.ts): a row and a file each.  The sweep that builds    *)
(* them runs under a lease, on an interval with no guard against itself: a   *)
(* build takes far longer than the interval, so the leader's own sweeps      *)
(* overlap, each with its own list of pending rows.                          *)
(***************************************************************************)
EXTENDS Naturals

CONSTANTS
  Last,         \* exports are numbered 1..Last
  Builder,      \* sweeps that can overlap
  None,
  MaxFails      \* bound: failing statements and writes, and process ends

ExportAssumption == Last \in Nat /\ MaxFails \in Nat /\ None \notin Nat

Export == 1..Last

VARIABLES
  export,     \* status of each data_exports row
  asking,     \* requests between the look for one in flight and the insert
  aged,       \* rows whose expiresAt is past
  archive,    \* the file of each
  builder,    \* per sweep: where it is, its list, the export in hand
  crossed,    \* history: exports two sweeps had in hand at once
  left,       \* history: exports a sweep left half-way, ending with them in hand
  kept,       \* history: exports whose file could not be removed
  fails

vars == <<export, asking, aged, archive, builder, crossed, left, kept, fails>>

Asleep == [pc |-> "idle", todo |-> {}, at |-> None]
InHand(e) == {b \in Builder : builder[b].at = e}
Crossing(e) == IF InHand(e) = {} THEN crossed ELSE crossed \cup {e}

\* The status column of data_exports.
ExportStatus == {"none", "pending", "running", "ready", "failed", "expired"}

TypeOK ==
  /\ export \in [Export -> ExportStatus]
  /\ asking \subseteq Export /\ aged \subseteq Export /\ crossed \subseteq Export
  /\ left \subseteq Export /\ kept \subseteq Export
  /\ archive \in [Export -> {"none", "partial", "whole"}]
  /\ builder \in [Builder -> [pc : {"idle", "build", "open", "write", "stat", "fail", "stale"},
                              todo : SUBSET Export, at : Export \cup {None}]]
  /\ fails \in 0..MaxFails

---------------------------------------------------------------------------
Init ==
  /\ export = [e \in Export |-> "none"]
  /\ asking = {} /\ aged = {} /\ crossed = {} /\ left = {} /\ kept = {}
  /\ archive = [e \in Export |-> "none"]
  /\ builder = [b \in Builder |-> Asleep]
  /\ fails = 0

Becomes(b, state) == builder' = [builder EXCEPT ![b] = state]
Sets(e, status) == export' = [export EXCEPT ![e] = status]
First(todo) == CHOOSE e \in todo : \A f \in todo : e <= f

\* requestExport: none of the organisation in flight, then the row.
InFlight == \E e \in Export : export[e] \in {"pending", "running"}
Ask(e) ==
  /\ export[e] = "none" /\ e \notin asking /\ ~InFlight
  /\ asking' = asking \cup {e}
  /\ UNCHANGED <<export, aged, archive, builder, crossed, left, kept, fails>>
Insert(e) ==
  /\ e \in asking /\ asking' = asking \ {e}
  /\ Sets(e, "pending")
  /\ UNCHANGED <<aged, archive, builder, crossed, left, kept, fails>>

\* exportSweep: the pending rows, lowest id first (the limit of 3 is not reached).
Pending == {e \in Export : export[e] = "pending"}
Outdated == {e \in Export : export[e] = "ready" /\ e \in aged}
ExportSweep(b) ==
  /\ builder[b] = Asleep /\ Pending \cup Outdated # {}
  /\ Becomes(b, [Asleep EXCEPT !.pc = "build", !.todo = Pending])
  /\ UNCHANGED <<export, asking, aged, archive, crossed, left, kept, fails>>

\* Mutant: a row that was built meanwhile stays as it is while it is built again.
RunningIfPending(e) == IF export[e] = "pending" THEN "running" ELSE export[e]
\* The status a build starts with, whatever the row has become since the list.
Running(e) == "running"
\* buildExport: the row ...
Begin(b) ==
  LET e == First(builder[b].todo) IN
  /\ builder[b].pc = "build" /\ builder[b].todo # {}
  /\ Sets(e, Running(e))
  /\ Becomes(b, [pc |-> "open", todo |-> builder[b].todo \ {e}, at |-> e])
  /\ crossed' = Crossing(e)
  /\ UNCHANGED <<asking, aged, archive, left, kept, fails>>

\* ... then the directory, and the file is opened, which empties it.
Open(b) ==
  /\ builder[b].pc = "open"
  /\ archive' = [archive EXCEPT ![builder[b].at] = "partial"]
  /\ Becomes(b, [builder[b] EXCEPT !.pc = "write"])
  /\ UNCHANGED <<export, asking, aged, crossed, left, kept, fails>>

\* The stream is finished and its size taken; a file that is gone is an error.
Finish(b) ==
  LET e == builder[b].at IN
  /\ builder[b].pc = "write"
  /\ Becomes(b, [builder[b] EXCEPT !.pc = IF archive[e] = "none" THEN "fail" ELSE "stat"])
  /\ archive' = [archive EXCEPT ![e] = IF @ = "none" THEN "none" ELSE "whole"]
  /\ UNCHANGED <<export, asking, aged, crossed, left, kept, fails>>

Onward(b) == Becomes(b, [builder[b] EXCEPT !.pc = "build", !.at = None])
Publish(b) ==
  /\ builder[b].pc = "stat"
  /\ Sets(builder[b].at, "ready") /\ aged' = aged \ {builder[b].at}
  /\ Onward(b)
  /\ UNCHANGED <<asking, archive, crossed, left, kept, fails>>

\* The build throws - the update to ready perhaps after it landed - and the
\* file is removed, unless that fails too: nobody hears of it.
Throw(b) ==
  LET e == builder[b].at IN
  /\ fails < MaxFails /\ fails' = fails + 1
  /\ builder[b].pc \in {"write", "stat"}
  /\ UNCHANGED export \/ (builder[b].pc = "stat" /\ Sets(e, "ready"))
  /\ \/ archive' = [archive EXCEPT ![e] = "none"] /\ UNCHANGED kept
     \/ archive[e] # "none" /\ kept' = kept \cup {e} /\ UNCHANGED archive
  /\ Becomes(b, [builder[b] EXCEPT !.pc = "fail"])
  /\ UNCHANGED <<asking, aged, crossed, left>>
\* Mutant: the row of a build that failed is left running.
MarkFailedNot(b) ==
  /\ builder[b].pc = "fail"
  /\ Onward(b)
  /\ UNCHANGED <<export, asking, aged, archive, crossed, left, kept, fails>>
MarkFailed(b) ==
  /\ builder[b].pc = "fail"
  /\ Sets(builder[b].at, "failed")
  /\ Onward(b)
  /\ UNCHANGED <<asking, aged, archive, crossed, left, kept, fails>>

\* Mutant: an expired archive stays on disk.
RemovedNot(e) == archive[e]
Removed(e) == "none"
\* The second half of the sweep: archives that have aged out.
ListStale(b) ==
  /\ builder[b].pc = "build" /\ builder[b].todo = {}
  /\ Becomes(b, IF Outdated = {} THEN Asleep ELSE [Asleep EXCEPT !.pc = "stale", !.todo = Outdated])
  /\ UNCHANGED <<export, asking, aged, archive, crossed, left, kept, fails>>
Expire(b) ==
  LET e == First(builder[b].todo)  rest == builder[b].todo \ {e} IN
  /\ builder[b].pc = "stale"
  /\ Sets(e, "expired")
  /\ crossed' = Crossing(e)
  /\ Becomes(b, IF rest = {} THEN Asleep ELSE [builder[b] EXCEPT !.todo = rest])
  /\ \/ archive' = [archive EXCEPT ![e] = Removed(e)] /\ UNCHANGED <<kept, fails>>
     \/ /\ fails < MaxFails /\ fails' = fails + 1    \* rmSync throws: a warning
        /\ archive[e] # "none" /\ kept' = kept \cup {e} /\ UNCHANGED archive
  /\ UNCHANGED <<asking, aged, left>>

\* A statement outside the try of a build throws, perhaps after it landed, and with
\* it the sweep ends: the update to running, the directory, the one to expired behind
\* the file, or - what made the build throw being still there - the one to failed.
SweepEnds(b) ==
  LET at == builder[b].at  next == First(builder[b].todo) IN
  /\ Becomes(b, Asleep)
  /\ \/ /\ builder[b].pc = "fail"
        /\ \/ left' = left \cup {at} /\ UNCHANGED export
           \/ Sets(at, "failed") /\ UNCHANGED left
        /\ UNCHANGED <<archive, crossed, fails>>
     \/ /\ fails < MaxFails /\ fails' = fails + 1
        /\ \/ /\ builder[b].pc = "build"
              /\ UNCHANGED <<export, archive, crossed, left>>
           \/ /\ builder[b].pc = "build" /\ builder[b].todo # {}
              /\ Sets(next, Running(next)) /\ left' = left \cup {next}
              /\ crossed' = Crossing(next)
              /\ UNCHANGED archive
           \/ /\ builder[b].pc = "open"
              /\ left' = left \cup {at}
              /\ UNCHANGED <<export, archive, crossed>>
           \/ /\ builder[b].pc = "stale"
              /\ UNCHANGED export \/ Sets(next, "expired")
              /\ archive' = [archive EXCEPT ![next] = Removed(next)]
              /\ crossed' = Crossing(next)
              /\ UNCHANGED left
  /\ UNCHANGED <<asking, aged, kept>>

\* EXPORT_TTL_HOURS after a build.
Age(e) ==
  /\ export[e] = "ready" /\ e \notin aged /\ aged' = aged \cup {e}
  /\ UNCHANGED <<export, asking, archive, builder, crossed, left, kept, fails>>

\* The process ends in the middle of its sweeps.
Crash ==
  /\ fails < MaxFails /\ fails' = fails + 1
  /\ builder' = [b \in Builder |-> Asleep]
  /\ left' = left \cup {e \in Export : InHand(e) # {}}
  /\ UNCHANGED <<export, asking, aged, archive, crossed, kept>>

Work(b) ==
  \/ Begin(b) \/ Open(b) \/ Finish(b) \/ Publish(b)
  \/ MarkFailed(b) \/ ListStale(b) \/ Expire(b)

Next ==
  \/ \E e \in Export : Ask(e) \/ Insert(e) \/ Age(e)
  \/ \E b \in Builder : ExportSweep(b) \/ Work(b) \/ Throw(b) \/ SweepEnds(b)
  \/ Crash

Spec == Init /\ [][Next]_vars

\* The interval keeps firing, builds go on.
FairSpec ==
  /\ Spec
  /\ WF_vars(\E b \in Builder : ExportSweep(b))
  /\ \A b \in Builder : WF_vars(Work(b))

---------------------------------------------------------------------------
(***************************************************************************)
(* "A half-written archive is worse than none" (export.ts:183): what a link  *)
(* can be had for is whole, through failures, process ends and builds that   *)
(* start over - as long as no two sweeps had that export in hand at once.    *)
(***************************************************************************)
Downloadable(e) == export[e] = "ready" /\ archive[e] # "none"
HandedOutWhole == \A e \in Export \ crossed : Downloadable(e) => archive[e] = "whole"

(***************************************************************************)
(* No copy of a tenant's data stays on disk behind a row that says it is     *)
(* gone, with the same exception; a file that cannot be removed does         *)
(* (export.ts:191, 226): its row says failed or expired all the same.        *)
(***************************************************************************)
NothingLingers ==
  \A e \in Export \ (crossed \cup kept) :
    export[e] \in {"failed", "expired"} /\ InHand(e) = {} => archive[e] = "none"

(***************************************************************************)
(* Every export that was asked for is built, or fails, unless a sweep ended  *)
(* with it in hand - with its process, or by a throw from outside the try of *)
(* its build: nothing ever looks at a row left "running" again, and while    *)
(* there is one requestExport refuses the organisation another.              *)
(***************************************************************************)
Built ==
  \A e \in Export : []<>(e \in left \/ export[e] \notin {"pending", "running"})

=============================================================================
