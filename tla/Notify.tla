------------------------------- MODULE Notify -------------------------------
(***************************************************************************)
(* Who hears of one alarm (api/alarms/notify.ts).  notifyAlarmBreach runs    *)
(* once, fire-and-forget, when the alarm row is inserted; every replica      *)
(* sweeps for alarms to escalate.  notifyAlarmResolved runs for everybody    *)
(* who finds the alarm open when it is over and resolves it: the rules'      *)
(* evaluation (mqtt/handlers.ts) and the offline sweep (mqtt/service.ts),    *)
(* on every replica.  All of them end in dispatchToChannels, over one        *)
(* alarm_notifications table.                                                *)
(***************************************************************************)
EXTENDS Naturals, FiniteSets

CONSTANTS
  First,         \* channels that are paged at once
  Second,        \* channels of an escalation
  Sweep,         \* escalation sweeps that can run at once
  Breach,        \* the notifier of the raise
  Clear,         \* resolvers, each with its notifier, that can be under way at once
  None,
  MaxAtOnce,     \* bound: jobs under way at once
  MaxToggles,    \* bound: suppressions and floods of alarms that begin or end, sends
                 \* that fail, clicks on an alarm that is over
  MaxCrashes     \* bound: process ends and failed statements

NotifyAssumption ==
  /\ First \cap Second = {} /\ None \notin First \cup Second
  /\ Breach \notin Clear \cup Sweep /\ Sweep \cap Clear = {}
  /\ IsFiniteSet(Sweep) /\ IsFiniteSet(Clear)
  /\ MaxAtOnce \in Nat /\ MaxToggles \in Nat /\ MaxCrashes \in Nat

Channel == First \cup Second
Job == Sweep \cup Clear \cup {Breach}
Kind == {"initial", "escalation", "resolved"}
KindOf(j) == IF j = Breach THEN "initial" ELSE IF j \in Clear THEN "resolved" ELSE "escalation"
Teller(k) == {j \in Job : KindOf(j) = k}

VARIABLES
  alarm,        \* its status
  stale,        \* is it past ESCALATE_AFTER_MS?
  suppressed,   \* is a suppression in force?
  crowded,      \* are there more due alarms than the 100 a sweep takes?
  alarmNotifications,  \* the row of each channel and kind
  job,          \* per notifier or sweep: where it is, the channels to do, the present one
  told,         \* history: messages that reached each channel, by kind, capped
  toggles, crashes

vars == <<alarm, stale, suppressed, crowded, alarmNotifications, job, told, toggles, crashes>>

\* More than NoStorm allows.
Cap == Cardinality(Job) + MaxCrashes + 1

NoJob == [pc |-> "idle", left |-> {}, ch |-> None, ok |-> FALSE]

\* Rows of alarm_notifications, one per channel and kind.
Notification == {"none", "sent", "failed"}

TypeOK ==
  /\ alarm \in {"none", "active", "acknowledged", "resolved"}
  /\ stale \in BOOLEAN /\ suppressed \in BOOLEAN /\ crowded \in BOOLEAN
  /\ alarmNotifications \in [Channel -> [Kind -> Notification]]
  /\ job \in [Job -> [pc : {"idle", "found", "list", "next", "send", "row"},
                      left : SUBSET Channel, ch : Channel \cup {None}, ok : BOOLEAN]]
  /\ told \in [Channel -> [Kind -> 0..Cap]]
  /\ toggles \in 0..MaxToggles /\ crashes \in 0..MaxCrashes

---------------------------------------------------------------------------
Init ==
  /\ alarm = "none" /\ stale = FALSE /\ suppressed \in BOOLEAN /\ crowded \in BOOLEAN
  /\ alarmNotifications = [c \in Channel |-> [k \in Kind |-> "none"]]
  /\ job = [j \in Job |-> NoJob]
  /\ told = [c \in Channel |-> [k \in Kind |-> 0]]
  /\ toggles = 0 /\ crashes = 0

Go(j, pc) == job' = [job EXCEPT ![j].pc = pc]
Done(j) == job' = [job EXCEPT ![j] = NoJob]
\* The loop goes on with the channels left, or ends.
Rest(j, left) ==
  job' = [job EXCEPT ![j] = IF left = {} THEN NoJob ELSE [NoJob EXCEPT !.pc = "next", !.left = left]]
Idle(j) == job[j].pc = "idle" /\ Cardinality({i \in Job : job[i].pc # "idle"}) < MaxAtOnce
env == <<alarm, stale, suppressed, crowded, toggles>>

Turn == toggles < MaxToggles /\ toggles' = toggles + 1

\* The alarm is inserted; operators, by its id whatever has become of it.
Raise ==
  /\ alarm = "none" /\ alarm' = "active"
  /\ Go(Breach, "list")
  /\ UNCHANGED <<stale, suppressed, crowded, alarmNotifications, told, toggles, crashes>>
Acknowledge ==
  /\ alarm # "none" /\ alarm' \in {"acknowledged", "resolved"} \ {alarm}
  /\ IF alarm = "resolved" THEN Turn ELSE UNCHANGED toggles
  /\ UNCHANGED <<stale, suppressed, crowded, alarmNotifications, job, told, crashes>>
Suppress ==
  /\ Turn
  /\ suppressed' = ~suppressed
  /\ UNCHANGED <<alarm, stale, crowded, alarmNotifications, job, told, crashes>>
Crowd ==
  /\ Turn
  /\ crowded' = ~crowded
  /\ UNCHANGED <<alarm, stale, suppressed, alarmNotifications, job, told, crashes>>
Ages ==
  /\ alarm = "active" /\ ~stale /\ stale' = TRUE
  /\ UNCHANGED <<alarm, suppressed, crowded, alarmNotifications, job, told, toggles, crashes>>

\* The condition has ended: who evaluates the rule, or sweeps for devices that are
\* back, selects the open alarm, and then resolves it, each for itself.
Open == alarm \in {"active", "acknowledged"}
Finds(j) ==
  /\ Open /\ Idle(j)
  /\ Go(j, "found")
  /\ UNCHANGED <<env, alarmNotifications, told, crashes>>
Resolves(j) ==
  /\ job[j].pc = "found"
  /\ alarm' = "resolved"
  /\ Go(j, "list")
  /\ UNCHANGED <<stale, suppressed, crowded, alarmNotifications, told, toggles, crashes>>

\* Mutant: acknowledged alarms only.
NeedsEscalationAcked == alarm = "acknowledged" /\ stale
\* escalationSweep's select: at most 100 rows, in no order.
NeedsEscalation == alarm = "active" /\ stale
StartSweep(j) ==
  /\ Idle(j) /\ NeedsEscalation
  /\ Go(j, "list")
  /\ UNCHANGED <<env, alarmNotifications, told, crashes>>

\* Mutant: the resolution goes to every channel.
RecipientsAll(j) == IF j \in Clear THEN Channel ELSE IF j = Breach THEN First ELSE Second
\* The channels: those of the kind, or for a resolution those with a sent row.
Recipients(j) ==
  IF j \in Clear THEN {c \in Channel : \E k \in Kind : alarmNotifications[c][k] = "sent"}
  ELSE IF j = Breach THEN First ELSE Second
\* suppressionFor, which spares resolutions, then the select of the channels.
List(j) ==
  /\ job[j].pc = "list"
  /\ IF (suppressed /\ j \notin Clear) \/ Recipients(j) = {}
     THEN Done(j)
     ELSE job' = [job EXCEPT ![j].pc = "next", ![j].left = Recipients(j)]
  /\ UNCHANGED <<env, alarmNotifications, told, crashes>>

\* Mutant: only a message that was sent counts as one.
DuplicateSent(j, c) == alarmNotifications[c][KindOf(j)] = "sent"
\* A row of this alarm, channel and kind.
Duplicate(j, c) == alarmNotifications[c][KindOf(j)] # "none"
NextChannel(j, c) ==
  /\ job[j].pc = "next" /\ c \in job[j].left
  /\ IF ~Duplicate(j, c)
     THEN job' = [job EXCEPT ![j].pc = "send", ![j].left = @ \ {c}, ![j].ch = c]
     ELSE Rest(j, job[j].left \ {c})
  /\ UNCHANGED <<env, alarmNotifications, told, crashes>>

\* dispatch: an error may come after the message went out.
Dispatch(j) ==
  LET c == job[j].ch  k == KindOf(j) IN
  /\ job[j].pc = "send"
  /\ \E ok, reached \in BOOLEAN :
       /\ IF ok THEN reached /\ UNCHANGED toggles ELSE Turn
       /\ job' = [job EXCEPT ![j].pc = "row", ![j].ok = ok]
       /\ told' = IF reached /\ told[c][k] < Cap THEN [told EXCEPT ![c][k] = @ + 1] ELSE told
  /\ UNCHANGED <<alarm, stale, suppressed, crowded, alarmNotifications, crashes>>

Insert(j) ==
  /\ job[j].pc = "row"
  /\ alarmNotifications' =
       [alarmNotifications EXCEPT ![job[j].ch][KindOf(j)] = IF job[j].ok THEN "sent" ELSE "failed"]
  /\ Rest(j, job[j].left)
  /\ UNCHANGED <<env, told, crashes>>

\* The process ends or a statement fails: the job ends where it was.
Crash(j) ==
  /\ crashes < MaxCrashes /\ crashes' = crashes + 1
  /\ job[j].pc # "idle" /\ Done(j)
  /\ UNCHANGED <<env, alarmNotifications, told>>

Step(j) ==
  Resolves(j) \/ List(j) \/ (\E c \in Channel : NextChannel(j, c)) \/ Dispatch(j) \/ Insert(j)

Next ==
  \/ Raise \/ Acknowledge \/ Suppress \/ Crowd \/ Ages
  \/ \E j \in Clear : Finds(j)
  \/ \E j \in Sweep : StartSweep(j)
  \/ \E j \in Job : Step(j) \/ Crash(j)

Spec == Init /\ [][Next]_vars

\* Sweeps keep starting, and take the alarm when they take all; jobs go on, time passes.
FairSpec ==
  /\ Spec
  /\ WF_vars(Ages)
  /\ \A j \in Sweep : WF_vars(~crowded /\ StartSweep(j))
  /\ \A j \in Job : WF_vars(Step(j))

---------------------------------------------------------------------------
(***************************************************************************)
(* "Anyone who was never paged is not told it is over" (notify.ts:261),      *)
(* whichever jobs ended half-way or raced.                                   *)
(***************************************************************************)
OnlyPagedAreTold ==
  \A c \in Channel :
    told[c]["resolved"] > 0 => told[c]["initial"] > 0 \/ told[c]["escalation"] > 0

(***************************************************************************)
(* No storm: however often the sweeps run over an alarm, and whoever         *)
(* resolves it, a channel hears of each turn at most once from each notifier *)
(* that was under way at once, and once more for each that ended before its  *)
(* row.                                                                      *)
(***************************************************************************)
NoStorm ==
  \A c \in Channel : \A k \in Kind : told[c][k] <= Cardinality(Teller(k)) + crashes

(***************************************************************************)
(* "two escalations to the same channel for one alarm" are skipped           *)
(* (notify.ts:300).                                                          *)
(***************************************************************************)
EscalatedOnce == crashes = 0 => \A c \in Channel : told[c]["escalation"] < 2

(***************************************************************************)
(* An alarm nobody acknowledges is escalated to every channel of the second  *)
(* line, suppressions that have ended and jobs that died notwithstanding,    *)
(* once there are no more due alarms than a sweep takes.                     *)
(***************************************************************************)
Escalates ==
  \A c \in Second :
    <>[](alarm = "active" /\ ~suppressed /\ ~crowded) => <>[](alarmNotifications[c]["escalation"] # "none")

=============================================================================
