------------------------------ MODULE Webhooks ------------------------------
(***************************************************************************)
(* The outbound webhook queue (api/webhooks/dispatch.ts, retry.ts) for one   *)
(* subscription.  emit() writes rows; sweeps send them.  The interval has no *)
(* guard against itself: a sweep that waits for slow receivers and the next  *)
(* ones work on the same rows, each from the snapshot it took.               *)
(***************************************************************************)
EXTENDS Naturals

CONSTANTS
  Delivery,       \* rows that can be queued
  Dispatch,       \* sweeps that can overlap
  MAX_ATTEMPTS,
  None,
  MaxToggles,     \* bound: times the subscription is switched
  MaxCrashes      \* bound: process ends

WebhookAssumption == MAX_ATTEMPTS \in Nat \ {0} /\ MaxToggles \in Nat /\ MaxCrashes \in Nat

VARIABLES
  wanted,    \* is the subscription enabled?
  queue,     \* webhook_deliveries: status, attempts, is nextAttemptAt past?
  failing,   \* consecutiveFailures > 0
  sweep,     \* per sweep: the rows of its snapshot still to do, the one being sent
  taken,     \* history: rows the receiver answered 2xx
  refused,   \* history: rows answered with a permanent 4xx
  sends,     \* history: requests made of each row, capped at MAX_ATTEMPTS
  toggles, crashes

vars == <<wanted, queue, failing, sweep, taken, refused, sends, toggles, crashes>>

Row == [status : {"unused", "pending", "delivered", "dead"}, attempts : 0..MAX_ATTEMPTS,
        due : BOOLEAN]
Asleep == [todo |-> [d \in {} |-> 0], enabled |-> TRUE, at |-> None, answer |-> None]

TypeOK ==
  /\ wanted \in BOOLEAN /\ failing \in BOOLEAN
  /\ queue \in [Delivery -> Row]
  /\ \A s \in Dispatch :
       /\ DOMAIN sweep[s].todo \subseteq Delivery
       /\ \A d \in DOMAIN sweep[s].todo : sweep[s].todo[d] \in 0..(MAX_ATTEMPTS - 1)
       /\ sweep[s].at \in DOMAIN sweep[s].todo \cup {None}
       /\ sweep[s].answer \in {"2xx", "4xx", "later", None}
  /\ taken \subseteq Delivery /\ refused \subseteq Delivery
  /\ sends \in [Delivery -> 0..MAX_ATTEMPTS]
  /\ toggles \in 0..MaxToggles /\ crashes \in 0..MaxCrashes

---------------------------------------------------------------------------
Init ==
  /\ wanted = TRUE /\ failing = FALSE
  /\ queue = [d \in Delivery |-> [status |-> "unused", attempts |-> 0, due |-> FALSE]]
  /\ sweep = [s \in Dispatch |-> Asleep]
  /\ taken = {} /\ refused = {}
  /\ sends = [d \in Delivery |-> 0]
  /\ toggles = 0 /\ crashes = 0

history == <<taken, refused, sends>>

\* emit(): a row, due at once, if the subscription is enabled.
Emit(d) ==
  /\ queue[d].status = "unused" /\ wanted
  /\ queue' = [queue EXCEPT ![d] = [status |-> "pending", attempts |-> 0, due |-> TRUE]]
  /\ UNCHANGED <<wanted, failing, sweep, history, toggles, crashes>>

\* nextAttemptAt passes.
Due(d) ==
  /\ queue[d].status = "pending" /\ ~queue[d].due
  /\ queue' = [queue EXCEPT ![d].due = TRUE]
  /\ UNCHANGED <<wanted, failing, sweep, history, toggles, crashes>>

DueRows == {d \in Delivery : queue[d].status = "pending" /\ queue[d].due}
Awake(s) == DOMAIN sweep[s].todo # {}

\* webhookSweep: the snapshot of the due rows and of the subscription.
Select(s) ==
  /\ ~Awake(s) /\ DueRows # {}
  /\ sweep' = [sweep EXCEPT ![s] =
       [Asleep EXCEPT !.todo = [d \in DueRows |-> queue[d].attempts], !.enabled = wanted]]
  /\ UNCHANGED <<wanted, queue, failing, history, toggles, crashes>>

\* Mutant: the backlog of a disabled subscription is left alone.
CloseDisabledHolds(s) ==
  /\ Awake(s) /\ ~sweep[s].enabled
  /\ sweep' = [sweep EXCEPT ![s] = Asleep]
  /\ UNCHANGED <<wanted, queue, failing, history, toggles, crashes>>
\* A disabled subscription's backlog is closed.
CloseDisabled(s) ==
  /\ Awake(s) /\ ~sweep[s].enabled
  /\ queue' = [d \in Delivery |->
       IF d \in DOMAIN sweep[s].todo THEN [queue[d] EXCEPT !.status = "dead"] ELSE queue[d]]
  /\ sweep' = [sweep EXCEPT ![s] = Asleep]
  /\ UNCHANGED <<wanted, failing, history, toggles, crashes>>

Capped(n) == IF n > MAX_ATTEMPTS THEN MAX_ATTEMPTS ELSE n

\* attempt(): "later" is a network error, a timeout, a 5xx, 408 or 429; the
\* receiver may have taken the request all the same.
Send(s, d) ==
  /\ sweep[s].enabled /\ sweep[s].at = None /\ d \in DOMAIN sweep[s].todo
  /\ sends' = [sends EXCEPT ![d] = Capped(@ + 1)]
  /\ \E answer \in {"2xx", "4xx", "later"}, takes \in BOOLEAN :
       /\ answer = "2xx" => takes
       /\ answer = "4xx" => ~takes
       /\ sweep' = [sweep EXCEPT ![s].at = d, ![s].answer = answer]
       /\ taken' = IF takes THEN taken \cup {d} ELSE taken
       /\ refused' = IF answer = "4xx" THEN refused \cup {d} ELSE refused
  /\ UNCHANGED <<wanted, queue, failing, toggles, crashes>>

\* Mutant: a refusal counts as a delivery.
ClassifyAnswered(answer, number) ==
  CASE answer \in {"2xx", "4xx"} -> "delivered"
    [] answer = "later" /\ number >= MAX_ATTEMPTS -> "dead"
    [] OTHER -> "retry"
\* classify.
Classify(answer, number) ==
  CASE answer = "2xx" -> "delivered"
    [] answer = "4xx" \/ (answer = "later" /\ number >= MAX_ATTEMPTS) -> "dead"
    [] OTHER -> "retry"

\* The update of the row: by id alone; a retry leaves the status as it is.
Recorded(row, outcome, number) ==
  [status |-> IF outcome = "retry" THEN row.status ELSE outcome, attempts |-> number,
   due |-> row.due /\ outcome # "retry"]

\* The outcome is recorded, on the row and on the subscription.
Record(s) ==
  LET d == sweep[s].at
      number == sweep[s].todo[d] + 1
      outcome == Classify(sweep[s].answer, number)
      rest == [e \in DOMAIN sweep[s].todo \ {d} |-> sweep[s].todo[e]]
  IN /\ d # None
     /\ queue' = [queue EXCEPT ![d] = Recorded(@, outcome, number)]
     /\ failing' = (outcome # "delivered")
     /\ sweep' = [sweep EXCEPT ![s] =
          IF DOMAIN sweep[s].todo = {d} THEN Asleep
          ELSE [sweep[s] EXCEPT !.at = None, !.answer = None, !.todo = rest]]
     /\ UNCHANGED <<wanted, history, toggles, crashes>>

\* An operator switches the subscription.
Toggle ==
  /\ toggles < MaxToggles /\ toggles' = toggles + 1
  /\ wanted' = ~wanted
  /\ UNCHANGED <<queue, failing, sweep, history, crashes>>

\* The process ends: whatever its sweeps had sent and not yet recorded is sent again.
Crash ==
  /\ crashes < MaxCrashes /\ crashes' = crashes + 1
  /\ sweep' = [s \in Dispatch |-> Asleep]
  /\ UNCHANGED <<wanted, queue, failing, history, toggles>>

Work(s) ==
  \/ Select(s) \/ CloseDisabled(s)
  \/ \E d \in Delivery : Send(s, d)
  \/ Record(s)

Next ==
  \/ \E d \in Delivery : Emit(d) \/ Due(d)
  \/ \E s \in Dispatch : Work(s)
  \/ Toggle \/ Crash

Spec == Init /\ [][Next]_vars

\* The interval keeps firing, sweeps go on, backoffs run out.
Fairness ==
  /\ WF_vars(\E s \in Dispatch : Select(s))
  /\ \A s \in Dispatch : WF_vars(Work(s) /\ Awake(s))
  /\ \A d \in Delivery : WF_vars(Due(d))

FairSpec == Spec /\ Fairness

---------------------------------------------------------------------------
(***************************************************************************)
(* A row is closed for a reason its receiver or its owner gave: delivered    *)
(* means the receiver took the event, dead means it refused it, the          *)
(* subscription was switched, or MAX_ATTEMPTS requests were made - whatever  *)
(* overlapping sweeps recorded in which order.                               *)
(***************************************************************************)
ClosedHonest ==
  \A d \in Delivery :
    /\ queue[d].status = "delivered" => d \in taken
    /\ queue[d].status = "dead" => d \in refused \/ toggles > 0 \/ sends[d] = MAX_ATTEMPTS

(***************************************************************************)
(* The queue implements Outbox: no late result of another sweep's attempt    *)
(* queues a closed event again, delivered means received, and every event    *)
(* is closed in the end: attempts are bounded although overlapping sweeps    *)
(* write each other's counts back, the backlog of a disabled subscription is *)
(* closed, and a process end loses no row.                                   *)
(***************************************************************************)
OutboxState ==
  [d \in Delivery |->
     CASE queue[d].status = "unused"  -> "none"
       [] queue[d].status = "pending" -> "queued"
       [] OTHER                       -> queue[d].status]
Promise == INSTANCE Outbox WITH Event <- Delivery, state <- OutboxState, received <- taken
ImplementsOutbox == Promise!FairSpec

=============================================================================
