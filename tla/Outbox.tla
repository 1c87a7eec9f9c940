------------------------------- MODULE Outbox -------------------------------
(***************************************************************************)
(* What the webhook queue promises of an event: it is queued once, closed in *)
(* the end, as delivered only if the receiver took it, and never queued      *)
(* again.  The receiver may be handed an event several times, also after it  *)
(* was closed, and two attempts at once may close it each in its own way.    *)
(***************************************************************************)
CONSTANT Event

VARIABLES
  state,      \* of each event
  received    \* events the receiver took

outbox == <<state, received>>

Closed == {"delivered", "dead"}

Init ==
  /\ state = [e \in Event |-> "none"]
  /\ received = {}

Put(e) ==
  /\ state[e] = "none"
  /\ state' = [state EXCEPT ![e] = "queued"]
  /\ UNCHANGED received

Receive(e) ==
  /\ state[e] # "none"
  /\ received' = received \cup {e}
  /\ UNCHANGED state

\* One attempt closes one event, the end of a subscription several.
Close(E, how) ==
  /\ \A e \in E : state[e] # "none" /\ (how = "delivered" => e \in received)
  /\ state' = [e \in Event |-> IF e \in E THEN how ELSE state[e]]
  /\ UNCHANGED received

Next ==
  \/ \E e \in Event : Put(e) \/ Receive(e)
  \/ \E E \in SUBSET Event, how \in Closed : Close(E, how)

Spec == Init /\ [][Next]_outbox

Closes(e) ==
  state[e] = "queued" /\ \E E \in SUBSET Event, how \in Closed : e \in E /\ Close(E, how)

FairSpec == Spec /\ \A e \in Event : WF_outbox(Closes(e))

=============================================================================
