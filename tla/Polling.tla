------------------------------ MODULE Polling ------------------------------
(***************************************************************************)
(* The Modbus TCP poller: which replica polls what (Poller, on the lease of  *)
(* LeaderLease) and how the polls of one replica share the sockets           *)
(* (PollBus).  A poll never looks at the lease and a refresh never looks at  *)
(* a socket, so a behaviour is of one of them, which `part` names, and the   *)
(* other rests.  Poller is extended: the theorems are about the definitions  *)
(* checked here.                                                             *)
(***************************************************************************)
EXTENDS Poller

CONSTANTS
  Unit, Host, MaxFaults,
  Skews        \* bound: the lay-outs of the clocks that are looked at

VARIABLES part, device, poll, conns, link, faults

B == INSTANCE PollBus WITH None <- NoOne

ASSUME PollingAssumption == B!BusAssumption

bus == <<device, poll, conns, link, faults>>
pollingVars == <<part, pollerVars, bus>>

PollingTypeOK ==
  /\ part \in {"supervisor", "bus"}
  /\ PollerTypeOK
  /\ B!TypeOK

PollingInit ==
  /\ part \in {"supervisor", "bus"}
  /\ PollerInit /\ B!Init
  \* At rest one lay-out of the units is as good as another, and so is one clock.
  /\ part # "bus" => device = CHOOSE d \in [Unit -> Host] : TRUE
  /\ skew \in IF part = "supervisor" THEN Skews ELSE {[r \in Replica |-> 0]}

PollingNext ==
  \/ part = "supervisor" /\ PollerNext /\ UNCHANGED <<part, bus>>
  \/ part = "bus" /\ B!Next /\ UNCHANGED <<part, pollerVars>>

PollingSpec == PollingInit /\ [][PollingNext]_pollingVars

bVars == B!vars

\* The supervisor, as in LeaderLease: timers fire, statements return, failures are
\* finitely many.  The bus: a poll goes on, and its unit is polled again.
PollingFairness ==
  /\ \A r \in Replica, k \in Slot :
       /\ WF_pollerVars(part = "supervisor" /\ Refresh(r, k))
       /\ WF_pollerVars(part = "supervisor" /\ HasLease(r, k))
       /\ WF_pollerVars(part = "supervisor" /\ Query(r, k))
       /\ WF_pollerVars(part = "supervisor" /\ Reconcile(r, k))
  /\ \A r \in Replica : WF_pollerVars(part = "supervisor" /\ Up(r))
  /\ WF_pollerVars(part = "supervisor" /\ Tock)
  /\ \A u \in Unit :
       /\ WF_bVars(part = "bus" /\ B!GetConn(u))
       /\ WF_bVars(part = "bus" /\ B!Take(u))
       /\ WF_bVars(part = "bus" /\ (B!ReadOk(u) \/ B!TransportFails(u)))
  /\ \A h \in Host : WF_bVars(part = "bus" /\ B!Connected(h))

PollingFairSpec == PollingSpec /\ PollingFairness

---------------------------------------------------------------------------
\* The supervisor's properties are Poller's and LeaderLease's own; these are of
\* the bus, in the words of PollBus.  `part` is rigid.

\* One poll at a time reads on a connection, none is leaked, an error of one unit
\* leaves the others theirs, and what broke is replaced.
SocketsShared ==
  /\ [](B!OneReader /\ B!NoneLeaked)
  /\ B!ErrorsStayApart
  /\ <>[](part = "bus") => B!Reconnects

=============================================================================
