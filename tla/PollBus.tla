------------------------------ MODULE PollBus ------------------------------
(***************************************************************************)
(* The polls of one replica (pollDevice, runTask and getConn of              *)
(* api/poller/service.ts).  Units behind one host:port share a socket: a     *)
(* poll gets the connection of its host, waits until nobody reads on it,     *)
(* reads, and closes the connection of its host if its error says that the   *)
(* transport failed (isTransportError of backoff.ts).  Between getting a     *)
(* connection and closing one the host of the unit may be edited and the     *)
(* connection replaced.                                                      *)
(***************************************************************************)
EXTENDS Integers, FiniteSets, Functions

CONSTANTS
  Unit,        \* poll tasks; each is rescheduled when its poll is over
  Host,        \* host:port
  None,
  MaxFaults    \* bound: network and unit failures, edits

\* Names enough for the hosts' connections and those polls hold on to.
Entry == 1..(Cardinality(Unit) + Cardinality(Host))

BusAssumption ==
  /\ Unit # {} /\ IsFiniteSet(Unit) /\ Host # {} /\ IsFiniteSet(Host)
  /\ None \notin Entry \cup Host /\ MaxFaults \in Nat

VARIABLES
  device,      \* task.device: the host of each unit
  poll,        \* where each unit's poll is, the host it asked for, the connection it got
  conns,       \* the connection of each host
  link,        \* ConnEntry: does its socket work, is it busy?
  faults

vars == <<device, poll, conns, link, faults>>

Idle == [pc |-> "idle", host |-> None, entry |-> None]
\* "broken": the peer is gone and the client has not noticed, isOpen is still true.
Link == [state : {"open", "broken", "closed"}, busy : BOOLEAN]
NoLink == [state |-> "closed", busy |-> FALSE]

TypeOK ==
  /\ device \in [Unit -> Host]
  /\ poll \in [Unit -> [pc : {"idle", "connect", "wait", "read"}, host : Host \cup {None},
                        entry : Entry \cup {None}]]
  /\ conns \in [Host -> Entry \cup {None}]
  /\ link \in [Entry -> Link]
  /\ faults \in 0..MaxFaults

---------------------------------------------------------------------------
Init ==
  /\ device \in [Unit -> Host]
  /\ poll = [u \in Unit |-> Idle]
  /\ conns = [h \in Host |-> None]
  /\ link = [e \in Entry |-> NoLink]
  /\ faults = 0

Fault == faults < MaxFaults /\ faults' = faults + 1

IsOpen(e) == e # None /\ link[e].state # "closed"

\* The timer fires.  getConn: the connection there is, or an attempt - the one
\* under way (pendingConns) or a new one.
GetConn(u) ==
  LET h == device[u] IN
  /\ poll[u].pc = "idle"
  /\ poll' = [poll EXCEPT ![u] =
       IF IsOpen(conns[h]) THEN [pc |-> "wait", host |-> h, entry |-> conns[h]]
       ELSE [pc |-> "connect", host |-> h, entry |-> None]]
  /\ UNCHANGED <<device, conns, link, faults>>

\* Mutant: everybody who waits makes an attempt of its own.
AwaitingAlone(h) ==
  {u \in Unit : /\ poll[u].pc = "connect" /\ poll[u].host = h
                /\ u = CHOOSE v \in Unit : poll[v].pc = "connect" /\ poll[v].host = h}
\* pendingConns: who waits for the attempt at h.
Awaiting(h) == {u \in Unit : poll[u].pc = "connect" /\ poll[u].host = h}

Unused == Entry \ (Range(conns) \cup {poll[u].entry : u \in Unit})

\* connectTCP resolves.
Connected(h) ==
  LET e == CHOOSE e \in Unused : TRUE IN
  /\ Awaiting(h) # {}
  /\ conns' = [conns EXCEPT ![h] = e]
  /\ link' = [link EXCEPT ![e] = [state |-> "open", busy |-> FALSE]]
  /\ poll' = [u \in Unit |->
       IF u \in Awaiting(h) THEN [pc |-> "wait", host |-> h, entry |-> e] ELSE poll[u]]
  /\ UNCHANGED <<device, faults>>

\* dropConn for some hosts; `free` is the connection somebody stops reading on.
Drops(hosts, free) ==
  /\ conns' = [h \in Host |-> IF h \in hosts THEN None ELSE conns[h]]
  /\ link' = [e \in Entry |->
       [state |-> IF \E h \in hosts : conns[h] = e THEN "closed" ELSE link[e].state,
        busy |-> link[e].busy /\ e # free]]

(***************************************************************************)
(* connectTCP rejects; runTask looks at the error of each who waited, and at *)
(* the host its unit has by now.  A time-out of the client has no code and   *)
(* is none of the transport's.                                               *)
(***************************************************************************)
Refused(h) ==
  /\ Fault
  /\ Awaiting(h) # {}
  /\ \E transport \in BOOLEAN :
       Drops(IF transport THEN {device[u] : u \in Awaiting(h)} ELSE {}, None)
  /\ poll' = [u \in Unit |-> IF u \in Awaiting(h) THEN Idle ELSE poll[u]]
  /\ UNCHANGED device

\* Mutant: the slot is not waited for.
FreeAlways(e) == TRUE
Free(e) == ~link[e].busy

\* The loop that waits for the slot ends, and the slot is taken.
Take(u) ==
  /\ poll[u].pc = "wait" /\ Free(poll[u].entry)
  /\ link' = [link EXCEPT ![poll[u].entry].busy = TRUE]
  /\ poll' = [poll EXCEPT ![u].pc = "read"]
  /\ UNCHANGED <<device, conns, faults>>

\* "socket busy >15s"
GiveUp(u) ==
  /\ poll[u].pc = "wait" /\ link[poll[u].entry].busy
  /\ poll' = [poll EXCEPT ![u] = Idle]
  /\ UNCHANGED <<device, conns, link, faults>>

\* Mutant: any failure takes the connection along.
DropsOnDeviceErrorToo(u) == Drops({device[u]}, poll[u].entry)
\* An error of the unit leaves the connection alone.
DropsOnDeviceError(u) == Drops({}, poll[u].entry)
\* Mutant: the connection stays, for the next poll to fail on.
DropsOnNothing(u) == Drops({}, poll[u].entry)
\* One of the transport takes the connection of the unit's host along.
DropsOnTransportError(u) == Drops({device[u]}, poll[u].entry)

\* All blocks are read and stored.
ReadOk(u) ==
  /\ poll[u].pc = "read" /\ link[poll[u].entry].state = "open"
  /\ Drops({}, poll[u].entry)
  /\ poll' = [poll EXCEPT ![u] = Idle]
  /\ UNCHANGED <<device, faults>>

\* An exception of the unit, a read that times out, rows that cannot be stored; a
\* read that was out when its socket was closed times out as well.
DeviceFails(u) ==
  /\ poll[u].pc = "read"
  /\ IF link[poll[u].entry].state = "closed" THEN UNCHANGED faults ELSE Fault
  /\ DropsOnDeviceError(u)
  /\ poll' = [poll EXCEPT ![u] = Idle]
  /\ UNCHANGED device

\* "Port Not Open", ECONNRESET: runTask closes what is the connection of the host
\* the unit has by now.
TransportFails(u) ==
  /\ poll[u].pc = "read" /\ link[poll[u].entry].state # "open"
  /\ DropsOnTransportError(u)
  /\ poll' = [poll EXCEPT ![u] = Idle]
  /\ UNCHANGED <<device, faults>>

\* The peer goes away; the client learns of it at once or with the next read.
Breaks(e) ==
  /\ Fault
  /\ link[e].state = "open"
  /\ \E state \in {"broken", "closed"} : link' = [link EXCEPT ![e].state = state]
  /\ UNCHANGED <<device, poll, conns>>

\* refreshDevices: existing.device = dev, also in the middle of a poll.
Move(u) ==
  /\ Fault
  /\ \E h \in Host : device' = [device EXCEPT ![u] = h]
  /\ UNCHANGED <<poll, conns, link>>

Next ==
  \/ \E u \in Unit :
       \/ GetConn(u)
       \/ Take(u)
       \/ GiveUp(u)
       \/ ReadOk(u)
       \/ DeviceFails(u)
       \/ TransportFails(u)
       \/ Move(u)
  \/ \E h \in Host : Connected(h) \/ Refused(h)
  \/ \E e \in Entry : Breaks(e)

Spec == Init /\ [][Next]_vars

---------------------------------------------------------------------------
Reading(e) == {u \in Unit : poll[u].pc = "read" /\ poll[u].entry = e}

(***************************************************************************)
(* "Serialize access per socket" (service.ts:117): one poll at a time reads  *)
(* on a connection, whose address frames would be answered to another; and a *)
(* slot that is taken has somebody reading, so nobody waits for nothing.     *)
(***************************************************************************)
OneReader ==
  \A e \in Entry : Cardinality(Reading(e)) = (IF link[e].busy THEN 1 ELSE 0)

(***************************************************************************)
(* "not each open their own socket (v4 finding #11: the losing socket        *)
(* leaked)" (service.ts:63-64): what is open is some host's connection.      *)
(***************************************************************************)
NoneLeaked == \A e \in Entry : IsOpen(e) => e \in Range(conns)

Works(e) == link[e].state = "open"

(***************************************************************************)
(* "must not disconnect the other units sharing host:port" (service.ts:172): *)
(* a poll that fails on a connection that works closes none.                 *)
(***************************************************************************)
ErrorsStayApart ==
  [][\A u \in Unit :
       poll[u].pc = "read" /\ poll'[u] = Idle /\ Works(poll[u].entry)
         => \A e \in Entry : Works(e) => Works(e)']_vars

\* A poll that failed on an older connection of the host, or for the host its
\* unit had before, closes one that works.
ClosesAnother == \E e \in Entry : Works(e) /\ link'[e].state = "closed" /\ faults' = faults

(***************************************************************************)
(* Whatever broke is replaced: once the network and the units behave and     *)
(* polls no longer close each other's connections, polls succeed again and   *)
(* again.  Nothing in the code ends the latter but the length of the         *)
(* backoffs.                                                                 *)
(***************************************************************************)
Reconnects == <>[][~ClosesAnother]_vars => []<><<\E u \in Unit : ReadOk(u)>>_vars

=============================================================================
