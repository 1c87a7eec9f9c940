----------------------------- MODULE Provision -----------------------------
(***************************************************************************)
(* One gateway UID and one device address, from the first message to the     *)
(* removal of the gateway and back: ensureGateway and findGatewayByUid of    *)
(* api/mqtt/service.ts, ensureMeter of api/mqtt/handlers.ts, gateways.remove *)
(* of api/routers/gateways.ts.  Each replica caches the rows it used; no     *)
(* foreign key relates them.                                                 *)
(***************************************************************************)
EXTENDS Naturals

CONSTANTS
  Ingest,       \* replicas that ingest; one message at a time each
  Home,         \* the replica that serves the removals
  None,
  MaxRemovals,  \* bound
  MaxFaults     \* bound: failed statements and process ends

ProvisionAssumption ==
  /\ Home \in Ingest /\ None \notin Nat
  /\ MaxRemovals \in Nat /\ MaxFaults \in Nat

\* Gateway ids are taken in order; a device row is named by its gateway's id
\* and its number among the rows ever made for that gateway.
GatewayId == 1..(MaxRemovals + 1)
MeterNo == 1..(MaxRemovals + 1)

VARIABLES
  gateway,      \* the gateways row: its id
  meter,        \* per gateway id: the number of the meters row, live or orphaned
  made,         \* rows ever made: gateways, and meters per gateway id
  gwCache,      \* per replica: the gateway id it has cached
  meterCache,   \* per replica and gateway id: the device row it has cached
  message,      \* per replica: the message under way
  removal,      \* gateways.remove under way
  removals, faults

vars == <<gateway, meter, made, gwCache, meterCache, message, removal, removals, faults>>

Idle == [pc |-> "idle", gw |-> None, no |-> None]
NoEntries == [g \in GatewayId |-> None]

\* Rows of meters: at most one per gateway and address (unique key).
MeterRow == [GatewayId -> MeterNo \cup {None}]

TypeOK ==
  /\ gateway \in GatewayId \cup {None}
  /\ meter \in MeterRow
  /\ made.gateways \in 0..(MaxRemovals + 1) /\ made.meters \in [GatewayId -> 0..(MaxRemovals + 1)]
  /\ gwCache \in [Ingest -> GatewayId \cup {None}]
  /\ meterCache \in [Ingest -> MeterRow]
  /\ message \in [Ingest -> [pc : {"idle", "gwAsk", "gwGot", "gwNew", "mAsk", "mGot", "mNew", "write"},
                             gw : GatewayId \cup {None}, no : MeterNo \cup {None}]]
  /\ removal \in [pc : {"idle", "meters", "gateway", "evict"},
                  gw : GatewayId \cup {None}, no : MeterNo \cup {None}]
  /\ removals \in 0..MaxRemovals /\ faults \in 0..MaxFaults

---------------------------------------------------------------------------
Init ==
  /\ gateway = None /\ meter = NoEntries
  /\ made = [gateways |-> 0, meters |-> [g \in GatewayId |-> 0]]
  /\ gwCache = [r \in Ingest |-> None] /\ meterCache = [r \in Ingest |-> NoEntries]
  /\ message = [r \in Ingest |-> Idle]
  /\ removal = Idle
  /\ removals = 0 /\ faults = 0

Goes(r, pc, gw, no) == message' = [message EXCEPT ![r] = [pc |-> pc, gw |-> gw, no |-> no]]
caches == <<gwCache, meterCache>>
tables == <<gateway, meter, made>>

\* With the gateway known: the cached device row, or a look-up.
WithGateway(r, g) ==
  IF meterCache[r][g] # None THEN Goes(r, "write", g, meterCache[r][g]) ELSE Goes(r, "mAsk", g, None)

Arrive(r) ==
  /\ message[r].pc = "idle"
  /\ IF gwCache[r] # None THEN WithGateway(r, gwCache[r]) ELSE Goes(r, "gwAsk", None, None)
  /\ UNCHANGED <<tables, caches, removal, removals, faults>>

\* The select, and what follows it: the cache is set after the await.
AskGateway(r) ==
  /\ message[r].pc = "gwAsk"
  /\ Goes(r, IF gateway = None THEN "gwNew" ELSE "gwGot", gateway, None)
  /\ UNCHANGED <<tables, caches, removal, removals, faults>>
GotGateway(r) ==
  /\ message[r].pc = "gwGot"
  /\ gwCache' = [gwCache EXCEPT ![r] = message[r].gw]
  /\ WithGateway(r, message[r].gw)
  /\ UNCHANGED <<tables, meterCache, removal, removals, faults>>

\* Mutant: the loser of a race makes a row of its own.
TakenGatewayNot == FALSE
\* The unique UID: another message's insert won, its row is read.
TakenGateway == gateway # None
NewGateway(r) ==
  /\ message[r].pc = "gwNew"
  /\ IF TakenGateway
     THEN Goes(r, "gwGot", gateway, None) /\ UNCHANGED tables
     ELSE /\ made.gateways < MaxRemovals + 1
          /\ made' = [made EXCEPT !.gateways = @ + 1]
          /\ gateway' = made.gateways + 1
          /\ Goes(r, "gwGot", made.gateways + 1, None)
          /\ UNCHANGED meter
  /\ UNCHANGED <<caches, removal, removals, faults>>

AskMeter(r) ==
  LET g == message[r].gw IN
  /\ message[r].pc = "mAsk"
  /\ Goes(r, IF meter[g] = None THEN "mNew" ELSE "mGot", g, meter[g])
  /\ UNCHANGED <<tables, caches, removal, removals, faults>>
GotMeter(r) ==
  LET g == message[r].gw IN
  /\ message[r].pc = "mGot"
  /\ meterCache' = [meterCache EXCEPT ![r][g] = message[r].no]
  /\ Goes(r, "write", g, message[r].no)
  /\ UNCHANGED <<tables, gwCache, removal, removals, faults>>
\* A device row is made for the gateway id at hand, whether its row is still there.
NewMeter(r) ==
  LET g == message[r].gw  no == made.meters[g] + 1 IN
  /\ message[r].pc = "mNew"
  /\ IF meter[g] # None
     THEN Goes(r, "mGot", g, meter[g]) /\ UNCHANGED <<meter, made>>
     ELSE /\ no \in MeterNo
          /\ meter' = [meter EXCEPT ![g] = no] /\ made' = [made EXCEPT !.meters[g] = no]
          /\ Goes(r, "mGot", g, no)
  /\ UNCHANGED <<gateway, caches, removal, removals, faults>>

\* The writer's batch, some time later.
Write(r) ==
  /\ message[r].pc = "write"
  /\ Goes(r, "idle", None, None)
  /\ UNCHANGED <<tables, caches, removal, removals, faults>>

\* gateways.remove: the rows are read and their telemetry deleted, then the
\* devices found, the gateway, the caches.
Remove ==
  /\ removals < MaxRemovals /\ removals' = removals + 1
  /\ removal.pc = "idle" /\ gateway # None
  /\ removal' = [pc |-> "meters", gw |-> gateway, no |-> meter[gateway]]
  /\ UNCHANGED <<tables, caches, message, faults>>
RemoveMeters ==
  /\ removal.pc = "meters"
  /\ meter' = [meter EXCEPT ![removal.gw] = IF @ = removal.no THEN None ELSE @]
  /\ removal' = [removal EXCEPT !.pc = "gateway"]
  /\ UNCHANGED <<gateway, made, caches, message, removals, faults>>
RemoveGateway ==
  /\ removal.pc = "gateway"
  /\ gateway' = IF gateway = removal.gw THEN None ELSE gateway
  /\ removal' = [removal EXCEPT !.pc = "evict"]
  /\ UNCHANGED <<meter, made, caches, message, removals, faults>>
\* evictGatewayCache and clearMeterCache, in the process that served the removal.
Evicted(r) == r = Home
Evict ==
  /\ removal.pc = "evict"
  /\ gwCache' = [r \in Ingest |-> IF Evicted(r) THEN None ELSE gwCache[r]]
  /\ meterCache' = [r \in Ingest |-> IF Evicted(r) THEN NoEntries ELSE meterCache[r]]
  /\ removal' = Idle
  /\ UNCHANGED <<tables, message, removals, faults>>

\* Mutant: a gateway is looked up once and for all.
OutlivesForever(r) == FALSE
\* An entry reaches its TTL.
Outlives(r) == gwCache[r] # None
ExpireGateway(r) ==
  /\ Outlives(r)
  /\ gwCache' = [gwCache EXCEPT ![r] = None]
  /\ UNCHANGED <<tables, meterCache, message, removal, removals, faults>>
ExpireMeter(r, g) ==
  /\ meterCache[r][g] # None
  /\ meterCache' = [meterCache EXCEPT ![r][g] = None]
  /\ UNCHANGED <<tables, gwCache, message, removal, removals, faults>>

\* A statement of a message fails: that message is lost.  A process ends.
Fails(r) ==
  /\ faults < MaxFaults /\ faults' = faults + 1
  /\ message[r].pc # "idle" /\ Goes(r, "idle", None, None)
  /\ UNCHANGED <<tables, caches, removal, removals>>
Crash(r) ==
  /\ faults < MaxFaults /\ faults' = faults + 1
  /\ Goes(r, "idle", None, None)
  /\ gwCache' = [gwCache EXCEPT ![r] = None] /\ meterCache' = [meterCache EXCEPT ![r] = NoEntries]
  /\ removal' = IF r = Home THEN Idle ELSE removal
  /\ UNCHANGED <<tables, removals>>

Handle(r) ==
  \/ AskGateway(r) \/ GotGateway(r) \/ NewGateway(r)
  \/ AskMeter(r) \/ GotMeter(r) \/ NewMeter(r)
  \/ Write(r)
Removing == RemoveMeters \/ RemoveGateway \/ Evict

Next ==
  \/ \E r \in Ingest : Arrive(r) \/ Handle(r) \/ ExpireGateway(r) \/ Fails(r) \/ Crash(r)
  \/ \E r \in Ingest, g \in GatewayId : ExpireMeter(r, g)
  \/ Remove \/ Removing

Spec == Init /\ [][Next]_vars

\* Messages keep coming to each replica, statements return, entries reach their TTL.
FairSpec ==
  /\ Spec
  /\ WF_vars(Removing)
  /\ \A r \in Ingest :
       /\ WF_vars(Arrive(r)) /\ WF_vars(Handle(r)) /\ WF_vars(ExpireGateway(r))
       /\ \A g \in GatewayId : WF_vars(ExpireMeter(r, g))

---------------------------------------------------------------------------
Live(g, no) == g = gateway /\ no = meter[g]

(***************************************************************************)
(* Racing first messages make one gateway, and one device row each: there    *)
(* are never more gateways than removals account for, and two rows for one   *)
(* gateway id only if it was being removed.                                  *)
(***************************************************************************)
ProvisionedOnce ==
  /\ made.gateways <= removals + 1
  /\ removals = 0 => \A g \in GatewayId : made.meters[g] < 2

(***************************************************************************)
(* "Entries EXPIRE so that rows deleted ... are eventually re-read"          *)
(* (handlers.ts:64): after the last removal every replica ends up writing    *)
(* under the live device row and no other, although a look-up that was under *)
(* way put an evicted entry back, and other replicas never evicted theirs.   *)
(***************************************************************************)
GhostsEnd ==
  \A r \in Ingest :
    <>[](message[r].pc = "write" => Live(message[r].gw, message[r].no))

(***************************************************************************)
(* Whatever was removed, data goes on being stored under a live row.         *)
(***************************************************************************)
Arrives == []<>(\E r \in Ingest : message[r].pc = "write" /\ Live(message[r].gw, message[r].no))

(***************************************************************************)
(* "so the ingestion path can't resurrect removed rows from cache"           *)
(* (handlers.ts:72): once evicted, the replica that served the removal has   *)
(* no entry of a removed gateway.                                            *)
(***************************************************************************)
NotResurrected ==
  removal.pc = "idle" /\ faults = 0 /\ removals > 0 => gwCache[Home] \in {gateway, None}

=============================================================================
