------------------------------ MODULE OrgPurge ------------------------------
(***************************************************************************)
(* The deletion of an organisation (api/orgs/purge.ts, purge-users.ts)       *)
(* beside the requests that invite people and change accounts (invite,       *)
(* acceptInvite, switchOrg, removeMember of api/routers/orgs.ts) and the     *)
(* messages of its gateway.  The purge is a sequence of statements without a *)
(* transaction, started over by the next sweep if it ended half-way.  The    *)
(* lease lets its holder's own sweeps through, so one that takes longer than *)
(* the interval has the next beside it.  Here is one device address, one     *)
(* account, one request at a time.                                           *)
(***************************************************************************)
EXTENDS Naturals

CONSTANTS
  Sweep,        \* purges that can be under way at once
  Doomed,       \* the organisation that is deleted
  Other,        \* one that stays
  None,
  MaxRequests,  \* bound: requests that change the account, and messages
  MaxCrashes    \* bound: process ends and failed statements

PurgeAssumption ==
  /\ Doomed # Other /\ None \notin {Doomed, Other}
  /\ MaxRequests \in Nat /\ MaxCrashes \in Nat

Org == {Doomed, Other}

VARIABLES
  org,          \* the row of Doomed: "live", "scheduled", "gone"
  telemetry,    \* data under the id of its device's row, and of rows that are gone
  meter,        \* is there a device row of it?
  invite,       \* per organisation: is there a usable invite for the account?
  user,         \* the users row: is it there, orgId, disabled, superadmin
  member,       \* its org_memberships
  request,      \* the request under way
  purge,        \* per sweep: where it is, and what it planned for the account
  heard,        \* history: "begun" once a purge has, "late" when a message came after
  touched,      \* history: what requests changed since the plans in force were made
  requests, crashes

vars == <<org, telemetry, meter, invite, user, member, request, purge, heard,
          touched, requests, crashes>>

NoRequest == [op |-> "none", org |-> None, left |-> None]
NoPurge == [pc |-> "idle", plan |-> "keep", to |-> None]

\* Rows of orgs, users, org_memberships and org_invites.
OrgStatus == {"live", "scheduled", "gone"}
User == [there : BOOLEAN, orgId : Org \cup {None}, disabled : BOOLEAN, super : BOOLEAN]
Membership == SUBSET Org
OpenInvite == [Org -> BOOLEAN]
Changes == SUBSET {"account", "invite"}

TypeOK ==
  /\ org \in OrgStatus
  /\ telemetry \in SUBSET {"row", "lost"} /\ meter \in BOOLEAN
  /\ invite \in OpenInvite
  /\ user \in User
  /\ member \in Membership
  /\ request \in [op : {"none", "invite", "accept", "join", "switch", "remove", "removed"},
                  org : Org \cup {None}, left : Org \cup {None}]
  /\ purge \in [Sweep -> [pc : {"idle", "plan", "move", "invites", "members", "meters",
                               "users", "org"},
                          plan : {"keep", "move", "detach", "remove"}, to : Org \cup {None}]]
  /\ heard \in {"no", "begun", "late"} /\ touched \in Changes
  /\ requests \in 0..MaxRequests /\ crashes \in 0..MaxCrashes

---------------------------------------------------------------------------
Init ==
  /\ org = "live" /\ telemetry = {"row"} /\ meter = TRUE
  /\ invite = [o \in Org |-> TRUE]
  /\ user \in [there : {TRUE}, orgId : Org, disabled : {FALSE}, super : BOOLEAN]
  /\ member \in {{}, {user.orgId}, Org}
  /\ request = NoRequest /\ purge = [p \in Sweep |-> NoPurge]
  /\ heard = "no" /\ touched = {}
  /\ requests = 0 /\ crashes = 0

tenant == <<org, telemetry, meter, heard>>
account == <<user, member>>
counts == <<requests, crashes>>

\* A message is written: under the id of the device's row, which is made again with the
\* organisation of the gateway in hand, or under one a cache still has.
Ingest ==
  /\ requests < MaxRequests /\ requests' = requests + 1
  /\ \/ telemetry' = telemetry \cup {"row"} /\ meter' = TRUE
     \/ ~meter /\ telemetry' = telemetry \cup {"lost"} /\ UNCHANGED meter
  /\ heard' = IF heard = "no" THEN "no" ELSE "late"
  /\ UNCHANGED <<org, invite, account, request, purge, touched, crashes>>

Schedule ==
  /\ org = "live" /\ org' = "scheduled"
  /\ UNCHANGED <<telemetry, meter, heard, invite, account, request, purge, touched, counts>>
\* cancelDeletion, also after the purge began.
Cancel ==
  /\ requests < MaxRequests /\ requests' = requests + 1
  /\ org = "scheduled" /\ org' = "live"
  /\ UNCHANGED <<telemetry, meter, heard, invite, account, request, purge, touched, crashes>>

---------------------------------------------------------------------------
\* Requests: what each reads, then what it writes.  An invite goes to somebody who is
\* not a member; nobody looks whether the organisation is going or gone.
Begin(op, o) ==
  /\ requests < MaxRequests /\ requests' = requests + 1
  /\ request = NoRequest
  /\ \/ op = "invite" /\ ~(user.there /\ o \in member)
     \/ op = "accept" /\ invite[o]
     \/ op = "switch" /\ user.there /\ (o \in member \/ user.super) /\ o # user.orgId
     \/ op = "remove" /\ user.there /\ o \in member
  /\ request' = [NoRequest EXCEPT !.op = op, !.org = o]
  /\ UNCHANGED <<tenant, invite, account, purge, touched, crashes>>

Changed(what) == touched' = touched \cup {what}
Answered == request' = NoRequest

\* invite.
Invite ==
  /\ request.op = "invite"
  /\ invite' = [invite EXCEPT ![request.org] = TRUE]
  /\ Answered /\ Changed("invite")
  /\ UNCHANGED <<tenant, account, purge, counts>>
\* acceptInvite: a new account for whom there is none, then the membership.
Accept ==
  /\ request.op = "accept"
  /\ user' = IF user.there THEN user
             ELSE [there |-> TRUE, orgId |-> request.org, disabled |-> FALSE, super |-> FALSE]
  /\ request' = [request EXCEPT !.op = "join"] /\ Changed("account")
  /\ UNCHANGED <<tenant, invite, member, purge, counts>>
Join ==
  /\ request.op = "join"
  /\ member' = member \cup {request.org}
  /\ invite' = [invite EXCEPT ![request.org] = FALSE]
  /\ Answered /\ Changed("account")
  /\ UNCHANGED <<tenant, user, purge, counts>>
\* switchOrg.
Switch ==
  /\ request.op = "switch"
  /\ user' = IF user.there THEN [user EXCEPT !.orgId = request.org] ELSE user
  /\ Answered /\ Changed("account")
  /\ UNCHANGED <<tenant, invite, member, purge, counts>>
\* removeMember: the membership goes, then who acted under it moves or is disabled.
RemoveMember ==
  /\ request.op = "remove"
  /\ member' = member \ {request.org}
  /\ \E o \in Org \cup {None} :
       /\ IF member \ {request.org} = {} THEN o = None ELSE o \in member \ {request.org}
       /\ request' = [request EXCEPT !.op = "removed", !.left = o]
  /\ Changed("account")
  /\ UNCHANGED <<tenant, invite, user, purge, counts>>
Resettle ==
  /\ request.op = "removed"
  /\ user' = IF user.orgId # request.org THEN user
             ELSE [user EXCEPT !.orgId = request.left, !.disabled = @ \/ request.left = None]
  /\ Answered /\ Changed("account")
  /\ UNCHANGED <<tenant, invite, member, purge, counts>>

---------------------------------------------------------------------------
At(p, pc) == purge' = [purge EXCEPT ![p].pc = pc]

\* deletionSweep takes the organisations that are due, and purgeOrg begins with the data
\* of the devices, by the ids of their rows.
DeletionSweep(p) ==
  /\ org = "scheduled" /\ purge[p].pc = "idle" /\ At(p, "plan")
  /\ telemetry' = IF meter THEN telemetry \ {"row"} ELSE telemetry
  /\ heard' = IF heard = "no" THEN "begun" ELSE heard
  /\ UNCHANGED <<org, meter, invite, account, request, touched, counts>>

\* Mutants: home alone decides; a superadmin is an account like any other.
PlanUserRemovalHome ==
  [plan |-> IF user.orgId = Doomed THEN "remove" ELSE "keep", to |-> None]
PlanUserRemovalStays ==
  [plan |-> IF user.orgId = Doomed \/ Doomed \notin member THEN "keep" ELSE "remove", to |-> None]
\* planUserRemoval.
PlanUserRemoval ==
  LET elsewhere == member \ {Doomed}
      activeHere == user.orgId = Doomed
      plan == CASE ~activeHere /\ (user.super \/ user.orgId # None \/ elsewhere # {}) -> "keep"
                [] activeHere /\ elsewhere # {} -> "move"
                [] activeHere /\ elsewhere = {} /\ user.super -> "detach"
                [] OTHER -> "remove"
  IN [plan |-> plan, to |-> IF plan = "move" THEN Other ELSE None]

HasPlan(q) == purge[q].pc \notin {"idle", "plan"}

\* Who is affected: home here or a membership here.
Plan(p) ==
  /\ purge[p].pc = "plan"
  /\ purge' = [purge EXCEPT ![p] =
       IF user.there /\ (user.orgId = Doomed \/ Doomed \in member)
       THEN [pc |-> "move", plan |-> PlanUserRemoval.plan, to |-> PlanUserRemoval.to]
       ELSE [NoPurge EXCEPT !.pc = "invites"]]
  /\ touched' = IF org = "gone" \/ \E q \in Sweep : HasPlan(q) THEN touched ELSE {}
  /\ UNCHANGED <<tenant, invite, account, request, counts>>
Move(p) ==
  /\ purge[p].pc = "move" /\ At(p, "invites")
  /\ user' = IF purge[p].plan \in {"move", "detach"} THEN [user EXCEPT !.orgId = purge[p].to] ELSE user
  /\ UNCHANGED <<tenant, invite, member, request, touched, counts>>
DeleteInvites(p) ==
  /\ purge[p].pc = "invites" /\ At(p, "members")
  /\ invite' = [invite EXCEPT ![Doomed] = FALSE]
  /\ UNCHANGED <<tenant, account, request, touched, counts>>
DeleteMemberships(p) ==
  /\ purge[p].pc = "members" /\ At(p, "meters")
  /\ member' = member \ {Doomed}
  /\ UNCHANGED <<tenant, invite, user, request, touched, counts>>
DeleteMeters(p) ==
  /\ purge[p].pc = "meters" /\ At(p, "users")
  /\ meter' = FALSE
  /\ telemetry' = IF telemetry = {} THEN {} ELSE {"lost"}
  /\ UNCHANGED <<org, heard, invite, account, request, touched, counts>>
\* The ids of an account that is gone are nobody's in the plans of other purges.
DeleteUsers(p) ==
  /\ purge[p].pc = "users"
  /\ IF purge[p].plan = "remove"
     THEN /\ user' = [user EXCEPT !.there = FALSE, !.orgId = None] /\ member' = {}
          /\ purge' = [q \in Sweep |-> IF q = p THEN [purge[q] EXCEPT !.pc = "org"]
                                       ELSE [purge[q] EXCEPT !.plan = "keep"]]
     ELSE At(p, "org") /\ UNCHANGED account
  /\ UNCHANGED <<tenant, invite, request, touched, counts>>
DeleteOrg(p) ==
  /\ purge[p].pc = "org" /\ purge' = [purge EXCEPT ![p] = NoPurge]
  /\ org' = "gone"
  /\ UNCHANGED <<telemetry, meter, heard, invite, account, request, touched, counts>>

\* A statement fails and one purge stops where it is, or the process ends with all.
Crash ==
  /\ crashes < MaxCrashes /\ crashes' = crashes + 1
  /\ \E stopped \in SUBSET Sweep :
       /\ \E p \in stopped : purge[p].pc # "idle"
       /\ purge' = [p \in Sweep |-> IF p \in stopped THEN NoPurge ELSE purge[p]]
  /\ UNCHANGED <<tenant, invite, account, request, touched, requests>>

Purging(p) ==
  \/ Plan(p) \/ Move(p) \/ DeleteInvites(p) \/ DeleteMemberships(p)
  \/ DeleteMeters(p) \/ DeleteUsers(p) \/ DeleteOrg(p)
Requesting == Invite \/ Accept \/ Join \/ Switch \/ RemoveMember \/ Resettle

Next ==
  \/ Ingest \/ Schedule \/ Cancel
  \/ \E o \in Org, op \in {"invite", "accept", "switch", "remove"} : Begin(op, o)
  \/ Requesting
  \/ \E p \in Sweep : DeletionSweep(p) \/ Purging(p)
  \/ Crash

Spec == Init /\ [][Next]_vars

\* The sweep comes round, statements return.
FairSpec ==
  /\ Spec
  /\ WF_vars(\E p \in Sweep : DeletionSweep(p))
  /\ \A p \in Sweep : WF_vars(Purging(p))
  /\ WF_vars(Requesting)

---------------------------------------------------------------------------
(***************************************************************************)
(* "Only the accounts that belong nowhere else": no account another          *)
(* organisation has goes with this one, and no superadmin ever does - over   *)
(* purges that died half-way and purges side by side, if no request changed  *)
(* the account after their plans were made.                                  *)
(***************************************************************************)
KeepsOthers ==
  [][user.there /\ ~user'.there =>
       /\ ~user.super
       /\ "account" \in touched \/ (Other \notin member /\ user.orgId # Other)]_vars

(***************************************************************************)
(* What a purge has finished, however often it was started over and whatever *)
(* ran beside it, is gone: the devices' rows and data, if none of them sent  *)
(* a message after the first purge began; invites, if none was sent after    *)
(* the plans were made; memberships and the home of the account, if no       *)
(* request changed it after them.                                            *)
(***************************************************************************)
NothingLeft ==
  org = "gone" =>
    /\ heard = "late" \/ (~meter /\ telemetry = {})
    /\ "invite" \in touched \/ ~invite[Doomed]
    /\ "account" \in touched \/ (Doomed \notin member /\ user.orgId # Doomed)

(***************************************************************************)
(* "Children go before parents so nothing is orphaned" (purge.ts:16).        *)
(***************************************************************************)
NothingOrphaned == org = "gone" => telemetry = {}

(***************************************************************************)
(* A deletion that stays scheduled is carried out, and, if no request        *)
(* changed the account, none is left behind that belongs nowhere else.       *)
(***************************************************************************)
Finishes ==
  <>[](org # "live") =>
    <>[](/\ org = "gone"
         /\ requests = 0 /\ user.there => user.super \/ Other \in member \cup {user.orgId})

=============================================================================
