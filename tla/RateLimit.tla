----------------------------- MODULE RateLimit -----------------------------
(***************************************************************************)
(* The REST API's rate limiter for one key and scope (api/rest/rate-limit.ts *)
(* and rate-limit-store.ts): a token bucket in a database row that           *)
(* concurrent requests read, decide on and write back when its version is    *)
(* still the one they read.  The time unit is the refill time of one token.  *)
(***************************************************************************)
EXTENDS Integers

CONSTANTS
  Request,           \* requests that can be under way at once
  Burst,
  MAX_CAS_ATTEMPTS,
  NoRow,
  LastTime,          \* bound: the time of the run
  MaxErrors          \* bound: failed statements

RateAssumption == {Burst, MAX_CAS_ATTEMPTS} \subseteq Nat \ {0} /\ {LastTime, MaxErrors} \subseteq Nat

VARIABLES
  time,
  bucket,      \* the row: tokens, updatedAt, version
  call,        \* per request: its `now`, the row it read, the attempts it has left
  admitted,    \* history: requests that were charged a token, up to one too many
  regressed,   \* history: an updatedAt was written over a later one
  errors

vars == <<time, bucket, call, admitted, regressed, errors>>

Bucket == [tokens : 0..Burst, updatedAt : 0..LastTime, version : Nat \ {0}]
NoCall == [pc |-> "idle", now |-> 0, seen |-> NoRow, left |-> 0]

TypeOK ==
  /\ time \in 0..LastTime
  /\ bucket = NoRow \/ bucket \in Bucket
  /\ \A r \in Request :
       /\ call[r].pc \in {"idle", "read", "write"}
       /\ call[r].now \in 0..LastTime /\ call[r].left \in 0..MAX_CAS_ATTEMPTS
       /\ call[r].seen = NoRow \/ call[r].seen \in Bucket
  /\ admitted \in 0..(Burst + LastTime + 1)
  /\ regressed \in BOOLEAN /\ errors \in 0..MaxErrors

---------------------------------------------------------------------------
Init ==
  /\ time = 0
  /\ bucket = NoRow
  /\ call = [r \in Request |-> NoCall]
  /\ admitted = 0 /\ regressed = FALSE /\ errors = 0

\* Mutant: the elapsed time is not clamped at zero.
RefilledSkewed(row, now) ==
  LET tokens == IF row = NoRow THEN Burst ELSE row.tokens + now - row.updatedAt
  IN IF tokens > Burst THEN Burst ELSE IF tokens < 0 THEN 0 ELSE tokens
\* takeToken: a missing row is a full bucket; time never runs backwards.
Refilled(row, now) ==
  LET tokens == IF row = NoRow THEN Burst
                ELSE row.tokens + (IF now > row.updatedAt THEN now - row.updatedAt ELSE 0)
  IN IF tokens > Burst THEN Burst ELSE tokens

Set(r, c) == call' = [call EXCEPT ![r] = c]

Arrive(r) ==
  /\ call[r].pc = "idle"
  /\ Set(r, [pc |-> "read", now |-> time, seen |-> NoRow, left |-> MAX_CAS_ATTEMPTS])
  /\ UNCHANGED <<time, bucket, admitted, regressed, errors>>

\* The row is read; a request that finds no token is refused and writes nothing.
Read(r) ==
  /\ call[r].pc = "read"
  /\ Set(r, IF Refilled(bucket, call[r].now) >= 1
            THEN [call[r] EXCEPT !.pc = "write", !.seen = bucket] ELSE NoCall)
  /\ UNCHANGED <<time, bucket, admitted, regressed, errors>>

\* Mutant: the row is guarded by the time it was updated, not by its version.
UntouchedSince(r) ==
  IF bucket = NoRow \/ call[r].seen = NoRow THEN bucket = call[r].seen
  ELSE bucket.updatedAt = call[r].seen.updatedAt
\* INSERT IGNORE finds no row, or the version is still the one read.
Untouched(r) == bucket = call[r].seen

Charge(r) ==
  /\ bucket' = [tokens |-> Refilled(call[r].seen, call[r].now) - 1, updatedAt |-> call[r].now,
                version |-> IF bucket = NoRow THEN 1 ELSE bucket.version + 1]
  /\ regressed' = (regressed \/ (bucket # NoRow /\ call[r].now < bucket.updatedAt))
  /\ admitted' = IF admitted > Burst + LastTime THEN admitted ELSE admitted + 1

\* The token is taken, or the race is lost: read again, or after
\* MAX_CAS_ATTEMPTS let the request through uncharged.
Write(r) ==
  /\ call[r].pc = "write"
  /\ IF Untouched(r)
     THEN Charge(r) /\ Set(r, NoCall)
     ELSE /\ Set(r, IF call[r].left = 1 THEN NoCall
                    ELSE [call[r] EXCEPT !.pc = "read", !.left = @ - 1])
          /\ UNCHANGED <<bucket, admitted, regressed>>
  /\ UNCHANGED <<time, errors>>

\* A statement throws: let through; the write may have been made.
Error(r) ==
  /\ errors < MaxErrors /\ errors' = errors + 1
  /\ call[r].pc # "idle"
  /\ Set(r, NoCall)
  /\ \/ UNCHANGED <<bucket, admitted, regressed>>
     \/ call[r].pc = "write" /\ Untouched(r) /\ Charge(r)
  /\ UNCHANGED time

Elapse ==
  /\ time < LastTime
  /\ time' = time + 1
  /\ UNCHANGED <<bucket, call, admitted, regressed, errors>>

Next ==
  \/ \E r \in Request : Arrive(r) \/ Read(r) \/ Write(r) \/ Error(r)
  \/ Elapse

Spec == Init /\ [][Next]_vars

---------------------------------------------------------------------------
(***************************************************************************)
(* A bucket "cannot spend more" than its capacity and what it regained       *)
(* (rate-limit.ts:98-100): of the requests charged to it, however they race, *)
(* no more than Burst plus one per unit of time - as long as no request      *)
(* wrote its own `now` over a later one, which makes time count twice.       *)
(***************************************************************************)
WithinQuota == ~regressed => admitted <= Burst + time

(***************************************************************************)
(* "Clamp the elapsed time at zero" (rate-limit.ts:66-68): the row never     *)
(* holds fewer tokens than were not charged - a request whose clock is       *)
(* behind costs one token, like any other.                                   *)
(***************************************************************************)
NeverDrained == bucket # NoRow => bucket.tokens >= Burst - admitted

\* The rate limit is kept in both directions.
BucketHonest == WithinQuota /\ NeverDrained

=============================================================================
