---------------------------- MODULE MC_Telemetry ----------------------------
(***************************************************************************)
(* Telemetry with what a battery may send: a discharge to the end, with a    *)
(* charge in it; a hole longer than the gap, on a page and across two, in a  *)
(* discharge; a silence longer than a page; a missing reading; a battery     *)
(* that starts late.  And the overrides two organisations begin with, one    *)
(* maybe shorter and one maybe longer than the default.                      *)
(***************************************************************************)
EXTENDS Telemetry

At(soc, kw) == [soc |-> soc, kw |-> kw]
Sent(samples) == [b \in 0..LastBucket |-> samples[b + 1]]
MC_Series == {
  Sent(<<At(9, 1), At(8, 2), At(6, 2), At(4, 1), At(4, 0), At(5, -1), At(4, 1), At(4, 0)>>),
  Sent(<<At(9, 2), At(7, 2), None, None, At(3, 0), At(3, 1), At(2, -2), None>>),
  Sent(<<At(9, 2), At(7, 2), None, None, None, At(3, 0), At(3, 1), At(2, -2)>>),
  Sent(<<At(5, 1), None, None, None, None, None, At(5, 2), At(3, 0)>>),
  Sent(<<None, At(9, 2), None, At(6, 1), At(None, 1), At(4, 0), At(4, 2), At(1, -1)>>),
  Sent(<<None, None, None, None, None, At(6, None), At(6, 1), At(4, 0)>>)}

MC_InitialDays ==
  {[o \in Tenant |-> IF o = CHOOSE p \in Tenant : TRUE THEN shorter ELSE longer] :
     shorter \in {None} \cup {d \in Override : d < RawDays},
     longer \in {None} \cup {d \in Override : d > RawDays}}

=============================================================================
