------------------------- MODULE MC_EmsController -------------------------
(***************************************************************************)
(* Constants of the EMS runs: import below, inside and above the band of      *)
(* 1..2 kW, once so high that the limits cap the discharge.                  *)
(***************************************************************************)
EXTENDS EmsController

MC_Power == {0, 1, 3, 5}
MC_AnyReading == MC_Power \cup {Stale, NoMetric}
MC_AgingReading == {0, 5, Stale}
MC_SoundSoc == {"inside"}
MC_LowSoc == {"low", "inside"}
MC_NoPlans == {NoPlan}
MC_Plans == {NoPlan, [limited |-> TRUE, kw |-> 2]}
MC_Charge == {NoPlan, [limited |-> FALSE, kw |-> -1]}
=============================================================================
