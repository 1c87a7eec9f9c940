---------------------------- MODULE MC_Services ----------------------------
(***************************************************************************)
(* Services with a plant to check the grid limit on: two assets of 2 kW, the  *)
(* first without a limit register; the sun, the load and what is dark.  An    *)
(* import below, inside and above the band of 1..2 kW, once so high that the *)
(* limits cap the discharge.  Watchdog blocks of two, three and four and a    *)
(* half ticks, refreshed every tick, one and a half and two and a half.       *)
(***************************************************************************)
EXTENDS Services

MC_Limits == [maxImport |-> 4, maxExport |-> 1, deadband |-> 0, maxStep |-> 2]

At(sun, load, pcc, seen) == [sun |-> sun, load |-> load, pcc |-> pcc, seen |-> seen]
MC_Weather == {At(2, 2, TRUE, {1, 2}), At(1, 2, TRUE, {1, 2}), At(2, 1, FALSE, {}), At(2, 5, TRUE, {1})}

MC_Power == {0, 1, 3, 5}
MC_AnyReading == MC_Power \cup {Stale, NoMetric}

MC_Setting == [interval : {2, 3, 5}, timeout : {4, 6, 9}]

=============================================================================
