--------------------------- MODULE MC_GridLimit ---------------------------
(***************************************************************************)
(* Two assets of 2 kW, the first without a limit register; the sun, the load *)
(* and what is dark.                                                         *)
(***************************************************************************)
EXTENDS GridLimit

MC_Limits == [maxImport |-> 4, maxExport |-> 1, deadband |-> 0, maxStep |-> 2]

At(sun, load, pcc, seen) == [sun |-> sun, load |-> load, pcc |-> pcc, seen |-> seen]
MC_Weather == {At(2, 2, TRUE, {1, 2}), At(1, 2, TRUE, {1, 2}), At(2, 1, FALSE, {}), At(2, 5, TRUE, {1})}

=============================================================================
