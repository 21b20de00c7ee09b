---------------------------- MODULE MCAveraging -----------------------------
(* The rings with the sizes of the firmware. *)
EXTENDS CpAveraging

\* No car, the states B, C and D, and a short to PE.
Cars == {12000, 9000, 6000, 3000, 0}
=============================================================================
