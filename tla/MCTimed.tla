------------------------------ MODULE MCTimed -------------------------------
(* The state machine in the main loop. *)
EXTENDS Iec61851Timed, SampleReadings
=============================================================================
