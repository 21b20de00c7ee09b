----------------------------- MODULE MCSession ------------------------------
(* The state machine and its listener. *)
EXTENDS Iec61851Session, Iec61851Refinement, SampleReadings
=============================================================================
