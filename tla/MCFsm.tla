------------------------------- MODULE MCFsm --------------------------------
(* The state machine alone, and the contract of the contactor. *)
EXTENDS Iec61851Refinement, SampleReadings
=============================================================================
