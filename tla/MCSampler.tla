----------------------------- MODULE MCSampler ------------------------------
(* Two interrupts, the sampling task and the main task. *)
EXTENDS Sampler
=============================================================================
