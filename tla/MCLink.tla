------------------------------ MODULE MCLink ------------------------------
(* Two threads, two endpoints, one restart and one stray message. *)
EXTENDS BoardLink
MCBodies == Calls \cup {Heartbeat}
=============================================================================
