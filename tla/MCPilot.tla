------------------------------ MODULE MCPilot ------------------------------
(* The shortest period with a tick per per cent; duty cycles below zero, in  *)
(* between, near both ends and beyond one.                                   *)
EXTENDS ControlPilot
MCDuties == {-10, 5, 10, 100, 530, 990, 1200}
=============================================================================
