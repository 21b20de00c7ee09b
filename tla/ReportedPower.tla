--------------------------- MODULE ReportedPower ----------------------------
(***************************************************************************)
(* What the link (BoardLink) takes the state machine for: the contactor    *)
(* closes only while EVerest permits it, and each call that moves it       *)
(* reports that by exactly one event.                                      *)
(***************************************************************************)
VARIABLES
    allowed,  \* closing is permitted
    power,    \* the contactor: "on" or "off"
    event     \* what the last call reported of it: "on", "off" or "none"

report == <<allowed, power, event>>

Init == allowed = FALSE /\ power = "off" /\ event = "none"

\* A message never moves the contactor; several of them set the permission.
Message(permit) ==
    /\ allowed' = permit
    /\ event' = "none"
    /\ UNCHANGED power

\* run(), with the permission "permit" or without; it may withdraw it, never give it.
Run(permit) ==
    /\ allowed' \in {FALSE, permit}
    /\ \/ UNCHANGED power /\ event' = "none"
       \/ power = "off" /\ allowed' /\ power' = "on" /\ event' = "on"
       \/ power = "on" /\ power' = "off" /\ event' = "off"

Next == (\E permit \in BOOLEAN : Message(permit)) \/ Run(allowed)

Spec == Init /\ [][Next]_report
=============================================================================
