------------------------- MODULE ContactorContract -------------------------
(***************************************************************************)
(* What the charger promises about its contactor, whatever happens on the  *)
(* control pilot: it closes only for a car that asks for power while the   *)
(* PWM is on and power is permitted, it opens with the first reading that  *)
(* shows no such car, and for a car that keeps asking although the PWM has *)
(* stopped it opens once a deadline has passed.                            *)
(***************************************************************************)
VARIABLES
    closed,   \* the contactor is closed
    demand,   \* the last reading showed a car that asks for power
    lit,      \* the PWM was on at the last reading
    pilot,    \* the PWM is on
    permit,   \* closing is permitted
    deadline  \* "idle", "counting" or "due"

contract == <<closed, demand, lit, pilot, permit, deadline>>

Init ==
    /\ ~closed /\ ~demand /\ ~lit /\ ~pilot /\ ~permit
    /\ deadline = "idle"

\* A command from outside never moves the contactor.
Command ==
    /\ pilot' \in BOOLEAN /\ permit' \in BOOLEAN
    /\ UNCHANGED <<closed, demand, lit, deadline>>

\* The clock is finite: a deadline that nobody looks at is forgotten.
Elapse ==
    /\ \/ deadline = "counting" /\ deadline' = "due"
       \/ deadline = "due" /\ deadline' = "counting"
    /\ UNCHANGED <<closed, demand, lit, pilot, permit>>

\* A reading of a car that asks for power.
Serve ==
    /\ demand'
    /\ lit' = pilot
    /\ deadline' = IF lit /\ ~pilot THEN "counting" ELSE deadline
    /\ closed' # closed => IF closed' THEN pilot /\ permit ELSE ~pilot /\ deadline = "due"
    /\ ~pilot /\ ~lit /\ deadline = "due" => ~closed'
    /\ UNCHANGED <<pilot, permit>>

\* A reading of anything else.
Refuse ==
    /\ ~demand' /\ ~closed'
    /\ lit' = pilot'
    /\ pilot' => pilot
    /\ permit' => permit
    /\ UNCHANGED deadline

\* The residual current device opens the contactor by itself.
Trip ==
    /\ closed /\ ~closed'
    /\ UNCHANGED <<demand, lit, pilot, permit, deadline>>

Next == Command \/ Elapse \/ Serve \/ Refuse \/ Trip

Spec == Init /\ [][Next]_contract
=============================================================================
