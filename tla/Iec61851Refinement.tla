------------------------- MODULE Iec61851Refinement -------------------------
(* The state machine implements the contract of the contactor, and reports  *)
(* what becomes of it as the link expects.                                  *)
EXTENDS Iec61851Fsm

DeadlineOf(countdown) ==
    IF ~countdown.running THEN "idle"
    ELSE IF countdown.age >= PwmStopTicks THEN "due" ELSE "counting"

Contract == INSTANCE ContactorContract
    WITH closed <- power,
         demand <- prevState \in {"C", "D"},
         lit <- prevPwmRunning,
         pilot <- curPwmRunning,
         permit <- powerOnAllowed,
         deadline <- DeadlineOf(pwmStop)

\* Every step of the state machine is a step the contract allows: the contactor
\* moves only in run(), closes only in C2 (and D2 with ventilation) with power
\* allowed, and is open after every reading of another state, although A and B
\* do not even try to open it after some of their predecessors.
ImplementsContract == Contract!Spec

\* The only event of the last call that is about the contactor.
AboutPower == {"PowerOn", "PowerOff"}
OnlyNews(event) ==
    \E k \in DOMAIN pushed : /\ pushed[k] = event
                            /\ \A j \in DOMAIN pushed \ {k} : pushed[j] \notin AboutPower

TellsOfPower ==
    IF OnlyNews("PowerOn") THEN "on"
    ELSE IF OnlyNews("PowerOff") THEN "off"
    ELSE IF \A k \in DOMAIN pushed : pushed[k] \notin AboutPower THEN "none" ELSE "several"

Report == INSTANCE ReportedPower
    WITH allowed <- powerOnAllowed,
         power <- IF power THEN "on" ELSE "off",
         event <- TellsOfPower

\* Without an RCD that opens the contactor by itself, also with relays that stick:
\* run() closes the contactor only where power_on_allowed is still set at its end,
\* and power_on() and power_off() report each change of it once, and nothing else
\* (run(), power_on(), power_off()).
ReportsPower == Report!Spec
=============================================================================
