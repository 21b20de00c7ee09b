-------------------------- MODULE Iec61851Session --------------------------
(***************************************************************************)
(* The state machine observed from outside.  The history variables record  *)
(* what a listener concludes from the events alone and which commands the  *)
(* state machine was last given; they never influence the state machine.   *)
(***************************************************************************)
EXTENDS Iec61851Fsm

VARIABLES
    heardPower,     \* last of PowerOn (TRUE) and PowerOff (FALSE)
    heardPlugged,   \* last of CarPluggedIn and CarUnplugged
    heardRequested, \* last of CarRequestedPower and CarRequestedStopPower
    plainSession,   \* since the last reported unplugging, only A, B, C and D were recognised
    holdF           \* set_pwm_f was called, and no set_pwm_off or set_pwm_on since

history == <<heardPower, heardPlugged, heardRequested, plainSession, holdF>>

PowerNews == [PowerOn |-> TRUE, PowerOff |-> FALSE]
PlugNews == [CarPluggedIn |-> TRUE, CarUnplugged |-> FALSE]
RequestNews == [CarRequestedPower |-> TRUE, CarRequestedStopPower |-> FALSE]

\* What is known after a call: its last event that the news are about decides.
Known(before, news) ==
    LET about == {k \in DOMAIN pushed' : pushed'[k] \in DOMAIN news}
    IN  IF about = {} THEN {before}
        ELSE {news[pushed'[k]] : k \in {j \in about : \A i \in about : i <= j}}

Listen ==
    /\ heardPower' \in Known(heardPower, PowerNews)
    /\ heardPlugged' \in Known(heardPlugged, PlugNews)
    /\ heardRequested' \in Known(heardRequested, RequestNews)

SessionInit ==
    /\ Init
    /\ heardPower = FALSE /\ heardPlugged = FALSE /\ heardRequested = FALSE
    /\ plainSession = FALSE /\ holdF = FALSE

\* enable() and disable() call set_pwm_off() as well.
CallStep ==
    /\ \/ SetPwmF /\ holdF' = TRUE
       \/ /\ SetPwmOff \/ Enable \/ Disable \/ \E output \in PilotOutputs : SetPwmOn(output)
          /\ holdF' = FALSE
       \/ /\ (\E enable \in BOOLEAN : AllowPowerOn(enable)) \/ Configure \/ Tick \/ RcdFires
          /\ UNCHANGED holdF
    /\ UNCHANGED plainSession

\* run() calls set_pwm_off() in the states A and E.
RunStep(cp) ==
    /\ Run(cp)
    /\ plainSession' = \/ Recognised(cp) = "A" /\ prevState \in {"B", "C", "D", "E", "DF"}
                       \/ plainSession /\ Recognised(cp) \in {"A", "B", "C", "D", Unstable}
    /\ holdF' = (holdF /\ Recognised(cp) \notin {"A", "E"})

SessionNext ==
    /\ CallStep \/ \E cp \in Readings : RunStep(cp)
    /\ Listen

SessionSpec == SessionInit /\ [][SessionNext]_<<vars, history>>
-----------------------------------------------------------------------------
SessionTypeOK ==
    /\ TypeOK
    /\ {heardPower, heardPlugged, heardRequested, plainSession, holdF} \subseteq BOOLEAN

\* A listener that remembers the last of PowerOn and PowerOff always knows the
\* state of the contactor: every change is reported once, a failed command is not.
PowerReportExact == heardPower = power

\* In a session without faults, F and Disabled the listener always knows whether
\* a car is connected ...
PlugReportExact == plainSession => (heardPlugged <=> prevState \in {"B", "C", "D"})

\* ... and, unless the car went from A straight to C or D, whether it wants power.
RequestReportExact ==
    plainSession /\ ~simplifiedMode => (heardRequested <=> prevState \in {"C", "D"})

\* "F can be exited by set_pwm_off or set_pwm_on only."
FUntilPwmCommand == holdF => curState = "F"
=============================================================================
