--------------------------- MODULE ChargerSystem ---------------------------
(***************************************************************************)
(* The state machine on the control pilot that it drives and measures.     *)
(* CpAveraging and Iec61851Fsm share the output: what the state machine    *)
(* sets is what the rings sample, together with the level of the car, and  *)
(* what run() reads is what the sampling task published last.  The two     *)
(* tasks interleave: between two frames, or between the two parts of one,  *)
(* the main task may handle a message, run the state machine or do both    *)
(* several times.                                                          *)
(***************************************************************************)
EXTENDS Iec61851Fsm

CONSTANTS SampleSize, MaxDeviation, MaxMisfits, CarLevels, MaxHasty   \* as in CpAveraging

ASSUME ChargerAssumption ==
    /\ SampleSize \in Nat \ {0}
    /\ MaxDeviation \in Nat /\ MaxMisfits \in Nat /\ MaxHasty \in Nat
    /\ CarLevels \subseteq -12000 .. 12000

VARIABLES
    highAvg, lowAvg, rawSignal, car, before, since, hasty,   \* as in CpAveraging
    served   \* history: run() has read the pilot since the rings settled, with the
             \* output being what the state machine takes it for

Pilot == INSTANCE CpAveraging WITH output <- cpOut

ringVars == <<highAvg, lowAvg, rawSignal, car, before, since, hasty>>
chargerVars == <<vars, ringVars, served>>

\* set_pwm_on with a duty cycle of 0 or 1 gives a constant output that the state
\* machine takes for a PWM; it then reads nothing but faults.
OutputAsTold == curPwmRunning <=> cpOut = "PWM"

ChargerInit ==
    /\ Init
    /\ Pilot!Init
    /\ served = FALSE

\* Sampler::loop, one frame.
Sampling ==
    /\ Pilot!Sample
    /\ UNCHANGED <<vars, served>>

\* The driver plugs in, the car switches its resistors, or the CP is shorted to PE.
CarChanges ==
    /\ UNCHANGED vars
    /\ Pilot!ChangeBetween \/ Pilot!ChangeWithin
    /\ served' = FALSE

\* The rings are to settle again after a call that sets another output.
PilotFollows ==
    IF cpOut' = cpOut THEN UNCHANGED ringVars ELSE Pilot!ChangeBetween \/ Pilot!ChangeWithin

\* fsm.run() in the main task: read_cp_state calls get_latest_cp_signal.
RunOnPilot ==
    /\ Run(Pilot!CpSignal)
    /\ PilotFollows
    /\ served' = (cpOut' = cpOut /\ OutputAsTold /\ since = SampleSize)

\* Everything else that happens to the state machine.
OtherCall ==
    /\ Message \/ Configure \/ Tick \/ RcdFires
    /\ PilotFollows
    /\ served' = (served /\ cpOut' = cpOut)

ChargerNext == Sampling \/ CarChanges \/ RunOnPilot \/ OtherCall

ChargerSpec == ChargerInit /\ [][ChargerNext]_chargerVars
-----------------------------------------------------------------------------
\* Once the rings have settled and run() has been called, the contactor is closed
\* only for a car that asks for power at this moment, however car, output and the
\* two tasks got there, and whatever was read on the way; only a signal that shows
\* no state at all, a CP shorted to PE while the PWM is off, leaves a contactor
\* closed that was (run(), Sampler::loop).
ContactorFitsCar == served /\ power => Pilot!Shown \in {"C", "D", Unstable}

\* With the rings settled, and also with a duty cycle of 0 or 1, run() closes the
\* contactor only for a car that asks for power: what it closes for otherwise is
\* gone one round of the rings later.
ClosesForCar ==
    [][~power /\ power' /\ since = SampleSize => Pilot!Shown \in {"C", "D"}]_chargerVars
=============================================================================
