---------------------------- MODULE Iec61851Fsm ----------------------------
(***************************************************************************)
(* The charging state machine iec61851::FSM of the MCU firmware, together  *)
(* with the hardware it drives through iec61851::HAL (control pilot        *)
(* output, contactor, residual current device, connector lock) and its     *)
(* countdowns.                                                             *)
(*                                                                         *)
(* Every method runs to completion in the main task, so every method is    *)
(* one action.  FSM::run is the action Run(cp), with the measurement cp    *)
(* that the HAL delivers as its input; it is split by the state that       *)
(* read_cp_state recognises.  The events a call hands to its callback are  *)
(* the value of "pushed" after the call.                                   *)
(***************************************************************************)
EXTENDS CpSignal, Sequences

CONSTANTS
    Readings,       \* the CP measurements the HAL may deliver
    PwmStopTicks,   \* period of pwm_stop_countdown   (6000 ms in the code)
    LockCheckTicks, \* period of lock_check_countdown (1000 ms in the code)
    TickWrap,       \* the tick counter counts modulo TickWrap (2^32)
    RelayCanStick,  \* TRUE: a switch command may fail; FALSE: PowerSwitch of this board
    RcdFitted,      \* TRUE: the RCD can fire;          FALSE: RCD of this board, a stub
    Configurable    \* TRUE: the setters main.cpp never calls are called as well

ASSUME FsmAssumption ==
    /\ Readings \subseteq CpSignals
    /\ PwmStopTicks \in Nat \ {0} /\ LockCheckTicks \in Nat \ {0}
    /\ TickWrap \in Nat /\ PwmStopTicks < TickWrap /\ LockCheckTicks < TickWrap
    /\ {RelayCanStick, RcdFitted, Configurable} \subseteq BOOLEAN

Events == {"CarPluggedIn", "CarRequestedPower", "PowerOn", "PowerOff", "CarRequestedStopPower",
           "CarUnplugged", "Error_E", "Error_DF", "Error_Relais", "Error_RCD",
           "Error_VentilationNotAvailable", "EF_To_BCD", "BCD_To_EF"}

\* What the CP output can be told to do: constant +12 V (duty cycle 1),
\* constant -12 V (duty cycle 0) or a square wave in between.
PilotOutputs == {"P12", "N12", "PWM"}

Countdowns == [running : BOOLEAN, age : 0 .. TickWrap - 1]

VARIABLES
    curState, prevState,            \* cur_state, prev_state
    curPwmRunning, prevPwmRunning,  \* cur_pwm_running, prev_pwm_running
    powerOnAllowed, simplifiedMode, \* power_on_allowed, simplified_mode
    pwmStop, lockCheck,             \* pwm_stop_countdown, lock_check_countdown
    useThreePhases, threePhasesLatch, hasVentilation, rcdReclosingAllowed,
    cpOut,                          \* HAL: last value given to cp.set_pwm
    power,                          \* HAL: power_switch.is_on()
    rcdArmed, rcdFired,             \* HAL: rcd.enable/disable, rcd.got_fired()
    tripLatched,                    \* HAL: fault flag in the power switch
    locked,                         \* HAL: last of lock.lock(), lock.unlock()
    pushed                          \* events of the last call, in order

sessionVars == <<prevState, prevPwmRunning, simplifiedMode, threePhasesLatch, pwmStop>>
configVars  == <<useThreePhases, hasVentilation, rcdReclosingAllowed>>
halVars     == <<power, rcdArmed, rcdFired, tripLatched, locked>>
vars == <<curState, curPwmRunning, powerOnAllowed, cpOut, lockCheck, pushed,
          sessionVars, configVars, halVars>>

TypeOK ==
    /\ curState \in CPStates /\ prevState \in CPStates
    /\ curPwmRunning \in BOOLEAN /\ prevPwmRunning \in BOOLEAN
    /\ powerOnAllowed \in BOOLEAN /\ simplifiedMode \in BOOLEAN
    /\ pwmStop \in Countdowns /\ lockCheck \in Countdowns
    /\ useThreePhases \in BOOLEAN /\ threePhasesLatch \in BOOLEAN
    /\ hasVentilation \in BOOLEAN /\ rcdReclosingAllowed \in BOOLEAN
    /\ cpOut \in PilotOutputs
    /\ power \in BOOLEAN /\ rcdArmed \in BOOLEAN /\ rcdFired \in BOOLEAN
    /\ tripLatched \in BOOLEAN /\ locked \in BOOLEAN
    /\ pushed \in Seq(Events)
-----------------------------------------------------------------------------
(* Countdown.  "age" is the number of ticks since start(), modulo TickWrap. *)

Stopped == [running |-> FALSE, age |-> 0]
Started == [running |-> TRUE, age |-> 0]

\* (mutation) The counter does not wrap.
AgedForever(c) == IF c.running THEN [c EXCEPT !.age = c.age + 1] ELSE c

Aged(c) == IF ~c.running THEN c
           ELSE [c EXCEPT !.age = IF c.age = TickWrap - 1 THEN 0 ELSE c.age + 1]

Elapsed(c, ticks) == c.running /\ c.age >= ticks

-----------------------------------------------------------------------------
(* power_on() and power_off(): both do nothing when the contactor already  *)
(* is where it should be, and both start lock_check_countdown when they    *)
(* do switch.  They run after the check of that countdown in run().        *)

Commands == {"on", "off", "keep"}

Switches(command) == command # "keep" /\ power # (command = "on")

\* What the power switch may report after a switch command.
Feedback(on) == IF RelayCanStick THEN BOOLEAN ELSE {on}

\* "check if we need to stop LOCK motor after one second"
PollLockCheck ==
    IF Elapsed(lockCheck, LockCheckTicks)
    THEN locked' = FALSE /\ lockCheck' = Stopped
    ELSE UNCHANGED <<locked, lockCheck>>

\* rcd.disable() before every switch command, rcd.enable() after power_on() only.
\* (mutation) rcd.enable() is forgotten.
RcdNeverAgain(command) == FALSE

RcdAfter(command) == command = "on"

Contactor(command) ==
    \/ /\ ~Switches(command)
       /\ PollLockCheck
       /\ UNCHANGED <<power, rcdArmed>>
    \/ /\ Switches(command)
       /\ power' \in Feedback(command = "on")
       /\ rcdArmed' = RcdAfter(command)
       /\ locked' = (command = "on")
       /\ lockCheck' = Started

When(condition, event) == IF condition THEN <<event>> ELSE <<>>

\* (mutation) The result of the switch command is not looked at.
PowerEventsUnchecked(command) ==
    IF ~Switches(command) THEN <<>>
    ELSE <<IF command = "on" THEN "PowerOn" ELSE "PowerOff">>

PowerEvents(command) ==
    IF ~Switches(command) THEN <<>>
    ELSE IF power' # (command = "on") THEN <<"Error_Relais">>
    ELSE <<IF command = "on" THEN "PowerOn" ELSE "PowerOff">>
-----------------------------------------------------------------------------
(* The constructor: disable() and rcd.enable().  simplified_mode is not    *)
(* initialised, so it may hold either value.                               *)

Init ==
    /\ curState = "Disabled" /\ prevState = "Disabled"
    /\ curPwmRunning = FALSE /\ prevPwmRunning = FALSE
    /\ powerOnAllowed = FALSE /\ simplifiedMode \in BOOLEAN
    /\ pwmStop = Stopped /\ lockCheck = Stopped
    /\ useThreePhases = TRUE /\ threePhasesLatch = TRUE
    /\ hasVentilation = FALSE /\ rcdReclosingAllowed = FALSE
    /\ cpOut = "N12"
    /\ power = FALSE /\ rcdArmed = TRUE /\ rcdFired = FALSE
    /\ tripLatched = FALSE /\ locked = FALSE
    /\ pushed = <<>>

-----------------------------------------------------------------------------
(* The methods the main loop calls for a message from the high level.      *)

\* Assignments of set_pwm_off().
PwmOff ==
    /\ cpOut' = "P12"
    /\ curPwmRunning' = FALSE
    /\ powerOnAllowed' = FALSE

SetPwmOff ==
    /\ PwmOff
    /\ pushed' = <<>>
    /\ UNCHANGED <<curState, lockCheck, sessionVars, configVars, halVars>>

\* The duty cycle is not checked: 0 and 1 give a constant output.
SetPwmOn(output) ==
    /\ cpOut' = output
    /\ curPwmRunning' = TRUE
    /\ pushed' = <<>>
    /\ UNCHANGED <<curState, powerOnAllowed, lockCheck, sessionVars, configVars, halVars>>

SetPwmF ==
    /\ cpOut' = "N12"
    /\ curState' = "F"
    /\ curPwmRunning' = FALSE
    /\ powerOnAllowed' = FALSE
    /\ pushed' = <<>>
    /\ UNCHANGED <<lockCheck, sessionVars, configVars, halVars>>

Enable ==
    /\ curState' = "A"
    /\ PwmOff
    /\ pushed' = <<>>
    /\ UNCHANGED <<lockCheck, sessionVars, configVars, halVars>>

\* set_pwm_off() first, then cp.disable() pulls the output to -12 V.
Disable ==
    /\ curState' = "Disabled"
    /\ cpOut' = "N12"
    /\ curPwmRunning' = FALSE
    /\ powerOnAllowed' = FALSE
    /\ pushed' = <<>>
    /\ UNCHANGED <<lockCheck, sessionVars, configVars, halVars>>

AllowPowerOn(enable) ==
    /\ powerOnAllowed' = enable
    /\ pushed' = <<>>
    /\ UNCHANGED <<curState, curPwmRunning, cpOut, lockCheck, sessionVars, configVars, halVars>>

Message ==
    \/ SetPwmOff
    \/ \E output \in PilotOutputs : SetPwmOn(output)
    \/ SetPwmF
    \/ Enable
    \/ Disable
    \/ \E enable \in BOOLEAN : AllowPowerOn(enable)

\* set_three_phases, set_ventilation and set_country_code; main.cpp calls
\* none of them, so the members keep their defaults in the firmware.
Configure ==
    /\ Configurable
    /\ \E enable \in BOOLEAN :
        \/ useThreePhases' = enable /\ UNCHANGED <<hasVentilation, rcdReclosingAllowed>>
        \/ hasVentilation' = enable /\ UNCHANGED <<useThreePhases, rcdReclosingAllowed>>
        \/ rcdReclosingAllowed' = enable /\ UNCHANGED <<useThreePhases, hasVentilation>>
    /\ pushed' = <<>>
    /\ UNCHANGED <<curState, curPwmRunning, powerOnAllowed, cpOut, lockCheck, sessionVars, halVars>>
-----------------------------------------------------------------------------
(* FSM::run.  In every recognised state it sends the events "before", one  *)
(* command to the contactor and the events "after".                        *)

Recognise(state, command, before, after) ==
    /\ curState' = state
    /\ prevState' = state
    /\ prevPwmRunning' = curPwmRunning'
    /\ Contactor(command)
    /\ rcdFired' = FALSE
    /\ pushed' = When(rcdFired, "Error_RCD") \o before \o PowerEvents(command) \o after
    /\ UNCHANGED configVars

KeepPilot == UNCHANGED <<cpOut, curPwmRunning, powerOnAllowed>>

WasIn(states) == prevState \in states

\* BCD_To_EF is sent when one of these states is left for E, F or DF ...
PilotFine == {"B", "C", "D"}
\* ... and EF_To_BCD when one of these is left for B, C or D.
PilotFaulty == {"E", "F"}

\* (mutation) Disabled waits without switching off.
RunDisabledIdle ==
    /\ powerOnAllowed' = FALSE
    /\ UNCHANGED <<cpOut, curPwmRunning>>
    /\ Recognise("Disabled", "keep", <<>>, <<>>)
    /\ UNCHANGED <<simplifiedMode, threePhasesLatch, pwmStop, tripLatched>>

RunDisabled ==
    /\ powerOnAllowed' = FALSE
    /\ UNCHANGED <<cpOut, curPwmRunning>>
    /\ Recognise("Disabled", "off", <<>>, <<>>)
    /\ UNCHANGED <<simplifiedMode, threePhasesLatch, pwmStop, tripLatched>>

\* (mutations) The diode fault and the charging car are forgotten.
UnplugSourcesNotDF == CPStates \ {"A", "Disabled", "F", "DF"}
UnplugSourcesNotC == CPStates \ {"A", "Disabled", "F", "C"}

\* States from which state A is taken as the car having been unplugged.
UnplugSources == CPStates \ {"A", "Disabled", "F"}

\* (mutation) The country is not asked.
ResetsSwitchAnywhere(unplugged) == unplugged

\* reset_emergency_switch() is called.
ResetsSwitch(unplugged) == unplugged /\ rcdReclosingAllowed

RunA ==
    LET unplugged == WasIn(UnplugSources)
    IN /\ PwmOff
       /\ Recognise("A", IF unplugged THEN "off" ELSE "keep",
                    When(unplugged, "CarRequestedStopPower"), When(unplugged, "CarUnplugged"))
       /\ simplifiedMode' = FALSE
       /\ threePhasesLatch' = useThreePhases
       /\ tripLatched' = (tripLatched /\ ~ResetsSwitch(unplugged))
       /\ UNCHANGED pwmStop

\* (mutation) A car that goes from C to B is not cut off.
QuietBeforeBOrC == {"A", "B", "C"}

\* States from which state B does not ask for the power to be cut.
QuietBeforeB == {"A", "B"}

RunB ==
    LET stopped == ~WasIn(QuietBeforeB)
        plugged == WasIn({"A", "Disabled"})
    IN /\ KeepPilot
       /\ Recognise("B", IF stopped THEN "off" ELSE "keep",
                    When(stopped, "CarRequestedStopPower"),
                    When(plugged, "CarPluggedIn") \o When(WasIn(PilotFaulty), "EF_To_BCD"))
       /\ simplifiedMode' = (simplifiedMode /\ ~plugged)
       /\ UNCHANGED <<threePhasesLatch, pwmStop, tripLatched>>

\* (mutations) The condition is swapped; the countdown starts anew in every run.
PwmStopNextSwapped == IF ~curPwmRunning /\ ~prevPwmRunning THEN Started ELSE pwmStop
PwmStopNextAnew == IF ~curPwmRunning THEN Started ELSE pwmStop

\* C1 and D1: the countdown starts with the first run that sees the PWM
\* stopped; the contactor opens once it has elapsed.
PwmStopNext == IF ~curPwmRunning /\ prevPwmRunning THEN Started ELSE pwmStop

\* (mutation) "greater" for "greater or equal".
StopDueLate == /\ ~curPwmRunning /\ ~prevPwmRunning
               /\ pwmStop.running /\ pwmStop.age > PwmStopTicks

StopDue == ~curPwmRunning /\ ~prevPwmRunning /\ Elapsed(pwmStop, PwmStopTicks)

\* (mutation) power_on_allowed is not asked.
MayCloseUnasked == curPwmRunning

MayClose == curPwmRunning /\ powerOnAllowed

CommandInC == IF MayClose THEN "on" ELSE IF StopDue THEN "off" ELSE "keep"

RunC ==
    LET plugged == WasIn({"A"})
    IN /\ KeepPilot
       /\ simplifiedMode' = (simplifiedMode \/ plugged)
       /\ Recognise("C", CommandInC,
                    When(plugged, "CarPluggedIn") \o When(WasIn({"B"}), "CarRequestedPower")
                        \o When(WasIn(PilotFaulty), "EF_To_BCD"),
                    When(MayClose /\ ~prevPwmRunning /\ simplifiedMode', "CarRequestedPower"))
       /\ pwmStop' = PwmStopNext
       /\ UNCHANGED <<threePhasesLatch, tripLatched>>

CommandInD == IF MayClose /\ hasVentilation THEN "on" ELSE IF StopDue THEN "off" ELSE "keep"

RunD ==
    LET plugged == WasIn({"A"})
    IN /\ KeepPilot
       /\ simplifiedMode' = (simplifiedMode \/ plugged)
       /\ Recognise("D", CommandInD,
                    When(plugged, "CarPluggedIn") \o When(WasIn({"A", "B"}), "CarRequestedPower")
                        \o When(WasIn(PilotFaulty), "EF_To_BCD")
                        \o When(MayClose /\ ~power /\ ~hasVentilation, "Error_VentilationNotAvailable"),
                    When(curPwmRunning /\ WasIn({"C"}) /\ ~hasVentilation,
                         "Error_VentilationNotAvailable"))
       /\ pwmStop' = PwmStopNext
       /\ UNCHANGED <<threePhasesLatch, tripLatched>>

RunE ==
    /\ PwmOff
    /\ Recognise("E", "off",
                 When(~WasIn({"E"}), "Error_E") \o When(WasIn(PilotFine), "BCD_To_EF"), <<>>)
    /\ UNCHANGED <<simplifiedMode, threePhasesLatch, pwmStop, tripLatched>>

RunF ==
    /\ KeepPilot
    /\ Recognise("F", "off", <<>>, When(WasIn(PilotFine), "BCD_To_EF"))
    /\ UNCHANGED <<simplifiedMode, threePhasesLatch, pwmStop, tripLatched>>

RunDF ==
    /\ KeepPilot
    /\ Recognise("DF", "off",
                 When(~WasIn({"DF"}), "Error_DF") \o When(WasIn(PilotFine), "BCD_To_EF"), <<>>)
    /\ UNCHANGED <<simplifiedMode, threePhasesLatch, pwmStop, tripLatched>>

\* read_cp_state returned false: only the RCD and the lock are looked after.
RunUnstable ==
    /\ PollLockCheck
    /\ rcdFired' = FALSE
    /\ pushed' = When(rcdFired, "Error_RCD")
    /\ KeepPilot
    /\ UNCHANGED <<curState, sessionVars, configVars, power, rcdArmed, tripLatched>>

\* (mutation) The result of read_cp_state is not looked at: the state before is kept.
RecognisedIgnored(cp) ==
    IF ReadCpState(curState, curPwmRunning, cp) = Unstable THEN curState
    ELSE ReadCpState(curState, curPwmRunning, cp)

Recognised(cp) == ReadCpState(curState, curPwmRunning, cp)

Run(cp) ==
    \/ Recognised(cp) = Unstable   /\ RunUnstable
    \/ Recognised(cp) = "Disabled" /\ RunDisabled
    \/ Recognised(cp) = "A"        /\ RunA
    \/ Recognised(cp) = "B"        /\ RunB
    \/ Recognised(cp) = "C"        /\ RunC
    \/ Recognised(cp) = "D"        /\ RunD
    \/ Recognised(cp) = "E"        /\ RunE
    \/ Recognised(cp) = "F"        /\ RunF
    \/ Recognised(cp) = "DF"       /\ RunDF
-----------------------------------------------------------------------------
(* The environment: the tick interrupt, and the RCD, which opens the       *)
(* contactor by itself in its interrupt.                                   *)

Tick ==
    /\ pwmStop' = Aged(pwmStop)
    /\ lockCheck' = Aged(lockCheck)
    /\ pushed' = <<>>
    /\ UNCHANGED <<curState, curPwmRunning, powerOnAllowed, cpOut, prevState, prevPwmRunning,
                   simplifiedMode, threePhasesLatch, configVars, halVars>>

RcdFires ==
    /\ RcdFitted /\ rcdArmed /\ power
    /\ power' = FALSE
    /\ rcdFired' = TRUE
    /\ tripLatched' = TRUE
    /\ pushed' = <<>>
    /\ UNCHANGED <<curState, curPwmRunning, powerOnAllowed, cpOut, lockCheck, sessionVars,
                   configVars, rcdArmed, locked>>

Next ==
    \/ Message
    \/ \E cp \in Readings : Run(cp)
    \/ Tick
    \/ RcdFires
    \/ Configure

Spec == Init /\ [][Next]_vars
-----------------------------------------------------------------------------
(* Properties of the state machine alone.                                  *)

\* The contactor is closed only while the last recognised CP state is C or D:
\* every recognised reading of another state opens it (run(), lines 76-247).
PowerNeedsCar == power => prevState \in {"C", "D"}

\* A closed contactor whose last recognised reading was taken without PWM has
\* the countdown of "Sequence 10.2" running: no order of PWM changes and
\* readings closes or keeps the contactor without one of the two guards.
PwmStopGuard == power /\ ~prevPwmRunning => pwmStop.running

\* The RCD is armed whenever the contactor is closed, although power_off()
\* disarms it and only power_on() arms it again.
RcdGuardsPower == power => rcdArmed

\* The number of phases the contactor was closed with is not replaced under
\* load: the latch changes only in a run that leaves the contactor open.
PhasesFixedUnderLoad == [][threePhasesLatch' # threePhasesLatch => ~power']_vars

\* "Recosing of RCD is not allowed in these countries after a failure": the
\* fault flag of the power switch is cleared only where reclosing is allowed,
\* and only with the contactor open.
NoForbiddenReclose == [][tripLatched /\ ~tripLatched' => rcdReclosingAllowed /\ ~power']_vars

\* The lock is driven closed with the contactor ("lock connector here"), and
\* the countdown that run() polls is there to "stop LOCK motor": the connector
\* stays locked as long as the contactor is closed.
LockedUnderLoad == power => locked
=============================================================================
