--------------------------- MODULE Iec61851Timed ---------------------------
(***************************************************************************)
(* The state machine in the main loop.  The loop waits at most             *)
(* FSM_WAIT_INTERVAL_MS for a message, handles it and calls run(); a tick  *)
(* stands for a time that no iteration exceeds, so between two ticks run() *)
(* is called at least once.  The CP may be unstable for at most            *)
(* MaxUnstableTicks ticks in a row.                                        *)
(***************************************************************************)
EXTENDS Iec61851Fsm

CONSTANT MaxUnstableTicks

\* A countdown is not polled again before the tick counter has gone round
\* once more: 49 days, less six seconds, of unstable readings.
ASSUME TimedAssumption == MaxUnstableTicks \in Nat /\ MaxUnstableTicks < TickWrap - PwmStopTicks

VARIABLES
    polled,    \* run() was called since the last tick
    gap,       \* ticks since a state was recognised
    offAge,    \* ticks for which the contactor has been closed without PWM
    disturbed  \* a reading was unstable in that time

clock == <<polled, gap, offAge, disturbed>>

\* The countdown starts in the iteration that sees the PWM stopped, which a tick
\* may separate from the stop itself.
Deadline == PwmStopTicks + 1

\* offAge is not counted any further than what tells the deadline missed.
OffAgeBound == Deadline + 1

Shedding == power /\ ~curPwmRunning

TimedTypeOK ==
    /\ TypeOK
    /\ polled \in BOOLEAN /\ disturbed \in BOOLEAN
    /\ gap \in 0 .. MaxUnstableTicks
    /\ offAge \in 0 .. OffAgeBound

TimedInit ==
    /\ Init
    /\ polled = FALSE /\ gap = 0 /\ offAge = 0 /\ disturbed = FALSE

HandleMessage ==
    /\ Message
    /\ offAge' = IF Shedding' THEN offAge ELSE 0
    /\ disturbed' = (disturbed /\ Shedding')
    /\ UNCHANGED <<polled, gap>>

\* With the longest disturbance behind it, the CP is stable again.
PollRun(cp) ==
    LET unstable == Recognised(cp) = Unstable
    IN /\ unstable => gap < MaxUnstableTicks
       /\ Run(cp)
       /\ polled' = TRUE
       /\ gap' = IF unstable THEN gap ELSE 0
       /\ offAge' = IF Shedding' THEN offAge ELSE 0
       /\ disturbed' = (Shedding' /\ (disturbed \/ unstable))

Poll == \E cp \in Readings : PollRun(cp)

TimedTick ==
    /\ polled /\ gap < MaxUnstableTicks
    /\ Tick
    /\ polled' = FALSE
    /\ gap' = gap + 1
    /\ offAge' = IF Shedding /\ offAge < OffAgeBound THEN offAge + 1 ELSE offAge
    /\ UNCHANGED disturbed

TimedNext == HandleMessage \/ Poll \/ TimedTick

TimedSpec ==
    /\ TimedInit /\ [][TimedNext]_<<vars, clock>>
    /\ WF_<<vars, clock>>(Poll) /\ WF_<<vars, clock>>(TimedTick)
-----------------------------------------------------------------------------
\* "EV does not stop drawing power even if PWM stops. Stop within 6 seconds":
\* with every reading recognised, a contactor closed without PWM is open in the
\* iteration that follows the deadline, whatever messages arrive on the way.
LoadShedInTime == Shedding /\ ~disturbed => offAge <= Deadline

\* The load is shed at last (or PWM comes back) also when readings are unstable
\* in between, and although the tick counter wraps while the countdown runs.
LoadEventuallyShed == Shedding ~> ~Shedding

\* disable() does not open the contactor, run() in the state Disabled does.
DisabledOpens == (curState = "Disabled" /\ power) ~> (~power \/ curState # "Disabled")
=============================================================================
