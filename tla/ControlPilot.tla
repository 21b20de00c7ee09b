---------------------------- MODULE ControlPilot ----------------------------
(***************************************************************************)
(* The PWM output of the control pilot (control_pilot.cpp) and the timer it*)
(* drives.  The timer is external: it counts up to the end of its word,    *)
(* reloads, and raises a flag at the overflow and at the match.  When it is*)
(* triggered the overflow begins the high part of the period and the match *)
(* the low part, as pwm_timer_isr takes them; otherwise SCPWM is the level.*)
(* The interrupt is served late by up to Latency ticks; a set_pwm of the   *)
(* main task may be interrupted between its two registers.                 *)
(***************************************************************************)
EXTENDS Integers

CONSTANTS
    Word,         \* size of a timer register, 2^32 on the board
    Period,       \* TIMER_TICKS_PER_FULL_PWM_PERIOD
    Latency,      \* ticks an interrupt waits at most
    Duties,       \* duty cycles, in thousandths
    MaxCommands   \* bound: calls of set_pwm

ASSUME PilotAssumption ==
    /\ Period \in Nat /\ Period >= 100 /\ Word \in Nat /\ Word > Period
    /\ Latency \in 0 .. Period - 1 /\ Duties \subseteq Int /\ MaxCommands \in Nat

VARIABLES
    counter,    \* TCRR
    tmar,       \* the match register
    trg, scpwm, \* TCLR: is the output triggered, and its level when it is not
    out,        \* the output
    irq,        \* IRQSTATUS
    waited,     \* how long each flag has been set

    step,       \* of set_pwm: "out", "match" (TMAR is next), "control" (TCLR is next)
    ticks,      \* match_ticks of that call
    asked,      \* the duty cycle set last
    commands,

    still,      \* history: overflows since the last register write, at most two
    high,       \* history: ticks the output was high since the last overflow
    delivered,  \* history: the same for the last whole period, -1 if it was disturbed
    sample      \* history: the last trigger of the sampler

timer == <<counter, tmar, trg, scpwm, out, irq, waited>>
call == <<step, ticks, asked, commands>>
history == <<still, high, delivered, sample>>
vars == <<timer, call, history>>

Flags == {"overflow", "match"}
Reload == Word - 1 - Period + 1
Min2(a, b) == IF a < b THEN a ELSE b

\* 100 * duty_cycle, truncated: in single precision 53 and 59 per cent come out lower.
Percent(duty) == duty \div 10 - (IF duty \in {530, 590} THEN 1 ELSE 0)

\* (mutation) The match is taken to end the low part.
calculate_match_ticksInverted(duty_cycle) == (Min2(duty_cycle, 100) * Period) \div 100

calculate_match_ticks(duty_cycle) == ((100 - Min2(duty_cycle, 100)) * Period) \div 100

MatchWord(match_ticks) == (Word - 1 - match_ticks + 1) % Word

\* The constructor: half a period, output not triggered and low, running.
Init ==
    /\ counter = Reload /\ tmar = MatchWord(calculate_match_ticks(50))
    /\ trg = FALSE /\ scpwm = 0 /\ out = 0
    /\ irq = {} /\ waited = [flag \in Flags |-> 0]
    /\ step = "out" /\ ticks = 0 /\ asked = 0 /\ commands = 0
    /\ still = 0 /\ high = 0 /\ delivered = -1 /\ sample = [half |-> "none", level |-> 0, steady |-> FALSE]

-----------------------------------------------------------------------------
\* One tick.  The interrupt is never held back longer than Latency.
Raised == (IF counter = Word - 1 THEN {"overflow"} ELSE {})
             \cup (IF counter' = tmar THEN {"match"} ELSE {})

Tick ==
    /\ \A flag \in irq : waited[flag] < Latency
    /\ counter' = IF counter = Word - 1 THEN Reload ELSE counter + 1
    /\ irq' = irq \cup Raised
    /\ waited' = [flag \in Flags |-> IF flag \in irq THEN waited[flag] + 1 ELSE 0]
    /\ out' = CASE trg /\ "match" \in Raised   -> 0
                [] trg /\ Raised = {"overflow"} -> 1
                [] OTHER                        -> out
    /\ CASE step # "out" -> UNCHANGED <<delivered, still, high>>
         [] step = "out" /\ "overflow" \in Raised ->
              /\ delivered' = IF still >= 1 THEN high + out ELSE -1
              /\ still' = Min2(still + 1, 2) /\ high' = 0
         [] OTHER ->
              /\ high' = IF still = 0 THEN 0 ELSE high + out
              /\ UNCHANGED <<delivered, still>>
    /\ UNCHANGED <<tmar, trg, scpwm, call, sample>>

\* (mutation) The overflow is taken for the begin of the low part.
HalfOfSwapped(flag) == IF flag = "overflow" THEN "low" ELSE "high"

HalfOf(flag) == IF flag = "overflow" THEN "high" ELSE "low"

\* pwm_timer_isr: one flag per interrupt, the overflow first.
pwm_timer_isr ==
    /\ irq # {}
    /\ LET flag == IF "overflow" \in irq THEN "overflow" ELSE "match"
       IN  /\ irq' = irq \ {flag}
           /\ waited' = [waited EXCEPT ![flag] = 0]
           /\ sample' = [half |-> HalfOf(flag), level |-> out, steady |-> trg /\ still = 2]
    /\ UNCHANGED <<counter, tmar, trg, scpwm, out, call, still, high, delivered>>

\* (mutation) The match register is written for a constant output, too.
WritesMatchAlways(match_ticks) == TRUE

WritesMatch(match_ticks) == match_ticks # 0 /\ match_ticks < Period

Pulsing(match_ticks) == match_ticks # 0 /\ match_ticks < Period

set_pwm(duty) ==
    /\ step = "out" /\ commands < MaxCommands
    /\ commands' = commands + 1
    /\ asked' = duty
    /\ ticks' = calculate_match_ticks(IF duty < 0 THEN 0 ELSE Percent(duty))
    /\ step' = IF WritesMatch(ticks') THEN "match" ELSE "control"
    /\ still' = 0 /\ high' = 0 /\ delivered' = -1
    /\ sample' = [sample EXCEPT !.steady = FALSE]
    /\ UNCHANGED timer

enable == set_pwm(1000)
disable == set_pwm(0)

WriteMatch ==
    /\ step = "match"
    /\ tmar' = MatchWord(ticks)
    /\ step' = "control"
    /\ still' = 0 /\ high' = 0 /\ delivered' = -1
    /\ UNCHANGED <<counter, trg, scpwm, out, irq, waited, ticks, asked, commands, sample>>

WriteControl ==
    /\ step = "control"
    /\ trg' = Pulsing(ticks) /\ scpwm' = IF ticks = 0 THEN 1 ELSE 0
    /\ out' = IF trg' THEN out ELSE scpwm'
    /\ step' = "out" /\ ticks' = 0
    /\ still' = 0 /\ high' = 0 /\ delivered' = -1
    /\ UNCHANGED <<counter, tmar, irq, waited, asked, commands, sample>>

Next ==
    \/ Tick \/ pwm_timer_isr
    \/ (\E duty \in Duties : set_pwm(duty)) \/ enable \/ disable
    \/ WriteMatch \/ WriteControl

Spec ==
    /\ Init /\ [][Next]_vars
    /\ WF_vars(Tick) /\ WF_vars(pwm_timer_isr) /\ WF_vars(WriteMatch \/ WriteControl)

-----------------------------------------------------------------------------
(* Properties *)

\* A period that no call disturbs is high for the duty cycle asked for, whatever
\* the timer was doing when it was set: never longer than that by a whole tick,
\* as the car takes it for a permission to draw current, and less than two per
\* cent of the period shorter (set_pwm, calculate_match_ticks).
Clipped == IF asked < 0 THEN 0 ELSE Min2(asked, 1000)
DutyDelivered ==
    delivered >= 0 =>
        /\ 1000 * delivered < Clipped * Period + 1000
        /\ 1000 * delivered > (Clipped - 20) * Period

\* Once the output is steady the sampler is triggered for the high part while the
\* output is high and for the low part while it is low, as long as that part is
\* not shorter than the interrupt may be late.
HighPart == tmar - Reload
SampledInPart ==
    sample.steady =>
        /\ sample.half = "high" /\ HighPart > Latency => sample.level = 1
        /\ sample.half = "low" /\ Period - HighPart > Latency => sample.level = 0

\* Whatever was set before, also a constant output, both triggers keep coming: the
\* sampler completes a frame only when it has had both.
TriggersComplete == []<>(sample.half = "high") /\ []<>(sample.half = "low")
=============================================================================
