------------------------------ MODULE CpSignal ------------------------------
(***************************************************************************)
(* How FSM::read_cp_state turns the latest control pilot (CP) measurement  *)
(* into an IEC 61851 state.  Voltages are integers in millivolt; a         *)
(* measurement is what IControlPilot::get_cp_signal() returns: a flag and  *)
(* the voltages of the high and of the low part of the PWM period.         *)
(***************************************************************************)
EXTENDS Integers

CPStates == {"Disabled", "A", "B", "C", "D", "E", "F", "DF"}

\* What read_cp_state "returns" when it returns false: no state was recognised.
Unstable == "Unstable"

CpSignals == [valid : BOOLEAN, high : Int, low : Int]

\* Tolerance around the nominal level, 1.1 V.
Interval == 1100

IsVoltageInRange(voltage, center) ==
    /\ voltage > center - Interval
    /\ voltage < center + Interval

\* Nominal level of the high part in the states that are told apart by it alone.
CpLevel == [A |-> 12000, B |-> 9000, C |-> 6000, D |-> 3000, F |-> -12000]

PositiveLevels(high) == {s \in DOMAIN CpLevel : IsVoltageInRange(high, CpLevel[s])}

\* The state of the high part; the levels are further apart than two
\* intervals, so at most one of them is in range.
StateOfHigh(high) ==
    IF PositiveLevels(high) = {} THEN Unstable ELSE CHOOSE s \in PositiveLevels(high) : TRUE

\* The PWM is on and its low part is not at -12 V: a short circuit from CP
\* to PE, a diode fault, or nothing that makes sense.
StateOfBadLow(cp) ==
    IF IsVoltageInRange(cp.low, 0) /\ IsVoltageInRange(cp.high, 0) THEN "E"
    ELSE IF IsVoltageInRange(cp.high + cp.low, 0) THEN "DF"
    ELSE Unstable

\* read_cp_state called with the state "state" while the PWM is (not) running.
ReadCpState(state, pwmRunning, cp) ==
    IF ~cp.valid THEN Unstable
    ELSE IF state = "Disabled" THEN "Disabled"
    ELSE IF pwmRunning /\ ~IsVoltageInRange(cp.low, -12000) THEN StateOfBadLow(cp)
    ELSE StateOfHigh(cp.high)
=============================================================================
