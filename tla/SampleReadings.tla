--------------------------- MODULE SampleReadings ---------------------------
(* Measurements for model checking, one for every outcome of read_cp_state. *)
EXTENDS Integers

NoReading == [valid |-> FALSE, high |-> 0, low |-> 0]

\* PWM off: both parts of the period are at the same level.
Constant(v) == [valid |-> TRUE, high |-> v, low |-> v]

\* PWM on, with a working diode in the car.
Oscillating(v) == [valid |-> TRUE, high |-> v, low |-> -12000]

DiodeFault == [valid |-> TRUE, high |-> 6000, low |-> -6000]

\* 0 V is a short to PE.  While the PWM is off the low part does not matter, so
\* Oscillating(v) is also what a car at the level v shows then, and NoReading
\* stands for every voltage between two levels.
EveryReading ==
    {NoReading, DiodeFault, Constant(0), Constant(-12000)}
        \cup {Oscillating(v) : v \in {12000, 9000, 6000, 3000}}

\* What matters to a closed contactor.
LoadReadings ==
    {NoReading}
        \cup {Constant(v) : v \in {12000, 9000, 6000, -12000}}
        \cup {Oscillating(v) : v \in {6000, 3000}}
=============================================================================
