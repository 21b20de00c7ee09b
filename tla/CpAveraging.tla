---------------------------- MODULE CpAveraging -----------------------------
(***************************************************************************)
(* How a change of the control pilot reaches the state machine: every PWM  *)
(* period gives one sample of its high and one of its low part, the        *)
(* sampling task puts them into two AveragingRingBuffers and publishes the *)
(* averages, get_latest_cp_signal converts them into voltages and          *)
(* read_cp_state into a state.  The car and the PWM output change one at a *)
(* time, and at any time.                                                  *)
(***************************************************************************)
EXTENDS CpSignal, FiniteSets, Functions

CONSTANTS
    SampleSize,   \* CP_SAMPLE_SIZE
    MaxDeviation, \* CP_SAMPLE_MAX_DEVIATION
    MaxMisfits,   \* CP_SAMPLE_MAX_MISFITS
    CarLevels,    \* voltages a car may pull the high part of the CP to
    MaxHasty      \* bound: changes in a row that do not wait for the rings to settle

ASSUME AveragingAssumption ==
    /\ SampleSize \in Nat \ {0}
    /\ MaxDeviation \in Nat /\ MaxMisfits \in Nat /\ MaxHasty \in Nat
    /\ CarLevels \subseteq -12000 .. 12000

Slots == 0 .. SampleSize - 1
RawValues == 0 .. 4095
Rings == [values : [Slots -> RawValues], curIdx : Slots, filled : BOOLEAN,
          average : RawValues, misfits : 0 .. SampleSize]

VARIABLES
    highAvg, lowAvg, \* cp_high_avg, cp_low_avg
    rawSignal,       \* raw_cp_signal
    car, output,     \* level of the car, and what the PWM timer generates
    before,          \* history: what was to be read before the last change
    since,           \* history: frames since that change, up to SampleSize
    hasty            \* history: changes in a row that found the rings unsettled

vars == <<highAvg, lowAvg, rawSignal, car, output, before, since, hasty>>
-----------------------------------------------------------------------------
(* The pilot circuit and the converter.                                    *)

Outputs == {"P12", "N12", "PWM"}

\* The diode of the car leaves -12 V alone; a short to PE (0 V) does not.
HighLevel == IF output = "N12" /\ car # 0 THEN -12000 ELSE car
LowLevel == IF output # "P12" /\ car # 0 THEN -12000 ELSE car

\* What get_latest_cp_signal makes of a raw value, and the converter of a voltage.
Millivolt(raw) == (25010 * raw) \div 4096 - 11786
Raw(voltage) == IF voltage < -11786 THEN 0 ELSE ((voltage + 11786) * 4096) \div 25010
-----------------------------------------------------------------------------
(* AveragingRingBuffer::add_value                                          *)

\* (mutation) The last slot is left out.
CurIdxNextShort(i) == IF i + 2 >= SampleSize THEN 0 ELSE i + 1

CurIdxNext(i) == IF i + 1 = SampleSize THEN 0 ELSE i + 1

AverageOf(values) == FoldFunction(+, 0, values) \div SampleSize

Deviation(value, average) == IF value > average THEN value - average ELSE average - value

\* (mutation) Nothing is a misfit.
MisfitsOfNone(values, average) == 0

MisfitsOf(values, average) ==
    Cardinality({i \in Slots : Deviation(values[i], average) > MaxDeviation})

AddValue(ring, value) ==
    LET values == [ring.values EXCEPT ![ring.curIdx] = value]
        average == AverageOf(values)
    IN [values |-> values,
        curIdx |-> CurIdxNext(ring.curIdx),
        filled |-> ring.filled \/ CurIdxNext(ring.curIdx) = 0,
        average |-> average,
        misfits |-> MisfitsOf(values, average)]

EmptyRing == [values |-> [i \in Slots |-> 0], curIdx |-> 0, filled |-> FALSE,
              average |-> 0, misfits |-> 0]
-----------------------------------------------------------------------------
Init ==
    /\ highAvg = EmptyRing /\ lowAvg = EmptyRing
    /\ rawSignal = [valid |-> FALSE, high |-> 0, low |-> 0]
    /\ car \in CarLevels /\ output = "N12"
    /\ before = Unstable /\ since = 0 /\ hasty = 0

\* (mutation) A ring that is not full yet is trusted.
TrustedEarly(ring) == ring.misfits <= MaxMisfits

Trusted(ring) == ring.filled /\ ring.misfits <= MaxMisfits

\* The body of Sampler::loop with one sample of either part.
Frame(high, low) ==
    /\ highAvg' = AddValue(highAvg, high)
    /\ lowAvg' = AddValue(lowAvg, low)
    /\ rawSignal' = IF Trusted(highAvg') /\ Trusted(lowAvg')
                    THEN [valid |-> TRUE, high |-> highAvg'.average, low |-> lowAvg'.average]
                    ELSE [rawSignal EXCEPT !.valid = FALSE]

Sample ==
    /\ Frame(Raw(HighLevel), Raw(LowLevel))
    /\ since' = IF since < SampleSize THEN since + 1 ELSE since
    /\ UNCHANGED <<car, output, before, hasty>>

\* get_latest_cp_signal
CpSignal == [valid |-> rawSignal.valid,
             high |-> Millivolt(rawSignal.high), low |-> Millivolt(rawSignal.low)]

\* What run() reads in a state other than Disabled, and what it should read.
Reading == ReadCpState("A", output = "PWM", CpSignal)
Shown == ReadCpState("A", output = "PWM", [valid |-> TRUE, high |-> HighLevel, low |-> LowLevel])

\* The car moves, or the PWM output is set, between two frames or between the
\* two parts of a frame, of which either may be sampled first.
Change ==
    /\ \/ since = SampleSize /\ hasty' = 0
       \/ since < SampleSize /\ hasty < MaxHasty /\ hasty' = hasty + 1
    /\ \/ \E v \in CarLevels \ {car} : car' = v /\ UNCHANGED output
       \/ \E o \in Outputs \ {output} : output' = o /\ UNCHANGED car
    /\ before' = Shown /\ since' = 0

ChangeBetween == Change /\ UNCHANGED <<highAvg, lowAvg, rawSignal>>

ChangeWithin ==
    /\ Change
    /\ \/ Frame(Raw(HighLevel), Raw(LowLevel'))
       \/ Frame(Raw(HighLevel'), Raw(LowLevel))

Next == Sample \/ ChangeBetween \/ ChangeWithin

Spec == Init /\ [][Next]_vars
-----------------------------------------------------------------------------
AveragingTypeOK ==
    /\ highAvg \in Rings /\ lowAvg \in Rings
    /\ rawSignal \in [valid : BOOLEAN, high : RawValues, low : RawValues]
    /\ car \in CarLevels /\ output \in Outputs
    /\ since \in 0 .. SampleSize /\ hasty \in 0 .. MaxHasty

\* SampleSize frames after the last of any changes, and after the start, exactly
\* the state that the car and the PWM output show is read.
SettlesInTime == since = SampleSize => Reading = Shown

\* One slot of the ring holds something else than all the others.
OneOdd(ring) == \E i \in Slots : /\ \A j, k \in Slots \ {i} : ring.values[j] = ring.values[k]
                                 /\ \A j \in Slots \ {i} : ring.values[j] # ring.values[i]

\* A change of a settled signal is read as something that neither was nor is
\* there only while one of the rings holds a single sample from the other side of
\* the change (which CP_SAMPLE_MAX_MISFITS tolerates), and never before the rings
\* were filled.
DoubtIsShort ==
    hasty = 0 /\ Reading \notin {before, Shown, Unstable} =>
        (OneOdd(highAvg) \/ OneOdd(lowAvg)) /\ before # Unstable
=============================================================================
