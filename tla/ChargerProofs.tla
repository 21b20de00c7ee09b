--------------------------- MODULE ChargerProofs ----------------------------
(***************************************************************************)
(* The charger as a whole, for rings of every size, every set of levels    *)
(* and every interleaving of the two tasks with the car: it implements     *)
(* both of its components, and so keeps what is proved of each of them;    *)
(* what it does about the contactor for the car that is there needs both.  *)
(***************************************************************************)
EXTENDS ChargerSystem, Iec61851FsmProofs

PilotP == INSTANCE CpAveragingProofs WITH output <- cpOut

-----------------------------------------------------------------------------
(* Pilot and PilotP are instances of one module, the second together with   *)
(* its proofs: their definitions agree, one by one.                         *)

\* Sums and numbers of elements.
LEMMA SameFold ==
    ASSUME NEW f
    PROVE  Pilot!FoldFunction(+, 0, f) = PilotP!FoldFunction(+, 0, f)
  BY DEF Pilot!FoldFunction, PilotP!FoldFunction, Pilot!FoldFunctionOnSet, PilotP!FoldFunctionOnSet,
         Pilot!MapThenFoldSet, PilotP!MapThenFoldSet

LEMMA SameCardinality ==
    ASSUME NEW S
    PROVE  Pilot!Cardinality(S) = PilotP!Cardinality(S)
  BY DEF Pilot!Cardinality, PilotP!Cardinality

\* What becomes of a ring.
LEMMA SameAddValue ==
    ASSUME NEW ring, NEW value
    PROVE  Pilot!AddValue(ring, value) = PilotP!AddValue(ring, value)
  <1>1. \A f : Pilot!AverageOf(f) = PilotP!AverageOf(f)
    BY SameFold DEF Pilot!AverageOf, PilotP!AverageOf
  <1>2. \A f, a : Pilot!MisfitsOf(f, a) = PilotP!MisfitsOf(f, a)
    BY SameCardinality DEF Pilot!MisfitsOf, PilotP!MisfitsOf, Pilot!Deviation, PilotP!Deviation,
                           Pilot!Slots, PilotP!Slots
  <1> QED
    BY <1>1, <1>2 DEF Pilot!AddValue, PilotP!AddValue, Pilot!CurIdxNext, PilotP!CurIdxNext

\* The two parts of the CP, and what is read of them.
LEMMA SameLevels ==
    /\ Pilot!HighLevel = PilotP!HighLevel /\ Pilot!LowLevel = PilotP!LowLevel
    /\ Pilot!HighLevel' = PilotP!HighLevel' /\ Pilot!LowLevel' = PilotP!LowLevel'
    /\ Pilot!CpSignal = PilotP!CpSignal
    /\ \A v : Pilot!Raw(v) = PilotP!Raw(v)
  BY DEF Pilot!HighLevel, PilotP!HighLevel, Pilot!LowLevel, PilotP!LowLevel, Pilot!CpSignal,
         PilotP!CpSignal, Pilot!Millivolt, PilotP!Millivolt, Pilot!Raw, PilotP!Raw

\* read_cp_state, in the state machine and in both instances.
LEMMA SameRead ==
    ASSUME NEW state, NEW pwmRunning, NEW cp
    PROVE  /\ Pilot!ReadCpState(state, pwmRunning, cp) = ReadCpState(state, pwmRunning, cp)
           /\ PilotP!ReadCpState(state, pwmRunning, cp) = ReadCpState(state, pwmRunning, cp)
  BY DEF ReadCpState, Pilot!ReadCpState, PilotP!ReadCpState,
         StateOfBadLow, Pilot!StateOfBadLow, PilotP!StateOfBadLow,
         StateOfHigh, Pilot!StateOfHigh, PilotP!StateOfHigh,
         PositiveLevels, Pilot!PositiveLevels, PilotP!PositiveLevels,
         CpLevel, Pilot!CpLevel, PilotP!CpLevel, Interval, Pilot!Interval, PilotP!Interval,
         IsVoltageInRange, Pilot!IsVoltageInRange, PilotP!IsVoltageInRange,
         Unstable, Pilot!Unstable, PilotP!Unstable

LEMMA SameShown == Pilot!Shown = PilotP!Shown /\ Pilot!Reading = PilotP!Reading
  BY SameRead, SameLevels DEF Pilot!Shown, PilotP!Shown, Pilot!Reading, PilotP!Reading

\* The initial states and the steps.
LEMMA SameInit == Pilot!Init => PilotP!Init
  BY DEF Pilot!Init, PilotP!Init, Pilot!EmptyRing, PilotP!EmptyRing, Pilot!Slots, PilotP!Slots,
         Pilot!Unstable, PilotP!Unstable

LEMMA SameFrame ==
    ASSUME NEW high, NEW low
    PROVE  Pilot!Frame(high, low) <=> PilotP!Frame(high, low)
  BY SameAddValue DEF Pilot!Frame, PilotP!Frame, Pilot!Trusted, PilotP!Trusted

LEMMA SameNext == [Pilot!Next]_(Pilot!vars) => [PilotP!Next]_(PilotP!vars)
  <1>1. Pilot!Sample => PilotP!Sample
    BY SameFrame, SameLevels DEF Pilot!Sample, PilotP!Sample
  <1>2. Pilot!Change => PilotP!Change
    BY SameShown DEF Pilot!Change, PilotP!Change, Pilot!Outputs, PilotP!Outputs
  <1>3. Pilot!ChangeBetween => PilotP!ChangeBetween
    BY <1>2 DEF Pilot!ChangeBetween, PilotP!ChangeBetween
  <1>4. Pilot!ChangeWithin => PilotP!ChangeWithin
    BY <1>2, SameFrame, SameLevels DEF Pilot!ChangeWithin, PilotP!ChangeWithin
  <1> QED
    BY <1>1, <1>3, <1>4 DEF Pilot!Next, PilotP!Next, Pilot!vars, PilotP!vars

-----------------------------------------------------------------------------
(* The charger implements both of its components.                          *)

\* Calls that set another output, and only those, are changes of the pilot.
LEMMA PilotFollowing ==
    ASSUME PilotFollows
    PROVE  /\ [Pilot!Next]_(Pilot!vars)
           /\ cpOut' = cpOut => UNCHANGED ringVars
  BY DEF PilotFollows, Pilot!Next, Pilot!vars, ringVars

LEMMA StepsOfPilot == [ChargerNext]_chargerVars => [Pilot!Next]_(Pilot!vars)
  <1>1. Sampling => Pilot!Next
    BY DEF Sampling, Pilot!Next
  <1>2. CarChanges => Pilot!Next
    BY DEF CarChanges, Pilot!Next
  <1>3. RunOnPilot \/ OtherCall => [Pilot!Next]_(Pilot!vars)
    BY PilotFollowing DEF RunOnPilot, OtherCall
  <1>4. UNCHANGED chargerVars => UNCHANGED Pilot!vars
    BY DEF chargerVars, vars, ringVars, Pilot!vars
  <1> QED
    BY <1>1, <1>2, <1>3, <1>4 DEF ChargerNext

LEMMA StepsOfFsm == [ChargerNext]_chargerVars => [AnyNext]_vars
  <1>1. Sampling \/ CarChanges => UNCHANGED vars
    BY DEF Sampling, CarChanges
  <1>2. RunOnPilot \/ OtherCall => AnyNext
    BY DEF RunOnPilot, OtherCall, AnyNext
  <1> QED
    BY <1>1, <1>2 DEF ChargerNext, chargerVars

\* The rings, the car and the output behave as CpAveraging says: the main task
\* changes the output no more often and no differently than assumed there.
THEOREM ChargerKeepsPilot == ChargerSpec => Pilot!Spec
  BY StepsOfPilot, PTL DEF ChargerSpec, ChargerInit, Pilot!Spec

\* TypeOK, in the charger.
THEOREM ChargerTypes == ChargerSpec => []TypeOK
  <1>1. ChargerInit => TypeOK
    BY TypeInit DEF ChargerInit
  <1>2. TypeOK /\ [ChargerNext]_chargerVars => TypeOK'
    BY TypeStep, StepsOfFsm
  <1> QED
    BY <1>1, <1>2, PTL DEF ChargerSpec

\* The three safety properties of the contactor, in the charger.
LEMMA ChargerSafe ==
    ASSUME ~RelayCanStick
    PROVE  ChargerSpec => []Safety
  <1>1. ChargerInit => Safety
    BY SafetyInit DEF ChargerInit
  <1>2. TypeOK /\ Safety /\ [ChargerNext]_chargerVars => Safety'
    BY SafetyStep, StepsOfFsm
  <1> QED
    BY <1>1, <1>2, ChargerTypes, PTL DEF ChargerSpec

\* ImplementsContract: the state machine on the pilot that it drives and measures
\* implements the contract of the contactor, whatever the rings make of the car.
THEOREM ChargerKeepsContract ==
    ASSUME ~RelayCanStick
    PROVE  ChargerSpec => ImplementsContract
  <1>1. ChargerInit => Contract!Init
    BY DEF ChargerInit, Init, Contract!Init, DeadlineOf, Stopped
  <1>2. TypeOK /\ Safety /\ [ChargerNext]_chargerVars => [Contract!Next]_(Contract!contract)
    BY ContractStep, StepsOfFsm
  <1> QED
    BY <1>1, <1>2, ChargerTypes, ChargerSafe, PTL DEF ChargerSpec, ImplementsContract, Contract!Spec

\* What is known of the rings between any two steps of the charger.
LEMMA ChargerSettles == ChargerSpec => []PilotP!SettleInv
  <1>1. ChargerInit => PilotP!SettleInv
    BY SameInit, PilotP!SettleInit, ChargerAssumption DEF ChargerInit
  <1>2. PilotP!SettleInv /\ [ChargerNext]_chargerVars => PilotP!SettleInv'
    BY StepsOfPilot, SameNext, PilotP!SettleStep, ChargerAssumption
  <1> QED
    BY <1>1, <1>2, PTL DEF ChargerSpec

\* SettlesInTime, in the charger: one round after the last change, whoever made it,
\* run() in any state but Disabled would read what is there.
THEOREM ChargerReadsRight ==
    ASSUME PilotP!LevelsClear
    PROVE  ChargerSpec => []Pilot!SettlesInTime
  <1>1. PilotP!SettleInv => Pilot!SettlesInTime
    BY PilotP!SettledReading, ChargerAssumption, SameShown DEF PilotP!SettlesInTime, Pilot!SettlesInTime
  <1> QED
    BY <1>1, ChargerSettles, PTL

-----------------------------------------------------------------------------
(* The contactor and the car.                                              *)

\* A reading that is neither C nor D leaves the contactor open, or shows nothing
\* and leaves it alone.
LEMMA RunReads ==
    ASSUME TypeOK, ~RelayCanStick, PowerNeedsCar, NEW cp, Run(cp)
    PROVE  /\ power' => Recognised(cp) \in {"C", "D", Unstable}
           /\ power' /\ ~power => Recognised(cp) \in {"C", "D"} /\ MayClose
  <1>1. CASE Recognised(cp) = Unstable /\ RunUnstable
    BY <1>1 DEF RunUnstable
  <1>2. CASE RunDisabled \/ RunA \/ RunB \/ RunE \/ RunF \/ RunDF
    BY <1>2, OtherStatesOpen
  <1>3. CASE Recognised(cp) \in {"C", "D"} /\ (RunC \/ RunD)
    BY <1>3, ServeMoves DEF TypeOK
  <1> QED
    BY <1>1, <1>2, <1>3 DEF Run

\* A state machine that is not disabled reads what any other would.
LEMMA ReadsAsAny ==
    ASSUME NEW cp, Recognised(cp) \in {"C", "D", Unstable}
    PROVE  Recognised(cp) = ReadCpState("A", curPwmRunning, cp)
  BY DEF Recognised, ReadCpState, Unstable

\* With the rings settled and the output as told, run() recognises what the car
\* and the output show.
LEMMA RecognisesShown ==
    ASSUME TypeOK, PilotP!LevelsClear, PilotP!SettleInv, since = SampleSize, OutputAsTold,
           Recognised(Pilot!CpSignal) \in {"C", "D", Unstable}
    PROVE  Recognised(Pilot!CpSignal) = Pilot!Shown
  <1>1. PilotP!Reading = PilotP!Shown
    BY PilotP!SettledReading, ChargerAssumption DEF PilotP!SettlesInTime
  <1>2. Recognised(Pilot!CpSignal) = ReadCpState("A", curPwmRunning, Pilot!CpSignal)
    BY ReadsAsAny
  <1>3. curPwmRunning = (cpOut = "PWM")
    BY DEF OutputAsTold, TypeOK
  <1> QED
    BY <1>1, <1>2, <1>3, SameShown, SameRead DEF Pilot!Reading

\* What the car and the output show changes with them only.
LEMMA ShownKept ==
    ASSUME UNCHANGED <<car, cpOut>>
    PROVE  Pilot!Shown' = Pilot!Shown
  BY DEF Pilot!Shown, Pilot!HighLevel, Pilot!LowLevel, Pilot!ReadCpState, Pilot!StateOfBadLow,
         Pilot!StateOfHigh, Pilot!PositiveLevels, Pilot!CpLevel, Pilot!Interval,
         Pilot!IsVoltageInRange, Pilot!Unstable

LEMMA FitsStep ==
    ASSUME TypeOK, Safety, PilotP!SettleInv, ~RelayCanStick, PilotP!LevelsClear,
           ContactorFitsCar, [ChargerNext]_chargerVars
    PROVE  ContactorFitsCar'
  <1>1. CASE Sampling \/ UNCHANGED chargerVars
    <2>1. UNCHANGED <<car, cpOut, power, served>>
      BY <1>1 DEF Sampling, Pilot!Sample, chargerVars, vars, halVars, ringVars
    <2> QED
      BY <2>1, ShownKept DEF ContactorFitsCar
  <1>2. CASE CarChanges
    BY <1>2 DEF CarChanges, ContactorFitsCar
  <1>3. CASE OtherCall
    <2> SUFFICES ASSUME served', power' PROVE Pilot!Shown' \in {"C", "D", Unstable}
      BY DEF ContactorFitsCar
    <2>1. served /\ cpOut' = cpOut /\ car' = car
      BY <1>3, PilotFollowing DEF OtherCall, ringVars
    <2>2. power
      BY <1>3 DEF OtherCall, Message, SetPwmOff, SetPwmOn, SetPwmF, Enable, Disable, AllowPowerOn,
                  Configure, Tick, RcdFires, halVars
    <2> QED
      BY <2>1, <2>2, ShownKept DEF ContactorFitsCar
  <1>4. CASE RunOnPilot
    <2> SUFFICES ASSUME served', power' PROVE Pilot!Shown' \in {"C", "D", Unstable}
      BY DEF ContactorFitsCar
    <2>1. cpOut' = cpOut /\ OutputAsTold /\ since = SampleSize /\ car' = car
      BY <1>4, PilotFollowing DEF RunOnPilot, ringVars
    <2>2. Recognised(Pilot!CpSignal) \in {"C", "D", Unstable}
      BY <1>4, RunReads DEF RunOnPilot, Safety
    <2>3. Pilot!Shown \in {"C", "D", Unstable}
      BY <2>1, <2>2, RecognisesShown
    <2> QED
      BY <2>1, <2>3, ShownKept
  <1> QED
    BY <1>1, <1>2, <1>3, <1>4 DEF ChargerNext

\* ContactorFitsCar: one round of the rings after the last change of car or output,
\* the run() that follows brings the contactor into line with the car that is
\* there, and nothing but the next change can undo it; whatever the state machine
\* read in between, and however sampling and run() interleave.
THEOREM ContactorFits ==
    ASSUME ~RelayCanStick, PilotP!LevelsClear
    PROVE  ChargerSpec => []ContactorFitsCar
  <1>1. ChargerInit => ContactorFitsCar
    BY DEF ChargerInit, ContactorFitsCar
  <1>2. TypeOK /\ Safety /\ PilotP!SettleInv /\ ContactorFitsCar /\ [ChargerNext]_chargerVars
        => ContactorFitsCar'
    BY FitsStep
  <1> QED
    BY <1>1, <1>2, ChargerTypes, ChargerSafe, ChargerSettles, PTL DEF ChargerSpec

LEMMA ClosesStep ==
    ASSUME TypeOK, Safety, PilotP!SettleInv, ~RelayCanStick, PilotP!LevelsClear, ChargerNext,
           ~power, power', since = SampleSize
    PROVE  Pilot!Shown \in {"C", "D"}
  <1>1. RunOnPilot
    BY DEF ChargerNext, Sampling, CarChanges, OtherCall, Message, SetPwmOff, SetPwmOn, SetPwmF,
           Enable, Disable, AllowPowerOn, Configure, Tick, RcdFires, halVars, vars
  <1>2. Recognised(Pilot!CpSignal) \in {"C", "D"} /\ curPwmRunning
    BY <1>1, RunReads DEF RunOnPilot, Safety, MayClose
  <1>3. cpOut = "PWM"
    <2>1. curPwmRunning = TRUE
      BY <1>2 DEF TypeOK
    <2>2. Recognised(Pilot!CpSignal) = ReadCpState("A", curPwmRunning, Pilot!CpSignal)
      <3>1. Recognised(Pilot!CpSignal) \in {"C", "D", Unstable}
        BY <1>2
      <3> QED
        BY <3>1, ReadsAsAny
    <2>3. ReadCpState("A", TRUE, Pilot!CpSignal) = PilotP!ReadAsPwm
      BY SameRead, SameLevels DEF PilotP!ReadAsPwm
    <2>4. cpOut # "PWM" => PilotP!ReadAsPwm \notin {"C", "D"}
      BY PilotP!ConstantNotServed, ChargerAssumption
    <2> QED
      BY <1>2, <2>1, <2>2, <2>3, <2>4
  <1> QED
    BY <1>2, <1>3, RecognisesShown DEF OutputAsTold

\* ClosesForCar: with settled rings run() never closes the contactor for a car
\* that is not there, also when a duty cycle of 0 or 1 makes it take a constant
\* output for a PWM.
THEOREM ClosesForCars ==
    ASSUME ~RelayCanStick, PilotP!LevelsClear
    PROVE  ChargerSpec => ClosesForCar
  <1>1. TypeOK /\ Safety /\ PilotP!SettleInv /\ [ChargerNext]_chargerVars
        => [~power /\ power' /\ since = SampleSize => Pilot!Shown \in {"C", "D"}]_chargerVars
    BY ClosesStep
  <1> QED
    BY <1>1, ChargerTypes, ChargerSafe, ChargerSettles, PTL DEF ChargerSpec, ClosesForCar
=============================================================================
