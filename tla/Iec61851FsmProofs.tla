------------------------- MODULE Iec61851FsmProofs -------------------------
(***************************************************************************)
(* What is proved of the state machine for every set of readings and every *)
(* value of the periods and of the tick counter's range.                   *)
(***************************************************************************)
EXTENDS Iec61851Refinement, SequenceTheorems, TLAPS

-----------------------------------------------------------------------------
(* Lemmas about the helpers. *)

\* A single event, and no event, as a sequence of events.
LEMMA EventSeqs ==
    /\ <<>> \in Seq(Events)
    /\ \A event \in Events : <<event>> \in Seq(Events)
  OBVIOUS

\* When() is a sequence of at most one event.
LEMMA WhenType ==
    ASSUME NEW condition, NEW event \in Events
    PROVE  When(condition, event) \in Seq(Events)
  BY EventSeqs DEF When

\* The events of a switch command are a sequence of events.
LEMMA PowerEventsType ==
    ASSUME NEW command \in Commands
    PROVE  PowerEvents(command) \in Seq(Events)
  <1>1. {"Error_Relais", "PowerOn", "PowerOff"} \subseteq Events
    BY DEF Events
  <1> QED
    BY <1>1, EventSeqs DEF PowerEvents

\* A countdown stays a countdown when it ages.
LEMMA AgedType ==
    ASSUME NEW c \in Countdowns
    PROVE  Aged(c) \in Countdowns /\ (Aged(c).running <=> c.running)
  BY FsmAssumption DEF Aged, Countdowns

\* A started and a stopped countdown.
LEMMA CountdownType == Started \in Countdowns /\ Stopped \in Countdowns
  BY FsmAssumption DEF Started, Stopped, Countdowns

\* Typing of what a switch command assigns.
LEMMA ContactorType ==
    ASSUME TypeOK, NEW command \in Commands, Contactor(command)
    PROVE  /\ power' \in BOOLEAN /\ rcdArmed' \in BOOLEAN
           /\ locked' \in BOOLEAN /\ lockCheck' \in Countdowns
  <1>1. CASE ~Switches(command)
    BY <1>1, CountdownType DEF Contactor, PollLockCheck, TypeOK
  <1>2. CASE Switches(command)
    <2>1. Feedback(command = "on") \subseteq BOOLEAN
      BY DEF Feedback
    <2> QED
      BY <1>2, <2>1, CountdownType DEF Contactor, RcdAfter
  <1> QED
    BY <1>1, <1>2

\* Where relays do not stick, the contactor ends up where the command wants it.
LEMMA ContactorObeys ==
    ASSUME TypeOK, ~RelayCanStick, NEW command \in Commands, Contactor(command)
    PROVE  /\ command = "on"   => power' = TRUE
           /\ command = "off"  => power' = FALSE
           /\ command = "keep" => power' = power
           /\ rcdArmed' = IF power' # power THEN power' ELSE rcdArmed
  <1> USE DEF Commands
  <1>1. CASE ~Switches(command)
    BY <1>1 DEF Contactor, Switches, TypeOK
  <1>2. CASE Switches(command)
    BY <1>2 DEF Contactor, Switches, Feedback, RcdAfter, TypeOK
  <1> QED
    BY <1>1, <1>2

\* Some command and some events are sent for the recognised state.
Reports(state) ==
    \E command \in Commands, before \in Seq(Events), after \in Seq(Events) :
        Recognise(state, command, before, after)

\* Typing of what every recognised state assigns.
LEMMA ReportsType ==
    ASSUME TypeOK, curPwmRunning' \in BOOLEAN, NEW state \in CPStates, Reports(state)
    PROVE  /\ curState' \in CPStates /\ prevState' \in CPStates
           /\ prevPwmRunning' \in BOOLEAN
           /\ lockCheck' \in Countdowns
           /\ useThreePhases' \in BOOLEAN
           /\ hasVentilation' \in BOOLEAN /\ rcdReclosingAllowed' \in BOOLEAN
           /\ power' \in BOOLEAN /\ rcdArmed' \in BOOLEAN /\ rcdFired' \in BOOLEAN
           /\ locked' \in BOOLEAN
           /\ pushed' \in Seq(Events)
  <1> PICK command \in Commands, before \in Seq(Events), after \in Seq(Events) :
             Recognise(state, command, before, after)
    BY DEF Reports
  <1>1. /\ power' \in BOOLEAN /\ rcdArmed' \in BOOLEAN
        /\ locked' \in BOOLEAN /\ lockCheck' \in Countdowns
    BY ContactorType DEF Recognise
  <1>2. /\ When(rcdFired, "Error_RCD") \in Seq(Events)
        /\ PowerEvents(command) \in Seq(Events)
    BY WhenType, PowerEventsType DEF Events
  <1>3. pushed' \in Seq(Events)
    <2>1. When(rcdFired, "Error_RCD") \o before \in Seq(Events)
      BY <1>2, ConcatProperties
    <2>2. (When(rcdFired, "Error_RCD") \o before) \o PowerEvents(command) \in Seq(Events)
      BY <2>1, <1>2, ConcatProperties
    <2>3. ((When(rcdFired, "Error_RCD") \o before) \o PowerEvents(command)) \o after \in Seq(Events)
      BY <2>2, ConcatProperties
    <2> QED
      BY <2>3 DEF Recognise
  <1>4. /\ curState' \in CPStates /\ prevState' \in CPStates
        /\ prevPwmRunning' \in BOOLEAN /\ rcdFired' \in BOOLEAN
        /\ useThreePhases' \in BOOLEAN
        /\ hasVentilation' \in BOOLEAN /\ rcdReclosingAllowed' \in BOOLEAN
    BY DEF Recognise, TypeOK, configVars
  <1> QED
    BY <1>1, <1>3, <1>4

\* Every recognised state is reported that way.
LEMMA RunReports ==
    /\ RunDisabled => Reports("Disabled")
    /\ RunA => Reports("A")
    /\ RunB => Reports("B")
    /\ RunC => Reports("C")
    /\ RunD => Reports("D")
    /\ RunE => Reports("E")
    /\ RunF => Reports("F")
    /\ RunDF => Reports("DF")
  <1> USE EventSeqs DEF Reports
  <1>c. "on" \in Commands /\ "off" \in Commands /\ "keep" \in Commands
    BY DEF Commands
  <1>w. \A event \in Events : \A b : When(b, event) \in Seq(Events)
    BY WhenType
  <1>e. /\ "CarPluggedIn" \in Events /\ "CarRequestedPower" \in Events
        /\ "CarRequestedStopPower" \in Events /\ "CarUnplugged" \in Events
        /\ "Error_E" \in Events /\ "Error_DF" \in Events
        /\ "Error_VentilationNotAvailable" \in Events
        /\ "EF_To_BCD" \in Events /\ "BCD_To_EF" \in Events
    BY DEF Events
  <1>o. \A s, t \in Seq(Events) : s \o t \in Seq(Events)
    BY ConcatProperties
  <1> HIDE EventSeqs
  <1>1. RunDisabled => Reports("Disabled")
    BY <1>c, EventSeqs DEF RunDisabled
  <1>2. RunA => Reports("A")
    BY <1>c, <1>w, <1>e DEF RunA
  <1>3. RunB => Reports("B")
    BY <1>c, <1>w, <1>e, <1>o DEF RunB
  <1>4. RunC => Reports("C")
    <2>1. CommandInC \in Commands
      BY <1>c DEF CommandInC
    <2> QED
      BY <2>1, <1>w, <1>e, <1>o DEF RunC
  <1>5. RunD => Reports("D")
    <2>1. CommandInD \in Commands
      BY <1>c DEF CommandInD
    <2> QED
      BY <2>1, <1>w, <1>e, <1>o DEF RunD
  <1>6. RunE => Reports("E")
    BY <1>c, <1>w, <1>e, <1>o, EventSeqs DEF RunE
  <1>7. RunF => Reports("F")
    BY <1>c, <1>w, <1>e, EventSeqs DEF RunF
  <1>8. RunDF => Reports("DF")
    BY <1>c, <1>w, <1>e, <1>o, EventSeqs DEF RunDF
  <1> QED
    BY <1>1, <1>2, <1>3, <1>4, <1>5, <1>6, <1>7, <1>8
-----------------------------------------------------------------------------
(* Type correctness. *)

\* Every method called for a message, and every setter, keeps the types.
LEMMA MessageType ==
    ASSUME TypeOK, Message \/ Configure \/ RcdFires
    PROVE  TypeOK'
  <1> USE DEF TypeOK, PwmOff, sessionVars, configVars, halVars
  <1>9. /\ "A" \in CPStates /\ "F" \in CPStates /\ "Disabled" \in CPStates
        /\ "P12" \in PilotOutputs /\ "N12" \in PilotOutputs
    BY DEF CPStates, PilotOutputs
  <1>0. pushed' \in Seq(Events)
    BY EventSeqs
       DEF Message, SetPwmOff, SetPwmOn, SetPwmF, Enable, Disable, AllowPowerOn, Configure, RcdFires
  <1>1. CASE SetPwmOff                                            BY <1>0, <1>9, <1>1 DEF SetPwmOff
  <1>2. CASE \E output \in PilotOutputs : SetPwmOn(output)        BY <1>0, <1>9, <1>2 DEF SetPwmOn
  <1>3. CASE SetPwmF                                              BY <1>0, <1>9, <1>3 DEF SetPwmF
  <1>4. CASE Enable                                               BY <1>0, <1>9, <1>4 DEF Enable
  <1>5. CASE Disable                                              BY <1>0, <1>9, <1>5 DEF Disable
  <1>6. CASE \E enable \in BOOLEAN : AllowPowerOn(enable)         BY <1>0, <1>9, <1>6 DEF AllowPowerOn
  <1>7. CASE Configure                                            BY <1>0, <1>9, <1>7 DEF Configure
  <1>8. CASE RcdFires                                             BY <1>0, <1>9, <1>8 DEF RcdFires
  <1> QED
    BY <1>1, <1>2, <1>3, <1>4, <1>5, <1>6, <1>7, <1>8 DEF Message

\* The tick keeps the types.
LEMMA TickType ==
    ASSUME TypeOK, Tick
    PROVE  TypeOK'
  <1>1. pwmStop' \in Countdowns /\ lockCheck' \in Countdowns
    BY AgedType DEF TypeOK, Tick
  <1>2. pushed' \in Seq(Events)
    BY EventSeqs DEF Tick
  <1> QED
    BY <1>1, <1>2 DEF TypeOK, Tick, configVars, halVars

\* What run() assigns besides, in every state it recognises.
LEMMA RunOthersType ==
    ASSUME TypeOK,
           RunDisabled \/ RunA \/ RunB \/ RunC \/ RunD \/ RunE \/ RunF \/ RunDF
    PROVE  /\ curPwmRunning' \in BOOLEAN /\ powerOnAllowed' \in BOOLEAN
           /\ simplifiedMode' \in BOOLEAN /\ threePhasesLatch' \in BOOLEAN
           /\ tripLatched' \in BOOLEAN
           /\ pwmStop' \in Countdowns
           /\ cpOut' \in PilotOutputs
  <1>0. "P12" \in PilotOutputs
    BY DEF PilotOutputs
  <1>1. CASE RunDisabled  BY <1>1 DEF RunDisabled, TypeOK
  <1>2. CASE RunA         BY <1>0, <1>2 DEF RunA, PwmOff, TypeOK
  <1>3. CASE RunB         BY <1>3 DEF RunB, KeepPilot, TypeOK
  <1>4. CASE RunC         BY <1>4, CountdownType DEF RunC, KeepPilot, PwmStopNext, TypeOK
  <1>5. CASE RunD         BY <1>5, CountdownType DEF RunD, KeepPilot, PwmStopNext, TypeOK
  <1>6. CASE RunE         BY <1>0, <1>6 DEF RunE, PwmOff, TypeOK
  <1>7. CASE RunF         BY <1>7 DEF RunF, KeepPilot, TypeOK
  <1>8. CASE RunDF        BY <1>8 DEF RunDF, KeepPilot, TypeOK
  <1> QED
    BY <1>1, <1>2, <1>3, <1>4, <1>5, <1>6, <1>7, <1>8

\* run() keeps the types.
LEMMA RunType ==
    ASSUME TypeOK, NEW cp, Run(cp)
    PROVE  TypeOK'
  <1>1. CASE RunUnstable
    <2>1. locked' \in BOOLEAN /\ lockCheck' \in Countdowns
      BY <1>1, CountdownType DEF RunUnstable, PollLockCheck, TypeOK
    <2>2. pushed' \in Seq(Events)
      BY <1>1, WhenType DEF RunUnstable, Events
    <2> QED
      BY <1>1, <2>1, <2>2 DEF RunUnstable, KeepPilot, TypeOK, sessionVars, configVars
  <1>2. CASE RunDisabled \/ RunA \/ RunB \/ RunC \/ RunD \/ RunE \/ RunF \/ RunDF
    <2>1. PICK state \in CPStates : Reports(state)
      BY <1>2, RunReports DEF CPStates
    <2> QED
      BY <1>2, <2>1, RunOthersType, ReportsType DEF TypeOK
  <1> QED
    BY <1>1, <1>2 DEF Run

\* A step with any measurement at all, so that the steps of a system which
\* delivers its own measurements (ChargerSystem) are covered as well.
AnyNext ==
    \/ Message
    \/ \E cp : Run(cp)
    \/ Tick
    \/ RcdFires
    \/ Configure

LEMMA NextIsAny == [Next]_vars => [AnyNext]_vars
  BY DEF Next, AnyNext

\* The initial states have the types, and every step keeps them.
LEMMA TypeInit == Init => TypeOK
  BY EventSeqs, CountdownType DEF Init, TypeOK, CPStates, PilotOutputs

LEMMA TypeStep == TypeOK /\ [AnyNext]_vars => TypeOK'
  <1> SUFFICES ASSUME TypeOK, [AnyNext]_vars PROVE TypeOK'
    OBVIOUS
  <1>1. CASE UNCHANGED vars
    BY <1>1 DEF vars, TypeOK, sessionVars, configVars, halVars
  <1> QED
    BY <1>1, MessageType, TickType, RunType DEF AnyNext

\* TypeOK: no sequence of messages, readings, ticks and RCD events makes the
\* state machine leave its types; in particular every call sends a finite
\* sequence of the events of enum Event.
THEOREM TypeCorrect == Spec => []TypeOK
  BY TypeInit, TypeStep, NextIsAny, PTL DEF Spec
-----------------------------------------------------------------------------
(* The contactor, where relays do not stick (PowerSwitch of this board).    *)

\* PowerNeedsCar is what RunA and RunB rely on when they do not even try to open
\* the contactor; it is inductive only together with the typing of prevState.
Safety == PowerNeedsCar /\ PwmStopGuard /\ RcdGuardsPower

\* The state is recognised and sends the command, between some events.
Sends(state, command) == \E before, after : Recognise(state, command, before, after)

\* The contactor's part of a recognised state.
LEMMA SendsObeys ==
    ASSUME TypeOK, ~RelayCanStick, NEW state, NEW command \in Commands, Sends(state, command)
    PROVE  /\ prevState' = state /\ prevPwmRunning' = curPwmRunning'
           /\ command = "on"   => power' = TRUE
           /\ command = "off"  => power' = FALSE
           /\ command = "keep" => power' = power
           /\ rcdArmed' = IF power' # power THEN power' ELSE rcdArmed
  BY ContactorObeys DEF Sends, Recognise

\* Which command every state sends.
LEMMA RunSends ==
    /\ RunDisabled => Sends("Disabled", "off")
    /\ RunA => Sends("A", IF WasIn(UnplugSources) THEN "off" ELSE "keep")
    /\ RunB => Sends("B", IF WasIn(QuietBeforeB) THEN "keep" ELSE "off")
    /\ RunC => Sends("C", CommandInC)
    /\ RunD => Sends("D", CommandInD)
    /\ RunE => Sends("E", "off")
    /\ RunF => Sends("F", "off")
    /\ RunDF => Sends("DF", "off")
  <1> USE DEF Sends
  <1>1. RunDisabled => Sends("Disabled", "off")  BY DEF RunDisabled
  <1>2. RunA => Sends("A", IF WasIn(UnplugSources) THEN "off" ELSE "keep")  BY DEF RunA
  <1>3. RunB => Sends("B", IF WasIn(QuietBeforeB) THEN "keep" ELSE "off")
    <2>1. (IF ~WasIn(QuietBeforeB) THEN "off" ELSE "keep")
            = (IF WasIn(QuietBeforeB) THEN "keep" ELSE "off")
      OBVIOUS
    <2> QED
      BY <2>1 DEF RunB
  <1>4. RunC => Sends("C", CommandInC)  BY DEF RunC
  <1>5. RunD => Sends("D", CommandInD)  BY DEF RunD
  <1>6. RunE => Sends("E", "off")       BY DEF RunE
  <1>7. RunF => Sends("F", "off")       BY DEF RunF
  <1>8. RunDF => Sends("DF", "off")     BY DEF RunDF
  <1> QED
    BY <1>1, <1>2, <1>3, <1>4, <1>5, <1>6, <1>7, <1>8

\* Every recognised state other than C and D leaves the contactor open.
LEMMA OtherStatesOpen ==
    ASSUME TypeOK, ~RelayCanStick, PowerNeedsCar,
           RunDisabled \/ RunA \/ RunB \/ RunE \/ RunF \/ RunDF
    PROVE  /\ power' = FALSE
           /\ prevState' \notin {"C", "D"}
           /\ prevPwmRunning' = curPwmRunning'
  <1>c. "off" \in Commands /\ "keep" \in Commands
    BY DEF Commands
  <1>1. CASE RunDisabled \/ RunE \/ RunF \/ RunDF
    <2>1. PICK state \in {"Disabled", "E", "F", "DF"} : Sends(state, "off")
      BY <1>1, RunSends
    <2> QED
      BY <2>1, <1>c, SendsObeys
  <1>2. CASE RunA
    <2>1. ~WasIn(UnplugSources) => power = FALSE
      BY DEF WasIn, UnplugSources, PowerNeedsCar, TypeOK, CPStates
    <2>2. Sends("A", IF WasIn(UnplugSources) THEN "off" ELSE "keep")
      BY <1>2, RunSends
    <2>3. PICK command \in {"off", "keep"} :
                 Sends("A", command) /\ (command = "keep" => power = FALSE)
      BY <2>1, <2>2
    <2>4. /\ prevState' = "A" /\ prevPwmRunning' = curPwmRunning'
          /\ command = "off"  => power' = FALSE
          /\ command = "keep" => power' = power
      BY <2>3, <1>c, SendsObeys
    <2> QED
      BY <2>3, <2>4
  <1>3. CASE RunB
    <2>1. WasIn(QuietBeforeB) => power = FALSE
      BY DEF WasIn, QuietBeforeB, PowerNeedsCar, TypeOK
    <2>2. Sends("B", IF WasIn(QuietBeforeB) THEN "keep" ELSE "off")
      BY <1>3, RunSends
    <2>3. PICK command \in {"off", "keep"} :
                 Sends("B", command) /\ (command = "keep" => power = FALSE)
      BY <2>1, <2>2
    <2>4. /\ prevState' = "B" /\ prevPwmRunning' = curPwmRunning'
          /\ command = "off"  => power' = FALSE
          /\ command = "keep" => power' = power
      BY <2>3, <1>c, SendsObeys
    <2> QED
      BY <2>3, <2>4
  <1> QED
    BY <1>1, <1>2, <1>3

\* In C and D the contactor closes only where it may, and opens only when due.
LEMMA ServeMoves ==
    ASSUME TypeOK, ~RelayCanStick, RunC \/ RunD
    PROVE  /\ prevState' \in {"C", "D"}
           /\ prevPwmRunning' = curPwmRunning
           /\ UNCHANGED <<curPwmRunning, powerOnAllowed>>
           /\ pwmStop' = PwmStopNext
           /\ power' # power => IF power' THEN MayClose ELSE StopDue
           /\ StopDue => ~power'
           /\ rcdArmed' = IF power' # power THEN power' ELSE rcdArmed
  <1>c. "on" \in Commands /\ "off" \in Commands /\ "keep" \in Commands
    BY DEF Commands
  <1>m. ~(MayClose /\ StopDue)
    BY DEF MayClose, StopDue
  <1>1. CASE RunC
    <2>1. CommandInC \in Commands
      BY <1>c DEF CommandInC
    <2>2. /\ prevState' = "C" /\ prevPwmRunning' = curPwmRunning'
          /\ CommandInC = "on"   => power' = TRUE
          /\ CommandInC = "off"  => power' = FALSE
          /\ CommandInC = "keep" => power' = power
          /\ rcdArmed' = IF power' # power THEN power' ELSE rcdArmed
      BY <1>1, <2>1, RunSends, SendsObeys
    <2> QED
      BY <1>1, <1>m, <2>2 DEF RunC, KeepPilot, CommandInC, TypeOK
  <1>2. CASE RunD
    <2>1. CommandInD \in Commands
      BY <1>c DEF CommandInD
    <2>2. /\ prevState' = "D" /\ prevPwmRunning' = curPwmRunning'
          /\ CommandInD = "on"   => power' = TRUE
          /\ CommandInD = "off"  => power' = FALSE
          /\ CommandInD = "keep" => power' = power
          /\ rcdArmed' = IF power' # power THEN power' ELSE rcdArmed
      BY <1>2, <2>1, RunSends, SendsObeys
    <2> QED
      BY <1>2, <1>m, <2>2 DEF RunD, KeepPilot, CommandInD, TypeOK
  <1> QED
    BY <1>1, <1>2

\* Safety holds initially, and is inductive.
LEMMA SafetyInit == Init => Safety
  BY DEF Init, Safety, PowerNeedsCar, PwmStopGuard, RcdGuardsPower

LEMMA SafetyStep ==
    ASSUME TypeOK, ~RelayCanStick, Safety, [AnyNext]_vars
    PROVE  Safety'
  <1> USE DEF Safety, PowerNeedsCar, PwmStopGuard, RcdGuardsPower
  <1>1. CASE Message \/ Configure \/ UNCHANGED vars
    <2>1. UNCHANGED <<power, prevState, prevPwmRunning, pwmStop, rcdArmed>>
      BY <1>1 DEF Message, SetPwmOff, SetPwmOn, SetPwmF, Enable, Disable, AllowPowerOn, Configure,
                  vars, sessionVars, halVars
    <2> QED
      BY <2>1
  <1>2. CASE Tick
    <2>1. pwmStop'.running = pwmStop.running
      BY <1>2, AgedType DEF Tick, TypeOK, Countdowns
    <2> QED
      BY <1>2, <2>1 DEF Tick, halVars
  <1>3. CASE RcdFires
    BY <1>3 DEF RcdFires
  <1>4. CASE \E cp : Run(cp)
    <2>1. CASE RunUnstable
      BY <2>1 DEF RunUnstable, sessionVars
    <2>2. CASE RunDisabled \/ RunA \/ RunB \/ RunE \/ RunF \/ RunDF
      BY <2>2, OtherStatesOpen
    <2>3. CASE RunC \/ RunD
      <3>1. /\ prevState' \in {"C", "D"}
            /\ prevPwmRunning' = curPwmRunning
            /\ pwmStop' = PwmStopNext
            /\ power' # power => IF power' THEN MayClose ELSE StopDue
            /\ rcdArmed' = IF power' # power THEN power' ELSE rcdArmed
        BY <2>3, ServeMoves
      <3>2. PowerNeedsCar'
        BY <3>1
      <3>3. PwmStopGuard'
        BY <3>1 DEF PwmStopNext, MayClose, Started, TypeOK
      <3>4. RcdGuardsPower'
        BY <3>1 DEF TypeOK
      <3> QED
        BY <3>2, <3>3, <3>4
    <2> QED
      BY <1>4, <2>1, <2>2, <2>3 DEF Run
  <1> QED
    BY <1>1, <1>2, <1>3, <1>4 DEF AnyNext

\* PowerNeedsCar, PwmStopGuard and RcdGuardsPower hold for all readings, all
\* periods and every range of the tick counter, with and without an RCD.
THEOREM ContactorSafe ==
    ASSUME ~RelayCanStick
    PROVE  Spec => [](PowerNeedsCar /\ PwmStopGuard /\ RcdGuardsPower)
  <1>1. Init => Safety
    BY SafetyInit
  <1>2. TypeOK /\ Safety /\ [Next]_vars => Safety'
    BY SafetyStep, NextIsAny
  <1>3. Safety => PowerNeedsCar /\ PwmStopGuard /\ RcdGuardsPower
    BY DEF Safety
  <1> QED
    BY <1>1, <1>2, <1>3, TypeCorrect, PTL DEF Spec

\* PowerNeedsCar: every recognised reading of another state than C and D leaves
\* the contactor open (lines 76-247).
THEOREM PowerOnlyForCar ==
    ASSUME ~RelayCanStick
    PROVE  Spec => []PowerNeedsCar
  BY ContactorSafe, PTL

\* PwmStopGuard: while the contactor is closed without PWM the shedding
\* countdown is running or is started by the next run in C or D (lines 148-158).
THEOREM PwmStopGuarded ==
    ASSUME ~RelayCanStick
    PROVE  Spec => []PwmStopGuard
  BY ContactorSafe, PTL

\* RcdGuardsPower: no order of switch commands leaves the RCD disarmed under
\* load (lines 342-380).
THEOREM RcdArmedUnderLoad ==
    ASSUME ~RelayCanStick
    PROVE  Spec => []RcdGuardsPower
  BY ContactorSafe, PTL

\* PhasesFixedUnderLoad: the phase latch is touched in state A only, and every run in state A ends with an open contactor.
THEOREM PhasesFixed ==
    ASSUME ~RelayCanStick
    PROVE  Spec => PhasesFixedUnderLoad
  <1>1. TypeOK /\ Safety /\ [Next]_vars => [threePhasesLatch' # threePhasesLatch => ~power']_vars
    <2> SUFFICES ASSUME TypeOK, Safety, Next
                 PROVE  threePhasesLatch' # threePhasesLatch => ~power'
      OBVIOUS
    <2>1. CASE RunA
      BY <2>1, OtherStatesOpen DEF Safety
    <2>2. CASE ~RunA
      <3>1. UNCHANGED threePhasesLatch
        BY <2>2
           DEF Next, Message, SetPwmOff, SetPwmOn, SetPwmF, Enable, Disable, AllowPowerOn,
               Configure, Tick, RcdFires, Run, RunUnstable, RunDisabled, RunB, RunC, RunD,
               RunE, RunF, RunDF, sessionVars
      <3> QED
        BY <3>1
    <2> QED
      BY <2>1, <2>2
  <1>2. Init => Safety
    BY DEF Init, Safety, PowerNeedsCar, PwmStopGuard, RcdGuardsPower
  <1>3. TypeOK /\ Safety /\ [Next]_vars => Safety'
    BY SafetyStep, NextIsAny
  <1> QED
    BY <1>1, <1>2, <1>3, TypeCorrect, PTL DEF Spec, PhasesFixedUnderLoad

\* NoForbiddenReclose: the fault flag of the power switch is cleared in state A
\* only, where rcd_reclosing_allowed is asked and the contactor has just opened.
THEOREM RecloseForbidden ==
    ASSUME ~RelayCanStick
    PROVE  Spec => NoForbiddenReclose
  <1>1. TypeOK /\ Safety /\ [Next]_vars
          => [tripLatched /\ ~tripLatched' => rcdReclosingAllowed /\ ~power']_vars
    <2> SUFFICES ASSUME TypeOK, Safety, Next, tripLatched, ~tripLatched'
                 PROVE  rcdReclosingAllowed /\ ~power'
      OBVIOUS
    <2>1. CASE RunA
      <3>1. ~power'
        BY <2>1, OtherStatesOpen DEF Safety
      <3>2. rcdReclosingAllowed
        BY <2>1 DEF RunA, ResetsSwitch
      <3> QED
        BY <3>1, <3>2
    <2>2. CASE ~RunA
      <3>1. tripLatched'
        BY <2>2
           DEF Next, Message, SetPwmOff, SetPwmOn, SetPwmF, Enable, Disable, AllowPowerOn,
               Configure, Tick, RcdFires, Run, RunUnstable, RunDisabled, RunB, RunC, RunD,
               RunE, RunF, RunDF, halVars
      <3> QED
        BY <3>1
    <2> QED
      BY <2>1, <2>2
  <1>2. Init => Safety
    BY DEF Init, Safety, PowerNeedsCar, PwmStopGuard, RcdGuardsPower
  <1>3. TypeOK /\ Safety /\ [Next]_vars => Safety'
    BY SafetyStep, NextIsAny
  <1> QED
    BY <1>1, <1>2, <1>3, TypeCorrect, PTL DEF Spec, NoForbiddenReclose

-----------------------------------------------------------------------------
(* The state machine implements the contract.                              *)

\* A countdown that ages is the deadline of the contract elapsing, or forgotten.
LEMMA DeadlineElapses ==
    ASSUME NEW c \in Countdowns
    PROVE  \/ DeadlineOf(Aged(c)) = DeadlineOf(c)
           \/ DeadlineOf(c) = "counting" /\ DeadlineOf(Aged(c)) = "due"
           \/ DeadlineOf(c) = "due" /\ DeadlineOf(Aged(c)) = "counting"
  BY FsmAssumption DEF DeadlineOf, Aged, Countdowns

\* Every step of the state machine is a step of the contract or leaves its
\* variables alone.
LEMMA ContractStep ==
    ASSUME TypeOK, ~RelayCanStick, Safety, [AnyNext]_vars
    PROVE  [Contract!Next]_(Contract!contract)
  <1> USE DEF Contract!Next, Contract!contract
  <1>1. CASE Message
    <2>1. /\ UNCHANGED <<power, prevState, prevPwmRunning, pwmStop>>
          /\ curPwmRunning' \in BOOLEAN /\ powerOnAllowed' \in BOOLEAN
      BY <1>1 DEF Message, SetPwmOff, SetPwmOn, SetPwmF, Enable, Disable, AllowPowerOn,
                  PwmOff, sessionVars, halVars, TypeOK
    <2> QED
      BY <2>1 DEF Contract!Command, DeadlineOf
  <1>2. CASE Configure \/ UNCHANGED vars \/ RunUnstable
    <2>1. UNCHANGED <<power, prevState, prevPwmRunning, pwmStop, curPwmRunning, powerOnAllowed>>
      BY <1>2 DEF Configure, RunUnstable, KeepPilot, vars, sessionVars, halVars
    <2> QED
      BY <2>1 DEF DeadlineOf
  <1>3. CASE Tick
    <2>1. /\ UNCHANGED <<power, prevState, prevPwmRunning, curPwmRunning, powerOnAllowed>>
          /\ pwmStop' = Aged(pwmStop)
      BY <1>3 DEF Tick, halVars
    <2>2. DeadlineOf(pwmStop)' = DeadlineOf(Aged(pwmStop))
      BY <2>1 DEF DeadlineOf
    <2> QED
      BY <2>1, <2>2, DeadlineElapses DEF Contract!Elapse, TypeOK
  <1>4. CASE RcdFires
    <2>1. /\ UNCHANGED <<prevState, prevPwmRunning, pwmStop, curPwmRunning, powerOnAllowed>>
          /\ power = TRUE /\ power' = FALSE
      BY <1>4 DEF RcdFires, sessionVars, TypeOK
    <2> QED
      BY <2>1 DEF Contract!Trip, DeadlineOf
  <1>5. CASE RunDisabled \/ RunA \/ RunB \/ RunE \/ RunF \/ RunDF
    <2>1. power' = FALSE /\ prevState' \notin {"C", "D"} /\ prevPwmRunning' = curPwmRunning'
      BY <1>5, OtherStatesOpen DEF Safety
    <2>2. /\ curPwmRunning' \in {curPwmRunning, FALSE}
          /\ powerOnAllowed' \in {powerOnAllowed, FALSE}
          /\ pwmStop' = pwmStop
      BY <1>5 DEF RunDisabled, RunA, RunB, RunE, RunF, RunDF, PwmOff, KeepPilot
    <2> QED
      BY <2>1, <2>2 DEF Contract!Refuse, DeadlineOf, TypeOK
  <1>6. CASE RunC \/ RunD
    <2>1. /\ prevState' \in {"C", "D"}
          /\ prevPwmRunning' = curPwmRunning
          /\ UNCHANGED <<curPwmRunning, powerOnAllowed>>
          /\ pwmStop' = PwmStopNext
          /\ power' # power => IF power' THEN MayClose ELSE StopDue
          /\ StopDue => ~power'
      BY <1>6, ServeMoves
    <2>2. DeadlineOf(pwmStop)' = IF prevPwmRunning /\ ~curPwmRunning
                                 THEN "counting" ELSE DeadlineOf(pwmStop)
      BY <2>1, FsmAssumption DEF PwmStopNext, DeadlineOf, Started, TypeOK
    <2>3. StopDue = (~curPwmRunning /\ ~prevPwmRunning /\ DeadlineOf(pwmStop) = "due")
      BY DEF StopDue, Elapsed, DeadlineOf, TypeOK, Countdowns
    <2> QED
      BY <2>1, <2>2, <2>3 DEF Contract!Serve, MayClose, TypeOK
  <1> QED
    BY <1>1, <1>2, <1>3, <1>4, <1>5, <1>6 DEF AnyNext, Run

\* ImplementsContract: where relays do not stick, the state machine with its CP readings, countdown and
\* messages is an implementation of the contactor's contract.
THEOREM ImplementsContractor ==
    ASSUME ~RelayCanStick
    PROVE  Spec => ImplementsContract
  <1>1. Init => Contract!Init
    BY DEF Init, Contract!Init, DeadlineOf, Stopped
  <1>2. Init => Safety
    BY DEF Init, Safety, PowerNeedsCar, PwmStopGuard, RcdGuardsPower
  <1>3. TypeOK /\ Safety /\ [Next]_vars => Safety'
    BY SafetyStep, NextIsAny
  <1>4. TypeOK /\ Safety /\ [Next]_vars => [Contract!Next]_(Contract!contract)
    BY ContractStep, NextIsAny
  <1> QED
    BY <1>1, <1>2, <1>3, <1>4, TypeCorrect, PTL DEF Spec, ImplementsContract, Contract!Spec
=============================================================================
