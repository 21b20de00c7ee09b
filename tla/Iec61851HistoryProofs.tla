---------------------- MODULE Iec61851HistoryProofs -----------------------
(***************************************************************************)
(* What is proved of the state machine over time, for every set of         *)
(* readings, all periods and every range of the tick counter: what a       *)
(* listener may rely on who hears nothing but the events, with relays that *)
(* obey and with relays that stick; and the deadline of load shedding in   *)
(* the main loop, for every length of unstable readings the counter can    *)
(* bear (TimedAssumption, which the reports do not need).                  *)
(***************************************************************************)
EXTENDS Iec61851Session, Iec61851Timed, Iec61851FsmProofs

sessionSpecVars == <<vars, history>>

\* The events among a sequence, without their order.
Said(events) == {events[k] : k \in DOMAIN events}

Perhaps(condition, event) == IF condition THEN {event} ELSE {}

AboutPlug == {"CarPluggedIn", "CarUnplugged"}
AboutRequest == {"CarRequestedPower", "CarRequestedStopPower"}

-----------------------------------------------------------------------------
(* Lemmas about sequences of events. *)

\* What the three kinds of news are about.
LEMMA News ==
    /\ DOMAIN PowerNews = AboutPower /\ DOMAIN PlugNews = AboutPlug
    /\ DOMAIN RequestNews = AboutRequest
    /\ \A e \in AboutPower : PowerNews[e] = (e = "PowerOn")
    /\ \A e \in AboutPlug : PlugNews[e] = (e = "CarPluggedIn")
    /\ \A e \in AboutRequest : RequestNews[e] = (e = "CarRequestedPower")
  <1>1. DOMAIN PowerNews = AboutPower /\ PowerNews["PowerOn"] = TRUE /\ PowerNews["PowerOff"] = FALSE
    BY DEF PowerNews, AboutPower
  <1>2. /\ DOMAIN PlugNews = AboutPlug
        /\ PlugNews["CarPluggedIn"] = TRUE /\ PlugNews["CarUnplugged"] = FALSE
    BY DEF PlugNews, AboutPlug
  <1>3. /\ DOMAIN RequestNews = AboutRequest
        /\ RequestNews["CarRequestedPower"] = TRUE /\ RequestNews["CarRequestedStopPower"] = FALSE
    BY DEF RequestNews, AboutRequest
  <1> QED
    BY <1>1, <1>2, <1>3 DEF AboutPower, AboutPlug, AboutRequest

\* A concatenation says what its parts say.
LEMMA SaidConcat ==
    ASSUME NEW s \in Seq(Events), NEW t \in Seq(Events)
    PROVE  s \o t \in Seq(Events) /\ Said(s \o t) = Said(s) \cup Said(t)
  <1>1. /\ s \o t \in Seq(Events) /\ Len(s \o t) = Len(s) + Len(t)
        /\ \A i \in 1 .. Len(s) + Len(t) :
              (s \o t)[i] = IF i <= Len(s) THEN s[i] ELSE t[i - Len(s)]
    BY ConcatProperties
  <1>2. /\ Len(s) \in Nat /\ Len(t) \in Nat
        /\ DOMAIN s = 1 .. Len(s) /\ DOMAIN t = 1 .. Len(t)
        /\ DOMAIN (s \o t) = 1 .. Len(s) + Len(t)
    BY <1>1, LenProperties
  <1>3. Said(s \o t) \subseteq Said(s) \cup Said(t)
    <2> SUFFICES ASSUME NEW i \in 1 .. Len(s) + Len(t)
                 PROVE  (s \o t)[i] \in Said(s) \cup Said(t)
      BY <1>2 DEF Said
    <2>1. CASE i <= Len(s)
      BY <1>1, <1>2, <2>1 DEF Said
    <2>2. CASE ~(i <= Len(s))
      <3>1. i - Len(s) \in 1 .. Len(t) /\ (s \o t)[i] = t[i - Len(s)]
        BY <1>1, <1>2, <2>2
      <3> QED
        BY <1>2, <3>1 DEF Said
    <2> QED
      BY <2>1, <2>2
  <1>4. Said(s) \subseteq Said(s \o t)
    <2> SUFFICES ASSUME NEW i \in 1 .. Len(s)
                 PROVE  s[i] \in Said(s \o t)
      BY <1>2 DEF Said
    <2>1. i \in 1 .. Len(s) + Len(t) /\ (s \o t)[i] = s[i]
      BY <1>1, <1>2
    <2> QED
      BY <1>2, <2>1 DEF Said
  <1>5. Said(t) \subseteq Said(s \o t)
    <2> SUFFICES ASSUME NEW i \in 1 .. Len(t)
                 PROVE  t[i] \in Said(s \o t)
      BY <1>2 DEF Said
    <2>1. i + Len(s) \in 1 .. Len(s) + Len(t) /\ (s \o t)[i + Len(s)] = t[i]
      BY <1>1, <1>2
    <2> QED
      BY <1>2, <2>1 DEF Said
  <1> QED
    BY <1>1, <1>3, <1>4, <1>5

\* So does one of three parts.
LEMMA SaidTwice ==
    ASSUME NEW s \in Seq(Events), NEW t \in Seq(Events), NEW u \in Seq(Events)
    PROVE  Said((s \o t) \o u) = (Said(s) \cup Said(t)) \cup Said(u)
  <1>1. s \o t \in Seq(Events) /\ Said(s \o t) = Said(s) \cup Said(t)
    BY SaidConcat
  <1> QED
    BY <1>1, SaidConcat

\* Nothing, one event, and an event under a condition.
LEMMA SaidWhen ==
    /\ Said(<<>>) = {}
    /\ \A e : Said(<<e>>) = {e}
    /\ \A c, e : Said(When(c, e)) = Perhaps(c, e)
  <1>1. Said(<<>>) = {}
    BY DEF Said
  <1>2. \A e : Said(<<e>>) = {e}
    BY DEF Said
  <1> QED
    BY <1>1, <1>2 DEF When, Perhaps

\* What a recognised state says.
LEMMA SaidRecognised ==
    ASSUME NEW state, NEW command \in Commands,
           NEW before \in Seq(Events), NEW after \in Seq(Events),
           Recognise(state, command, before, after)
    PROVE  /\ pushed' \in Seq(Events)
           /\ Said(pushed') = Perhaps(rcdFired, "Error_RCD") \cup Said(before)
                                \cup Said(PowerEvents(command)) \cup Said(after)
  <1> DEFINE rcd == When(rcdFired, "Error_RCD")
             moved == PowerEvents(command)
  <1>1. rcd \in Seq(Events) /\ moved \in Seq(Events)
    BY WhenType, PowerEventsType DEF Events
  <1>2. pushed' = ((rcd \o before) \o moved) \o after
    BY DEF Recognise
  <1>3. Said(rcd) = Perhaps(rcdFired, "Error_RCD")
    BY SaidWhen
  <1> HIDE DEF rcd, moved
  <1>4. rcd \o before \in Seq(Events) /\ Said(rcd \o before) = Said(rcd) \cup Said(before)
    BY <1>1, SaidConcat
  <1>5. /\ (rcd \o before) \o moved \in Seq(Events)
        /\ Said((rcd \o before) \o moved) = Said(rcd \o before) \cup Said(moved)
    BY <1>1, <1>4, SaidConcat
  <1>6. /\ pushed' \in Seq(Events)
        /\ Said(pushed') = Said((rcd \o before) \o moved) \cup Said(after)
    BY <1>2, <1>5, SaidConcat
  <1> QED
    BY <1>3, <1>4, <1>5, <1>6 DEF moved

\* What a switch command says.
LEMMA SaidPower ==
    ASSUME NEW command
    PROVE  /\ ~Switches(command) => Said(PowerEvents(command)) = {}
           /\ Switches(command) /\ power' # (command = "on")
                => Said(PowerEvents(command)) = {"Error_Relais"}
           /\ Switches(command) /\ power' = (command = "on")
                => Said(PowerEvents(command)) = {IF command = "on" THEN "PowerOn" ELSE "PowerOff"}
  BY SaidWhen DEF PowerEvents

\* What is known afterwards, when at most one of the news is told.
LEMMA KnownNews ==
    ASSUME NEW news, NEW before, NEW after \in Known(before, news)
    PROVE  /\ Said(pushed') \cap DOMAIN news = {} => after = before
           /\ \A e \in DOMAIN news : Said(pushed') \cap DOMAIN news = {e} => after = news[e]
           /\ after = before \/ \E e \in DOMAIN news : after = news[e]
  <1> DEFINE about == {k \in DOMAIN pushed' : pushed'[k] \in DOMAIN news}
  <1>1. about = {} <=> Said(pushed') \cap DOMAIN news = {}
    BY DEF Said
  <1>2. about = {} => after = before
    BY DEF Known
  <1>3. about # {} => \E k \in about : after = news[pushed'[k]]
    BY DEF Known
  <1>4. ASSUME NEW k \in about
        PROVE  pushed'[k] \in DOMAIN news /\ pushed'[k] \in Said(pushed') \cap DOMAIN news
    BY DEF Said
  <1> QED
    BY <1>1, <1>2, <1>3, <1>4

-----------------------------------------------------------------------------
(* The types. *)

\* Every step of the observed state machine is one of the state machine.
LEMMA SessionStepsAreSteps == [SessionNext]_sessionSpecVars => [Next]_vars
  <1>1. CallStep => Next
    BY DEF CallStep, Next, Message
  <1>2. (\E cp \in Readings : RunStep(cp)) => Next
    BY DEF RunStep, Next
  <1> QED
    BY <1>1, <1>2 DEF SessionNext, sessionSpecVars

\* The listener keeps its types.
LEMMA SessionTypeStep ==
    ASSUME SessionTypeOK, [SessionNext]_sessionSpecVars
    PROVE  SessionTypeOK'
  <1>1. TypeOK'
    BY TypeStep, SessionStepsAreSteps, NextIsAny DEF SessionTypeOK
  <1>2. CASE SessionNext
    <2>1. heardPower' \in BOOLEAN
      <3>1. heardPower' \in Known(heardPower, PowerNews)
        BY <1>2 DEF SessionNext, Listen
      <3>2. heardPower' = heardPower \/ \E e \in DOMAIN PowerNews : heardPower' = PowerNews[e]
        BY <3>1, KnownNews
      <3> QED
        BY <3>2, News DEF SessionTypeOK
    <2>2. heardPlugged' \in BOOLEAN
      <3>1. heardPlugged' \in Known(heardPlugged, PlugNews)
        BY <1>2 DEF SessionNext, Listen
      <3>2. heardPlugged' = heardPlugged \/ \E e \in DOMAIN PlugNews : heardPlugged' = PlugNews[e]
        BY <3>1, KnownNews
      <3> QED
        BY <3>2, News DEF SessionTypeOK
    <2>3. heardRequested' \in BOOLEAN
      <3>1. heardRequested' \in Known(heardRequested, RequestNews)
        BY <1>2 DEF SessionNext, Listen
      <3>2. \/ heardRequested' = heardRequested
            \/ \E e \in DOMAIN RequestNews : heardRequested' = RequestNews[e]
        BY <3>1, KnownNews
      <3> QED
        BY <3>2, News DEF SessionTypeOK
    <2>4. plainSession' \in BOOLEAN /\ holdF' \in BOOLEAN
      <3>1. CASE CallStep
        BY <3>1 DEF CallStep, SessionTypeOK
      <3>2. CASE \E cp \in Readings : RunStep(cp)
        <4> PICK cp \in Readings : RunStep(cp)
          BY <3>2
        <4> QED
          BY DEF RunStep, SessionTypeOK
      <3> QED
        BY <1>2, <3>1, <3>2 DEF SessionNext
    <2> QED
      BY <1>1, <2>1, <2>2, <2>3, <2>4 DEF SessionTypeOK
  <1>3. CASE UNCHANGED sessionSpecVars
    BY <1>1, <1>3 DEF SessionTypeOK, sessionSpecVars, history
  <1> QED
    BY <1>2, <1>3

-----------------------------------------------------------------------------
(* The contactor. *)

\* Events of which none is about the contactor.
Quiet(events) == events \in Seq(Events) /\ Said(events) \cap AboutPower = {}

\* A recognised state tells nothing of the contactor but the switch command, and
\* commands it to close only where it may.
TellsOfCommand ==
    \E command \in Commands, front \in Seq(Events), rear \in Seq(Events) :
        /\ Quiet(front) /\ Quiet(rear)
        /\ Contactor(command)
        /\ pushed' = (front \o PowerEvents(command)) \o rear
        /\ command = "on" => MayClose /\ powerOnAllowed' = powerOnAllowed

\* Every recognised state does so.
LEMMA RunTells ==
    ASSUME TypeOK, RunDisabled \/ RunA \/ RunB \/ RunC \/ RunD \/ RunE \/ RunF \/ RunDF
    PROVE  TellsOfCommand
  <1>q. ASSUME NEW state, NEW command \in Commands, NEW before, NEW after,
               Quiet(before), Quiet(after), Recognise(state, command, before, after),
               command = "on" => MayClose /\ powerOnAllowed' = powerOnAllowed
        PROVE  TellsOfCommand
    <2> DEFINE rcd == When(rcdFired, "Error_RCD")
    <2>1. rcd \in Seq(Events) /\ Said(rcd) \cap AboutPower = {}
      BY WhenType, SaidWhen DEF Events, Perhaps, AboutPower
    <2> HIDE DEF rcd
    <2>2. Quiet(rcd \o before)
      BY <1>q, <2>1, SaidConcat DEF Quiet
    <2>3. pushed' = ((rcd \o before) \o PowerEvents(command)) \o after /\ Contactor(command)
      BY <1>q DEF Recognise, rcd
    <2> QED
      BY <1>q, <2>2, <2>3 DEF TellsOfCommand, Quiet
  <1>c. {"off", "keep"} \subseteq Commands /\ CommandInC \in Commands /\ CommandInD \in Commands
    BY DEF Commands, CommandInC, CommandInD
  <1>m. /\ CommandInC = "on" => MayClose
        /\ CommandInD = "on" => MayClose
    BY DEF CommandInC, CommandInD
  <1>w. \A e \in Events \ AboutPower : \A b : Quiet(When(b, e))
    BY WhenType, SaidWhen DEF Perhaps, Quiet
  <1>e. {"CarPluggedIn", "CarRequestedPower", "CarRequestedStopPower", "CarUnplugged", "Error_E",
         "Error_DF", "Error_VentilationNotAvailable", "EF_To_BCD", "BCD_To_EF"}
            \subseteq Events \ AboutPower
    BY DEF Events, AboutPower
  <1>o. \A s, t : Quiet(s) /\ Quiet(t) => Quiet(s \o t)
    BY SaidConcat DEF Quiet
  <1>n. Quiet(<<>>)
    BY EventSeqs, SaidWhen DEF Quiet
  <1>1. CASE RunDisabled  BY <1>1, <1>c, <1>n, <1>q DEF RunDisabled
  <1>2. CASE RunA         BY <1>2, <1>c, <1>w, <1>e, <1>q DEF RunA
  <1>3. CASE RunB         BY <1>3, <1>c, <1>w, <1>e, <1>o, <1>q DEF RunB
  <1>4. CASE RunC         BY <1>4, <1>c, <1>m, <1>w, <1>e, <1>o, <1>q DEF RunC, KeepPilot
  <1>5. CASE RunD         BY <1>5, <1>c, <1>m, <1>w, <1>e, <1>o, <1>q DEF RunD, KeepPilot
  <1>6. CASE RunE         BY <1>6, <1>c, <1>w, <1>e, <1>o, <1>n, <1>q DEF RunE
  <1>7. CASE RunF         BY <1>7, <1>c, <1>w, <1>e, <1>n, <1>q DEF RunF
  <1>8. CASE RunDF        BY <1>8, <1>c, <1>w, <1>e, <1>o, <1>n, <1>q DEF RunDF
  <1> QED
    BY <1>1, <1>2, <1>3, <1>4, <1>5, <1>6, <1>7, <1>8

\* Without their order, what is said of the contactor is what the command says.
LEMMA CommandTells ==
    ASSUME TellsOfCommand
    PROVE  \E command \in Commands :
              /\ Contactor(command)
              /\ Said(pushed') \cap AboutPower = Said(PowerEvents(command)) \cap AboutPower
  <1>1. PICK command \in Commands, front \in Seq(Events), rear \in Seq(Events) :
               /\ Quiet(front) /\ Quiet(rear) /\ Contactor(command)
               /\ pushed' = (front \o PowerEvents(command)) \o rear
    BY DEF TellsOfCommand
  <1>2. PowerEvents(command) \in Seq(Events)
    BY PowerEventsType
  <1>3. Said(pushed') = (Said(front) \cup Said(PowerEvents(command))) \cup Said(rear)
    BY <1>1, <1>2, SaidTwice
  <1>4. Said(front) \cap AboutPower = {} /\ Said(rear) \cap AboutPower = {}
    BY <1>1 DEF Quiet
  <1>5. Said(pushed') \cap AboutPower = Said(PowerEvents(command)) \cap AboutPower
    BY <1>3, <1>4
  <1> QED
    BY <1>1, <1>5

\* Outside run() nothing is sent ...
LEMMA CallsSayNothing ==
    ASSUME CallStep
    PROVE  Said(pushed') = {} /\ UNCHANGED <<prevState, simplifiedMode>>
  <1>1. pushed' = <<>>
    BY DEF CallStep, SetPwmF, SetPwmOff, Enable, Disable, SetPwmOn, AllowPowerOn, Configure,
           Tick, RcdFires
  <1>2. UNCHANGED <<prevState, simplifiedMode>>
    BY DEF CallStep, SetPwmF, SetPwmOff, Enable, Disable, SetPwmOn, AllowPowerOn, Configure,
           Tick, RcdFires, sessionVars
  <1> QED
    BY <1>1, <1>2, SaidWhen

\* ... and run() says no more than Error_RCD where it recognises no state.
LEMMA UnstableSaysLittle ==
    ASSUME RunUnstable
    PROVE  /\ Said(pushed') \subseteq {"Error_RCD"}
           /\ UNCHANGED <<power, prevState, simplifiedMode>>
  BY SaidWhen DEF RunUnstable, Perhaps, sessionVars

\* A contactor that moved is reported, one that did not is not.
LEMMA PowerReportStep ==
    ASSUME SessionTypeOK, PowerReportExact, ~RcdFitted, [SessionNext]_sessionSpecVars
    PROVE  PowerReportExact'
  <1> USE DEF PowerReportExact
  <1>1. CASE UNCHANGED sessionSpecVars
    BY <1>1 DEF sessionSpecVars, vars, halVars, history
  <1>2. CASE SessionNext
    <2>1. heardPower' \in Known(heardPower, PowerNews)
      BY <1>2 DEF SessionNext, Listen
    <2>2. /\ Said(pushed') \cap AboutPower = {} => heardPower' = heardPower
          /\ \A e \in AboutPower :
                Said(pushed') \cap AboutPower = {e} => heardPower' = (e = "PowerOn")
      BY <2>1, KnownNews, News
    <2>3. CASE CallStep
      <3>1. power' = power
        BY <2>3 DEF CallStep, SetPwmF, SetPwmOff, Enable, Disable, SetPwmOn, AllowPowerOn,
                    Configure, Tick, RcdFires, halVars
      <3> QED
        BY <2>2, <2>3, <3>1, CallsSayNothing
    <2>4. CASE \E cp \in Readings : RunStep(cp)
      <3>1. CASE RunUnstable
        BY <2>2, <3>1, UnstableSaysLittle DEF AboutPower
      <3>2. CASE RunDisabled \/ RunA \/ RunB \/ RunC \/ RunD \/ RunE \/ RunF \/ RunDF
        <4>1. PICK command \in Commands :
                /\ Contactor(command)
                /\ Said(pushed') \cap AboutPower = Said(PowerEvents(command)) \cap AboutPower
          BY <3>2, RunTells, CommandTells DEF SessionTypeOK
        <4>t. power \in BOOLEAN /\ power' \in BOOLEAN
          BY <4>1, ContactorType DEF SessionTypeOK, TypeOK
        <4>2. CASE ~Switches(command)
          <5>1. power' = power
            BY <4>1, <4>2 DEF Contactor
          <5> QED
            BY <2>2, <4>1, <4>2, <5>1, SaidPower
        <4>3. CASE Switches(command) /\ power' # (command = "on")
          <5>1. power' = power
            BY <4>3, <4>t DEF Switches
          <5>2. Said(pushed') \cap AboutPower = {}
            BY <4>1, <4>3, SaidPower DEF AboutPower
          <5> QED
            BY <2>2, <5>1, <5>2
        <4>4. CASE Switches(command) /\ power' = (command = "on")
          <5>1. Said(PowerEvents(command)) = {IF command = "on" THEN "PowerOn" ELSE "PowerOff"}
            BY <4>4, SaidPower
          <5>2. CASE command = "on"
            BY <2>2, <4>1, <4>4, <5>1, <5>2 DEF AboutPower
          <5>3. CASE command # "on"
            BY <2>2, <4>1, <4>4, <5>1, <5>3 DEF AboutPower
          <5> QED
            BY <5>2, <5>3
        <4> QED
          BY <4>2, <4>3, <4>4
      <3> QED
        BY <2>4, <3>1, <3>2 DEF RunStep, Run
    <2> QED
      BY <1>2, <2>3, <2>4 DEF SessionNext
  <1> QED
    BY <1>1, <1>2

-----------------------------------------------------------------------------
(* What the link takes the state machine for.                              *)

\* One piece of news among events that are about something else.
LEMMA NewsOnce ==
    ASSUME NEW front, NEW rear, Quiet(front), Quiet(rear), NEW e \in AboutPower,
           pushed' = (front \o <<e>>) \o rear
    PROVE  TellsOfPower' = IF e = "PowerOn" THEN "on" ELSE "off"
  <1> DEFINE n == Len(front)
  <1>1. /\ n \in Nat /\ DOMAIN front = 1 .. n /\ front \in Seq(Events)
        /\ Len(rear) \in Nat /\ DOMAIN rear = 1 .. Len(rear) /\ rear \in Seq(Events)
        /\ <<e>> \in Seq(Events) /\ Len(<<e>>) = 1 /\ <<e>>[1] = e
    BY EventSeqs, LenProperties DEF Quiet, AboutPower, Events
  <1>2. /\ front \o <<e>> \in Seq(Events) /\ Len(front \o <<e>>) = n + 1
        /\ \A i \in 1 .. n : (front \o <<e>>)[i] = front[i]
        /\ (front \o <<e>>)[n + 1] = e
    BY <1>1, ConcatProperties
  <1>3. /\ pushed' \in Seq(Events) /\ Len(pushed') = n + 1 + Len(rear)
        /\ \A i \in 1 .. n + 1 : pushed'[i] = (front \o <<e>>)[i]
        /\ \A i \in n + 2 .. n + 1 + Len(rear) : pushed'[i] = rear[i - (n + 1)]
    BY <1>1, <1>2, ConcatProperties
  <1> HIDE DEF n
  <1>4. DOMAIN pushed' = 1 .. n + 1 + Len(rear) /\ n + 1 \in DOMAIN pushed' /\ pushed'[n + 1] = e
    BY <1>1, <1>2, <1>3, LenProperties
  <1>5. ASSUME NEW j \in DOMAIN pushed' \ {n + 1}
        PROVE  pushed'[j] \notin AboutPower
    <2>1. CASE j \in 1 .. n
      <3>1. j \in 1 .. n + 1
        BY <1>1, <2>1
      <3>2. pushed'[j] = front[j]
        BY <1>2, <1>3, <2>1, <3>1
      <3>3. front[j] \in Said(front)
        BY <1>1, <2>1 DEF Said
      <3> QED
        BY <3>2, <3>3 DEF Quiet
    <2>2. CASE j \in n + 2 .. n + 1 + Len(rear)
      <3>1. j - (n + 1) \in 1 .. Len(rear)
        BY <1>1, <2>2
      <3>2. pushed'[j] = rear[j - (n + 1)] /\ rear[j - (n + 1)] \in Said(rear)
        BY <1>1, <1>3, <2>2, <3>1 DEF Said
      <3> QED
        BY <3>2 DEF Quiet
    <2> QED
      BY <1>1, <1>4, <1>5, <2>1, <2>2
  <1>6. OnlyNews(e)'
    BY <1>4, <1>5 DEF OnlyNews
  <1>7. e = "PowerOff" => ~OnlyNews("PowerOn")'
    BY <1>4, <1>5 DEF OnlyNews, AboutPower
  <1> QED
    BY <1>6, <1>7 DEF TellsOfPower, AboutPower

\* No news.
LEMMA NoNews ==
    ASSUME Said(pushed') \cap AboutPower = {}
    PROVE  TellsOfPower' = "none"
  <1>1. \A k \in DOMAIN pushed' : pushed'[k] \notin AboutPower
    BY DEF Said
  <1> QED
    BY <1>1 DEF TellsOfPower, OnlyNews, AboutPower

\* A recognised state is a step of ReportedPower.
LEMMA CommandReported ==
    ASSUME TypeOK, TellsOfCommand, powerOnAllowed' \in {FALSE, powerOnAllowed}
    PROVE  Report!Run(powerOnAllowed)
  <1>1. PICK command \in Commands, front \in Seq(Events), rear \in Seq(Events) :
               /\ Quiet(front) /\ Quiet(rear) /\ Contactor(command)
               /\ pushed' = (front \o PowerEvents(command)) \o rear
               /\ command = "on" => MayClose /\ powerOnAllowed' = powerOnAllowed
    BY DEF TellsOfCommand
  <1>t. power \in BOOLEAN /\ power' \in BOOLEAN
    BY <1>1, ContactorType DEF TypeOK
  <1>2. CASE ~Switches(command) \/ power' # (command = "on")
    <2>1. power' = power
      BY <1>1, <1>2, <1>t DEF Contactor, Switches
    <2>2. Said(PowerEvents(command)) \cap AboutPower = {}
      BY <1>2, SaidPower DEF AboutPower
    <2>3. Said(pushed') \cap AboutPower = {}
      <3>1. PowerEvents(command) \in Seq(Events)
        BY PowerEventsType
      <3>2. Said(pushed') = (Said(front) \cup Said(PowerEvents(command))) \cup Said(rear)
        BY <1>1, <3>1, SaidTwice
      <3> QED
        BY <1>1, <2>2, <3>2 DEF Quiet
    <2>4. TellsOfPower' = "none"
      BY <2>3, NoNews
    <2> QED
      BY <2>1, <2>4 DEF Report!Run
  <1>3. CASE Switches(command) /\ power' = (command = "on")
    <2> DEFINE e == IF command = "on" THEN "PowerOn" ELSE "PowerOff"
    <2>1. PowerEvents(command) = <<e>> /\ e \in AboutPower
      BY <1>3 DEF PowerEvents, AboutPower
    <2>2. TellsOfPower' = IF e = "PowerOn" THEN "on" ELSE "off"
      <3> HIDE DEF e
      <3> QED
        BY <1>1, <2>1, NewsOnce
    <2>3. CASE command = "on"
      <3>1. power = FALSE /\ power' = TRUE
        BY <1>3, <1>t, <2>3 DEF Switches
      <3>2. TellsOfPower' = "on"
        BY <2>2, <2>3
      <3>3. MayClose /\ powerOnAllowed' = powerOnAllowed
        BY <1>1, <2>3
      <3>4. powerOnAllowed'
        BY <3>3, Zenon DEF MayClose
      <3> QED
        BY <3>1, <3>2, <3>4 DEF Report!Run
    <2>4. CASE command # "on"
      <3>1. power = TRUE /\ power' = FALSE /\ TellsOfPower' = "off"
        BY <1>3, <1>t, <2>2, <2>4 DEF Switches
      <3> QED
        BY <3>1 DEF Report!Run
    <2> QED
      BY <2>3, <2>4
  <1> QED
    BY <1>2, <1>3

\* Every step of the state machine is one of ReportedPower.
LEMMA ReportStep ==
    ASSUME TypeOK, ~RcdFitted, [AnyNext]_vars
    PROVE  [Report!Next]_(Report!report)
  <1>1. CASE UNCHANGED vars
    BY <1>1 DEF vars, halVars, Report!report, TellsOfPower, OnlyNews
  <1>2. CASE Message \/ Configure \/ Tick
    <2>1. pushed' = <<>> /\ power' = power /\ powerOnAllowed' \in BOOLEAN
      BY <1>2 DEF Message, SetPwmOff, SetPwmOn, SetPwmF, Enable, Disable, AllowPowerOn, PwmOff,
                  Configure, Tick, halVars, TypeOK
    <2>2. TellsOfPower' = "none"
      BY <2>1, SaidWhen, NoNews
    <2> QED
      BY <2>1, <2>2 DEF Report!Next, Report!Message
  <1>3. CASE RunUnstable
    <2>1. power' = power /\ powerOnAllowed' = powerOnAllowed
      BY <1>3 DEF RunUnstable, KeepPilot
    <2>2. Said(pushed') \cap AboutPower = {}
      BY <1>3, SaidWhen DEF RunUnstable, Perhaps, AboutPower
    <2>3. TellsOfPower' = "none"
      BY <2>2, NoNews
    <2> QED
      BY <2>1, <2>3 DEF Report!Next, Report!Run
  <1>4. CASE RunDisabled \/ RunA \/ RunB \/ RunC \/ RunD \/ RunE \/ RunF \/ RunDF
    <2>1. powerOnAllowed' \in {FALSE, powerOnAllowed}
      BY <1>4 DEF RunDisabled, RunA, RunB, RunC, RunD, RunE, RunF, RunDF, PwmOff, KeepPilot
    <2> QED
      BY <1>4, <2>1, RunTells, CommandReported DEF Report!Next
  <1> QED
    BY <1>1, <1>2, <1>3, <1>4 DEF AnyNext, Run, RcdFires

\* ReportsPower: what the link takes the state machine for is what it is, for every
\* set of readings, with relays that obey and with relays that stick.
THEOREM FsmReportsPower ==
    ASSUME ~RcdFitted
    PROVE  SessionSpec => ReportsPower
  <1>1. SessionInit => Report!Init
    BY DEF SessionInit, Init, Report!Init, TellsOfPower, OnlyNews, AboutPower
  <1>2. TypeOK /\ [SessionNext]_<<vars, history>> => [Report!Next]_(Report!report)
    BY ReportStep, SessionStepsAreSteps, NextIsAny DEF sessionSpecVars
  <1>3. SessionInit => TypeOK
    BY TypeInit DEF SessionInit
  <1>4. TypeOK /\ [SessionNext]_<<vars, history>> => TypeOK'
    BY TypeStep, SessionStepsAreSteps, NextIsAny DEF sessionSpecVars
  <1> QED
    BY <1>1, <1>2, <1>3, <1>4, PTL DEF SessionSpec, ReportsPower, Report!Spec

-----------------------------------------------------------------------------
(* The car. *)

AboutCar == AboutPlug \cup AboutRequest

\* A switch command tells nothing of the car.
LEMMA CommandsSayNothing ==
    ASSUME NEW command
    PROVE  Said(PowerEvents(command)) \cap AboutCar = {}
  BY SaidPower DEF AboutCar, AboutPlug, AboutRequest

\* Which events under a condition are about the car.
LEMMA PerhapsAboutCar ==
    ASSUME NEW c
    PROVE  /\ \A e \in AboutCar : Perhaps(c, e) \cap AboutCar = Perhaps(c, e)
           /\ \A e \in Events \ AboutCar : Perhaps(c, e) \cap AboutCar = {}
           /\ AboutCar = {"CarPluggedIn", "CarUnplugged", "CarRequestedPower", "CarRequestedStopPower"}
           /\ {"Error_RCD", "EF_To_BCD", "Error_VentilationNotAvailable"} \subseteq Events \ AboutCar
  BY DEF Perhaps, AboutCar, AboutPlug, AboutRequest, Events

\* State A: unplugged, unless it was A, F or Disabled before.
LEMMA SaidInA ==
    ASSUME RunA
    PROVE  Said(pushed') \cap AboutCar = Perhaps(WasIn(UnplugSources), "CarRequestedStopPower")
                                           \cup Perhaps(WasIn(UnplugSources), "CarUnplugged")
  <1> DEFINE unplugged == WasIn(UnplugSources)
             command == IF unplugged THEN "off" ELSE "keep"
             before == When(unplugged, "CarRequestedStopPower")
             after == When(unplugged, "CarUnplugged")
  <1>1. Recognise("A", command, before, after)
    BY DEF RunA
  <1>2. command \in Commands /\ before \in Seq(Events) /\ after \in Seq(Events)
    BY WhenType DEF Commands, Events
  <1>3. /\ Said(before) = Perhaps(unplugged, "CarRequestedStopPower")
        /\ Said(after) = Perhaps(unplugged, "CarUnplugged")
    BY SaidWhen
  <1> HIDE DEF unplugged, command, before, after
  <1>4. Said(pushed') = Perhaps(rcdFired, "Error_RCD") \cup Said(before)
                          \cup Said(PowerEvents(command)) \cup Said(after)
    BY <1>1, <1>2, SaidRecognised
  <1> QED
    BY <1>3, <1>4, CommandsSayNothing DEF Perhaps, AboutCar, AboutPlug, AboutRequest, unplugged

\* State B: a request withdrawn, or a car plugged in.
LEMMA SaidInB ==
    ASSUME RunB
    PROVE  Said(pushed') \cap AboutCar = Perhaps(~WasIn(QuietBeforeB), "CarRequestedStopPower")
                                           \cup Perhaps(WasIn({"A", "Disabled"}), "CarPluggedIn")
  <1> DEFINE stopped == ~WasIn(QuietBeforeB)
             plugged == WasIn({"A", "Disabled"})
             command == IF stopped THEN "off" ELSE "keep"
             before == When(stopped, "CarRequestedStopPower")
             first == When(plugged, "CarPluggedIn")
             second == When(WasIn(PilotFaulty), "EF_To_BCD")
             after == first \o second
  <1>1. Recognise("B", command, before, after)
    BY DEF RunB
  <1>2. command \in Commands
    BY DEF Commands
  <1>3. before \in Seq(Events) /\ first \in Seq(Events) /\ second \in Seq(Events)
    BY WhenType DEF Events
  <1>4. /\ Said(before) = Perhaps(stopped, "CarRequestedStopPower")
        /\ Said(first) = Perhaps(plugged, "CarPluggedIn")
        /\ Said(second) = Perhaps(WasIn(PilotFaulty), "EF_To_BCD")
    BY SaidWhen
  <1> HIDE DEF stopped, plugged, command, before, first, second, after
  <1>5. after \in Seq(Events) /\ Said(after) = Said(first) \cup Said(second)
    BY <1>3, SaidConcat DEF after
  <1>6. Said(pushed') = Perhaps(rcdFired, "Error_RCD") \cup Said(before)
                          \cup Said(PowerEvents(command)) \cup Said(after)
    BY <1>1, <1>2, <1>3, <1>5, SaidRecognised, SMTT(30)
  <1>7. /\ Said(before) \cap AboutCar = Said(before)
        /\ Said(first) \cap AboutCar = Said(first)
        /\ Said(second) \cap AboutCar = {}
        /\ Perhaps(rcdFired, "Error_RCD") \cap AboutCar = {}
    BY <1>4, PerhapsAboutCar
  <1>8. Said(pushed') \cap AboutCar = Said(before) \cup Said(first)
    BY <1>5, <1>6, <1>7, CommandsSayNothing
  <1> QED
    BY <1>4, <1>8 DEF stopped, plugged

\* State C: a car plugged in, or a request; in simplified mode the request is repeated.
LEMMA SaidInC ==
    ASSUME RunC
    PROVE  Said(pushed') \cap AboutCar =
             Perhaps(WasIn({"A"}), "CarPluggedIn")
               \cup Perhaps(WasIn({"B"}) \/ (MayClose /\ ~prevPwmRunning /\ simplifiedMode'),
                            "CarRequestedPower")
  <1> DEFINE again == MayClose /\ ~prevPwmRunning /\ simplifiedMode'
             first == When(WasIn({"A"}), "CarPluggedIn")
             second == When(WasIn({"B"}), "CarRequestedPower")
             third == When(WasIn(PilotFaulty), "EF_To_BCD")
             before == first \o second \o third
             after == When(again, "CarRequestedPower")
  <1>1. Recognise("C", CommandInC, before, after)
    BY DEF RunC
  <1>2. CommandInC \in Commands
    BY DEF CommandInC, Commands
  <1>3. /\ first \in Seq(Events) /\ second \in Seq(Events) /\ third \in Seq(Events)
        /\ after \in Seq(Events)
    BY WhenType DEF Events
  <1>4. /\ Said(first) = Perhaps(WasIn({"A"}), "CarPluggedIn")
        /\ Said(second) = Perhaps(WasIn({"B"}), "CarRequestedPower")
        /\ Said(third) = Perhaps(WasIn(PilotFaulty), "EF_To_BCD")
        /\ Said(after) = Perhaps(again, "CarRequestedPower")
    BY SaidWhen
  <1> HIDE DEF again, first, second, third, before, after
  <1>5. first \o second \in Seq(Events) /\ Said(first \o second) = Said(first) \cup Said(second)
    BY <1>3, SaidConcat
  <1>6. /\ before \in Seq(Events)
        /\ Said(before) = Said(first \o second) \cup Said(third)
    BY <1>3, <1>5, SaidConcat DEF before
  <1>7. Said(pushed') = Perhaps(rcdFired, "Error_RCD") \cup Said(before)
                          \cup Said(PowerEvents(CommandInC)) \cup Said(after)
    BY <1>1, <1>2, <1>3, <1>6, SaidRecognised
  <1>8. /\ Said(first) \cap AboutCar = Said(first)
        /\ Said(second) \cap AboutCar = Said(second)
        /\ Said(third) \cap AboutCar = {}
        /\ Said(after) \cap AboutCar = Said(after)
        /\ Perhaps(rcdFired, "Error_RCD") \cap AboutCar = {}
    BY <1>4, PerhapsAboutCar
  <1>9. Said(pushed') \cap AboutCar = Said(first) \cup (Said(second) \cup Said(after))
    BY <1>5, <1>6, <1>7, <1>8, CommandsSayNothing
  <1>10. Said(second) \cup Said(after) = Perhaps(WasIn({"B"}) \/ again, "CarRequestedPower")
    BY <1>4 DEF Perhaps
  <1> QED
    BY <1>4, <1>9, <1>10 DEF again

\* State D: both at once if the car was in A before.
LEMMA SaidInD ==
    ASSUME RunD
    PROVE  Said(pushed') \cap AboutCar = Perhaps(WasIn({"A"}), "CarPluggedIn")
                                           \cup Perhaps(WasIn({"A", "B"}), "CarRequestedPower")
  <1> DEFINE missing == MayClose /\ ~power /\ ~hasVentilation
             again == curPwmRunning /\ WasIn({"C"}) /\ ~hasVentilation
             first == When(WasIn({"A"}), "CarPluggedIn")
             second == When(WasIn({"A", "B"}), "CarRequestedPower")
             third == When(WasIn(PilotFaulty), "EF_To_BCD")
             fourth == When(missing, "Error_VentilationNotAvailable")
             before == first \o second \o third \o fourth
             after == When(again, "Error_VentilationNotAvailable")
  <1>1. Recognise("D", CommandInD, before, after)
    BY DEF RunD
  <1>2. CommandInD \in Commands
    BY DEF CommandInD, Commands
  <1>3. /\ first \in Seq(Events) /\ second \in Seq(Events) /\ third \in Seq(Events)
        /\ fourth \in Seq(Events) /\ after \in Seq(Events)
    BY WhenType DEF Events
  <1>4. /\ Said(first) = Perhaps(WasIn({"A"}), "CarPluggedIn")
        /\ Said(second) = Perhaps(WasIn({"A", "B"}), "CarRequestedPower")
        /\ Said(third) = Perhaps(WasIn(PilotFaulty), "EF_To_BCD")
        /\ Said(fourth) = Perhaps(missing, "Error_VentilationNotAvailable")
        /\ Said(after) = Perhaps(again, "Error_VentilationNotAvailable")
    BY SaidWhen
  <1> HIDE DEF missing, again, first, second, third, fourth, before, after
  <1>5. first \o second \in Seq(Events) /\ Said(first \o second) = Said(first) \cup Said(second)
    BY <1>3, SaidConcat
  <1>6. /\ first \o second \o third \in Seq(Events)
        /\ Said(first \o second \o third) = Said(first \o second) \cup Said(third)
    BY <1>3, <1>5, SaidConcat
  <1>7. /\ before \in Seq(Events)
        /\ Said(before) = Said(first \o second \o third) \cup Said(fourth)
    BY <1>3, <1>6, SaidConcat DEF before
  <1>8. Said(pushed') = Perhaps(rcdFired, "Error_RCD") \cup Said(before)
                          \cup Said(PowerEvents(CommandInD)) \cup Said(after)
    BY <1>1, <1>2, <1>3, <1>7, SaidRecognised
  <1>9. /\ Said(first) \cap AboutCar = Said(first)
        /\ Said(second) \cap AboutCar = Said(second)
        /\ Said(third) \cap AboutCar = {}
        /\ Said(fourth) \cap AboutCar = {}
        /\ Said(after) \cap AboutCar = {}
        /\ Perhaps(rcdFired, "Error_RCD") \cap AboutCar = {}
    BY <1>4, PerhapsAboutCar
  <1>10. Said(pushed') \cap AboutCar = Said(first) \cup Said(second)
    BY <1>5, <1>6, <1>7, <1>8, <1>9, CommandsSayNothing
  <1> QED
    BY <1>4, <1>10

\* A plain session is in A, B, C or D, and in A simplified mode has ended.
PlainStates == plainSession => prevState \in {"A", "B", "C", "D"} /\ (prevState = "A" => ~simplifiedMode)

CarReport == PlainStates /\ PlugReportExact /\ RequestReportExact

\* The reports of a plain session are exact.
LEMMA CarReportStep ==
    ASSUME SessionTypeOK, CarReport, [SessionNext]_sessionSpecVars
    PROVE  CarReport'
  <1> USE DEF CarReport, PlainStates, PlugReportExact, RequestReportExact
  <1>1. CASE UNCHANGED sessionSpecVars
    BY <1>1 DEF sessionSpecVars, vars, sessionVars, history
  <1>2. CASE SessionNext
    <2>1. /\ heardPlugged' \in Known(heardPlugged, PlugNews)
          /\ heardRequested' \in Known(heardRequested, RequestNews)
      BY <1>2 DEF SessionNext, Listen
    <2>n. /\ Said(pushed') \cap AboutPlug = {} => heardPlugged' = heardPlugged
          /\ \A e \in AboutPlug :
                Said(pushed') \cap AboutPlug = {e} => heardPlugged' = (e = "CarPluggedIn")
          /\ Said(pushed') \cap AboutRequest = {} => heardRequested' = heardRequested
          /\ \A e \in AboutRequest :
                Said(pushed') \cap AboutRequest = {e} => heardRequested' = (e = "CarRequestedPower")
      BY <2>1, KnownNews, News
    <2>2. /\ Said(pushed') \cap AboutPlug = {} => heardPlugged' = heardPlugged
          /\ Said(pushed') \cap AboutPlug = {"CarPluggedIn"} => heardPlugged' = TRUE
          /\ Said(pushed') \cap AboutPlug = {"CarUnplugged"} => heardPlugged' = FALSE
      BY <2>n DEF AboutPlug
    <2>3. /\ Said(pushed') \cap AboutRequest = {} => heardRequested' = heardRequested
          /\ Said(pushed') \cap AboutRequest = {"CarRequestedPower"} => heardRequested' = TRUE
          /\ Said(pushed') \cap AboutRequest = {"CarRequestedStopPower"} => heardRequested' = FALSE
      BY <2>n DEF AboutRequest
    <2>t. prevState \in CPStates
      BY DEF SessionTypeOK, TypeOK
    <2>4. CASE CallStep
      <3>1. UNCHANGED plainSession
        BY <2>4 DEF CallStep
      <3> QED
        BY <2>2, <2>3, <2>4, <3>1, CallsSayNothing
    <2>5. ASSUME NEW cp \in Readings, RunStep(cp)
          PROVE  CarReport'
      <3>1. plainSession' => \/ Recognised(cp) = "A" /\ prevState \in {"B", "C", "D", "E", "DF"}
                             \/ plainSession /\ Recognised(cp) \in {"A", "B", "C", "D", Unstable}
        BY <2>5 DEF RunStep
      <3>2. CASE ~plainSession'
        BY <3>2
      <3>3. CASE plainSession' /\ Recognised(cp) = Unstable
        <4>1. plainSession /\ RunUnstable
          BY <2>5, <3>1, <3>3 DEF RunStep, Run, Unstable
        <4>2. Said(pushed') \cap AboutPlug = {} /\ Said(pushed') \cap AboutRequest = {}
          BY <4>1, UnstableSaysLittle DEF AboutPlug, AboutRequest
        <4> QED
          BY <2>2, <2>3, <4>1, <4>2, UnstableSaysLittle
      <3>4. CASE plainSession' /\ Recognised(cp) = "A"
        <4>1. RunA /\ prevState' = "A" /\ simplifiedMode' = FALSE
          BY <2>5, <3>4 DEF RunStep, Run, RunA, Recognise, Unstable
        <4>2. CASE WasIn(UnplugSources)
          <5>1. /\ Said(pushed') \cap AboutPlug = {"CarUnplugged"}
                /\ Said(pushed') \cap AboutRequest = {"CarRequestedStopPower"}
            BY <4>1, <4>2, SaidInA DEF Perhaps, AboutCar, AboutPlug, AboutRequest
          <5> QED
            BY <2>2, <2>3, <4>1, <5>1
        <4>3. CASE ~WasIn(UnplugSources)
          <5>1. Said(pushed') \cap AboutPlug = {} /\ Said(pushed') \cap AboutRequest = {}
            BY <4>1, <4>3, SaidInA DEF Perhaps, AboutCar
          <5>2. plainSession /\ prevState = "A"
            BY <3>1, <3>4, <4>3, <2>t DEF WasIn, UnplugSources, CPStates
          <5> QED
            BY <2>2, <2>3, <4>1, <5>1, <5>2
        <4> QED
          BY <4>2, <4>3
      <3>5. CASE plainSession' /\ Recognised(cp) = "B"
        <4>1. RunB /\ plainSession /\ prevState' = "B"
          BY <2>5, <3>1, <3>5 DEF RunStep, Run, RunB, Recognise, Unstable
        <4>2. prevState # "A" => simplifiedMode' = simplifiedMode
          BY <4>1, <2>t DEF RunB, WasIn, SessionTypeOK, TypeOK
        <4>3. CASE prevState = "A"
          <5>1. /\ Said(pushed') \cap AboutPlug = {"CarPluggedIn"}
                /\ Said(pushed') \cap AboutRequest = {}
            BY <4>1, <4>3, SaidInB
               DEF Perhaps, AboutCar, AboutPlug, AboutRequest, WasIn, QuietBeforeB
          <5> QED
            BY <2>2, <2>3, <4>1, <4>3, <5>1
        <4>4. CASE prevState = "B"
          <5>1. Said(pushed') \cap AboutPlug = {} /\ Said(pushed') \cap AboutRequest = {}
            BY <4>1, <4>4, SaidInB DEF Perhaps, AboutCar, WasIn, QuietBeforeB
          <5> QED
            <6>1. heardPlugged' = heardPlugged /\ heardRequested' = heardRequested
              BY <2>2, <2>3, <5>1
            <6>2. heardPlugged /\ (~simplifiedMode => ~heardRequested)
              BY <4>1, <4>4
            <6>3. simplifiedMode' = simplifiedMode
              BY <4>2, <4>4
            <6> QED
              BY <4>1, <6>1, <6>2, <6>3
        <4>5. CASE prevState \in {"C", "D"}
          <5>1. /\ Said(pushed') \cap AboutPlug = {}
                /\ Said(pushed') \cap AboutRequest = {"CarRequestedStopPower"}
            BY <4>1, <4>5, SaidInB
               DEF Perhaps, AboutCar, AboutPlug, AboutRequest, WasIn, QuietBeforeB
          <5> QED
            BY <2>2, <2>3, <4>1, <4>5, <5>1
        <4> QED
          BY <4>1, <4>3, <4>4, <4>5
      <3>6. CASE plainSession' /\ Recognised(cp) = "C"
        <4>1. /\ RunC /\ plainSession /\ prevState' = "C"
              /\ simplifiedMode' = (simplifiedMode \/ prevState = "A")
          BY <2>5, <3>1, <3>6 DEF RunStep, Run, RunC, Recognise, Unstable, WasIn
        <4>2. /\ Said(pushed') \cap AboutPlug = Perhaps(prevState = "A", "CarPluggedIn")
              /\ Said(pushed') \cap AboutRequest
                   = Perhaps(prevState = "B" \/ (MayClose /\ ~prevPwmRunning /\ simplifiedMode'),
                             "CarRequestedPower")
          BY <4>1, SaidInC DEF Perhaps, AboutCar, AboutPlug, AboutRequest, WasIn
        <4>3. heardPlugged' = TRUE
          BY <2>2, <4>1, <4>2 DEF Perhaps, SessionTypeOK
        <4>4. ~simplifiedMode' => heardRequested' = TRUE
          BY <2>3, <4>1, <4>2 DEF Perhaps, SessionTypeOK
        <4> QED
          BY <4>1, <4>3, <4>4
      <3>7. CASE plainSession' /\ Recognised(cp) = "D"
        <4>1. /\ RunD /\ plainSession /\ prevState' = "D"
              /\ simplifiedMode' = (simplifiedMode \/ prevState = "A")
          BY <2>5, <3>1, <3>7 DEF RunStep, Run, RunD, Recognise, Unstable, WasIn
        <4>2. /\ Said(pushed') \cap AboutPlug = Perhaps(prevState = "A", "CarPluggedIn")
              /\ Said(pushed') \cap AboutRequest
                   = Perhaps(prevState \in {"A", "B"}, "CarRequestedPower")
          BY <4>1, SaidInD DEF Perhaps, AboutCar, AboutPlug, AboutRequest, WasIn
        <4>3. heardPlugged' = TRUE
          BY <2>2, <4>1, <4>2 DEF Perhaps, SessionTypeOK
        <4>4. ~simplifiedMode' => heardRequested' = TRUE
          BY <2>3, <4>1, <4>2 DEF Perhaps, SessionTypeOK
        <4> QED
          BY <4>1, <4>3, <4>4
      <3> QED
        BY <3>1, <3>2, <3>3, <3>4, <3>5, <3>6, <3>7
    <2> QED
      BY <1>2, <2>4, <2>5 DEF SessionNext
  <1> QED
    BY <1>1, <1>2

-----------------------------------------------------------------------------
\* The initial states.
LEMMA SessionInits ==
    SessionInit => SessionTypeOK /\ PowerReportExact /\ CarReport
  BY TypeInit DEF SessionInit, Init, SessionTypeOK, PowerReportExact, CarReport, PlainStates,
                  PlugReportExact, RequestReportExact

\* SessionTypeOK: the listener knows a truth value whatever is pushed.
THEOREM SessionTypeCorrect == SessionSpec => []SessionTypeOK
  <1>1. SessionTypeOK /\ [SessionNext]_<<vars, history>> => SessionTypeOK'
    BY SessionTypeStep DEF sessionSpecVars
  <1> QED
    BY <1>1, SessionInits, PTL DEF SessionSpec

\* PowerReportExact: PowerOn and PowerOff are sent for every change of the
\* contactor and for nothing else, also by commands that fail (lines 342-380).
THEOREM PowerReports ==
    ASSUME ~RcdFitted
    PROVE  SessionSpec => []PowerReportExact
  <1>1. SessionTypeOK /\ PowerReportExact /\ [SessionNext]_<<vars, history>> => PowerReportExact'
    BY PowerReportStep DEF sessionSpecVars
  <1> QED
    BY <1>1, SessionInits, SessionTypeCorrect, PTL DEF SessionSpec

\* PlugReportExact: in a session without faults the car is reported as plugged
\* in exactly while it is, by whichever of the states B, C and D came first.
THEOREM PlugReports == SessionSpec => []PlugReportExact
  <1>1. SessionTypeOK /\ CarReport /\ [SessionNext]_<<vars, history>> => CarReport'
    BY CarReportStep DEF sessionSpecVars
  <1>2. CarReport => PlugReportExact
    BY DEF CarReport
  <1> QED
    BY <1>1, <1>2, SessionInits, SessionTypeCorrect, PTL DEF SessionSpec

\* RequestReportExact: so is its request for power, outside simplified mode.
THEOREM RequestReports == SessionSpec => []RequestReportExact
  <1>1. SessionTypeOK /\ CarReport /\ [SessionNext]_<<vars, history>> => CarReport'
    BY CarReportStep DEF sessionSpecVars
  <1>2. CarReport => RequestReportExact
    BY DEF CarReport
  <1> QED
    BY <1>1, <1>2, SessionInits, SessionTypeCorrect, PTL DEF SessionSpec

-----------------------------------------------------------------------------
(* The deadline of load shedding.                                          *)

timedVars == <<vars, clock>>

\* The countdown of a closed contactor without PWM was below its period at the
\* last recognised reading and has counted since, without going round.
CountdownKept ==
    power /\ ~prevPwmRunning => pwmStop.running /\ pwmStop.age < PwmStopTicks + gap

\* Nothing is remembered of a load that has PWM or is gone.
IdleClock == ~Shedding => offAge = 0 /\ ~disturbed

\* Before a run has seen the PWM stopped, at most one tick has passed ...
StopUnseen ==
    Shedding /\ ~disturbed /\ prevPwmRunning => offAge <= 1 /\ (polled => offAge = 0)

\* ... and since then the countdown is at most one tick behind.
StopSeen ==
    Shedding /\ ~disturbed /\ ~prevPwmRunning =>
        /\ offAge <= pwmStop.age + 1
        /\ offAge <= Deadline
        /\ polled => offAge <= PwmStopTicks

TimedInv ==
    /\ TimedTypeOK /\ Safety
    /\ CountdownKept /\ IdleClock /\ StopUnseen /\ StopSeen

-----------------------------------------------------------------------------
\* Every step in the main loop is a step of the state machine.
LEMMA TimedStepsAreSteps == [TimedNext]_timedVars => [Next]_vars
  <1>1. HandleMessage => Next
    BY DEF HandleMessage, Next
  <1>2. Poll => Next
    BY DEF Poll, PollRun, Next
  <1>3. TimedTick => Next
    BY DEF TimedTick, Next
  <1> QED
    BY <1>1, <1>2, <1>3 DEF TimedNext, timedVars

\* A method called for a message leaves contactor, countdown and what the last
\* reading said alone.
LEMMA MessageKeeps ==
    ASSUME Message
    PROVE  UNCHANGED <<power, prevState, prevPwmRunning, pwmStop>>
  BY DEF Message, SetPwmOff, SetPwmOn, SetPwmF, Enable, Disable, AllowPowerOn, sessionVars, halVars

\* The types of the clock.
LEMMA TimedTypeStep ==
    ASSUME TimedTypeOK, [TimedNext]_timedVars
    PROVE  TimedTypeOK'
  <1>t. TypeOK /\ TypeOK'
    BY TypeStep, TimedStepsAreSteps, NextIsAny DEF TimedTypeOK
  <1>b. /\ PwmStopTicks \in Nat /\ MaxUnstableTicks \in Nat
        /\ polled \in BOOLEAN /\ disturbed \in BOOLEAN
        /\ gap \in 0 .. MaxUnstableTicks /\ offAge \in 0 .. PwmStopTicks + 2
    BY FsmAssumption, TimedAssumption DEF TimedTypeOK, OffAgeBound, Deadline
  <1>s. Shedding \in BOOLEAN /\ Shedding' \in BOOLEAN
    BY DEF Shedding
  <1>g. SUFFICES /\ polled' \in BOOLEAN /\ disturbed' \in BOOLEAN
                 /\ gap' \in 0 .. MaxUnstableTicks /\ offAge' \in 0 .. PwmStopTicks + 2
    BY <1>t, <1>b DEF TimedTypeOK, OffAgeBound, Deadline
  <1>1. CASE HandleMessage
    BY <1>b, <1>s, <1>1 DEF HandleMessage
  <1>2. CASE Poll
    <2>1. PICK cp \in Readings : PollRun(cp)
      BY <1>2 DEF Poll
    <2>2. disturbed' \in BOOLEAN
      BY <2>1, <1>s DEF PollRun
    <2> QED
      BY <2>1, <2>2, <1>b DEF PollRun
  <1>3. CASE TimedTick
    <2>1. polled' \in BOOLEAN /\ disturbed' \in BOOLEAN
      BY <1>b, <1>3 DEF TimedTick
    <2>2. OffAgeBound = PwmStopTicks + 2
      BY <1>b DEF OffAgeBound, Deadline
    <2>3. gap' \in 0 .. MaxUnstableTicks /\ offAge' \in 0 .. PwmStopTicks + 2
      BY <1>b, <1>3, <2>2 DEF TimedTick
    <2> QED
      BY <2>1, <2>3
  <1>4. CASE UNCHANGED timedVars
    BY <1>b, <1>4 DEF timedVars, clock
  <1> QED
    BY <1>1, <1>2, <1>3, <1>4 DEF TimedNext

\* A tick without a wrap: the countdown of a load that has lost its PWM is aged
\* by one, because readings cannot have been unstable for that long.
LEMMA TickAges ==
    ASSUME TimedTypeOK, CountdownKept, TimedTick, power, ~prevPwmRunning
    PROVE  pwmStop'.running /\ pwmStop'.age = pwmStop.age + 1
  <1>1. pwmStop \in Countdowns /\ gap \in 0 .. MaxUnstableTicks
    BY DEF TimedTypeOK, TypeOK
  <1>2. pwmStop.running /\ pwmStop.age < PwmStopTicks + gap
    BY DEF CountdownKept
  <1>3. pwmStop.age # TickWrap - 1
    BY <1>1, <1>2, FsmAssumption, TimedAssumption DEF TimedTick, Countdowns
  <1> QED
    BY <1>1, <1>2, <1>3 DEF TimedTick, Tick, Aged, Countdowns

\* Without unstable readings the time without PWM never exceeds the deadline.
LEMMA InvMessage ==
    ASSUME TimedInv, HandleMessage
    PROVE  (CountdownKept /\ IdleClock /\ StopUnseen /\ StopSeen)'
  <1>1. /\ UNCHANGED <<power, prevState, prevPwmRunning, pwmStop, polled, gap>>
        /\ offAge' = IF Shedding' THEN offAge ELSE 0
        /\ disturbed' = (disturbed /\ Shedding')
    BY MessageKeeps DEF HandleMessage
  <1>2. TimedTypeOK
    BY DEF TimedInv
  <1>3. ~Shedding => offAge = 0 /\ ~disturbed
    BY DEF TimedInv, IdleClock
  <1>4. CountdownKept'
    BY <1>1 DEF TimedInv, CountdownKept
  <1>5. IdleClock'
    BY <1>1 DEF IdleClock
  <1>6. StopUnseen'
    BY <1>1, <1>3, <1>2 DEF TimedInv, StopUnseen, TimedTypeOK
  <1>7. StopSeen'
    BY <1>1, <1>3, <1>2, FsmAssumption
       DEF TimedInv, StopSeen, TimedTypeOK, TypeOK, Countdowns, Deadline
  <1> QED
    BY <1>4, <1>5, <1>6, <1>7

\* A tick.
LEMMA InvTick ==
    ASSUME TimedInv, TimedTick
    PROVE  (CountdownKept /\ IdleClock /\ StopUnseen /\ StopSeen)'
  <1>1. /\ UNCHANGED <<power, curPwmRunning, prevPwmRunning, disturbed>>
        /\ polled /\ ~polled' /\ gap' = gap + 1
        /\ offAge' = IF Shedding /\ offAge < OffAgeBound THEN offAge + 1 ELSE offAge
        /\ Shedding' = Shedding
    BY DEF TimedTick, Tick, halVars, Shedding
  <1>2. /\ PwmStopTicks \in Nat \ {0} /\ gap \in Nat /\ offAge \in 0 .. PwmStopTicks + 2
        /\ pwmStop.age \in Int
    BY FsmAssumption, TimedAssumption
       DEF TimedInv, TimedTypeOK, TypeOK, Countdowns, OffAgeBound, Deadline
  <1>3. power /\ ~prevPwmRunning
          => /\ pwmStop.running /\ pwmStop.age < PwmStopTicks + gap
             /\ pwmStop'.running /\ pwmStop'.age = pwmStop.age + 1
    BY TickAges DEF TimedInv, CountdownKept
  <1>4. CountdownKept'
    BY <1>1, <1>2, <1>3 DEF CountdownKept
  <1>5. IdleClock'
    BY <1>1 DEF TimedInv, IdleClock
  <1>6. StopUnseen'
    BY <1>1, <1>2 DEF TimedInv, StopUnseen
  <1>7. StopSeen'
    BY <1>1, <1>2, <1>3 DEF TimedInv, StopSeen, Deadline, Shedding
  <1> QED
    BY <1>4, <1>5, <1>6, <1>7

\* A reading that is not recognised.
LEMMA InvUnstable ==
    ASSUME TimedInv, RunUnstable,
           polled' = TRUE, gap' = gap,
           offAge' = IF Shedding' THEN offAge ELSE 0, disturbed' = Shedding'
    PROVE  (CountdownKept /\ IdleClock /\ StopUnseen /\ StopSeen)'
  <1>1. UNCHANGED <<power, prevPwmRunning, pwmStop>>
    BY DEF RunUnstable, sessionVars
  <1>2. CountdownKept'
    BY <1>1 DEF TimedInv, CountdownKept
  <1> QED
    BY <1>2 DEF IdleClock, StopUnseen, StopSeen, Shedding

\* A reading that is recognised.
LEMMA InvRecognised ==
    ASSUME TimedInv, ~RelayCanStick,
           RunDisabled \/ RunA \/ RunB \/ RunC \/ RunD \/ RunE \/ RunF \/ RunDF,
           polled' = TRUE, gap' = 0,
           offAge' = IF Shedding' THEN offAge ELSE 0, disturbed' = (Shedding' /\ disturbed)
    PROVE  (CountdownKept /\ IdleClock /\ StopUnseen /\ StopSeen)'
  <1>t. /\ TypeOK /\ PwmStopTicks \in Nat \ {0} /\ gap \in Nat
        /\ offAge \in 0 .. PwmStopTicks + 2 /\ pwmStop.age \in Int
    BY FsmAssumption, TimedAssumption
       DEF TimedInv, TimedTypeOK, TypeOK, Countdowns, OffAgeBound, Deadline
  <1>i. IdleClock'
    BY DEF IdleClock
  <1>1. CASE RunDisabled \/ RunA \/ RunB \/ RunE \/ RunF \/ RunDF
    <2>1. power' = FALSE
      BY <1>1, <1>t, OtherStatesOpen DEF TimedInv, Safety
    <2> QED
      BY <2>1, <1>i DEF CountdownKept, StopUnseen, StopSeen, Shedding
  <1>2. CASE RunC \/ RunD
    <2>1. /\ prevPwmRunning' = curPwmRunning /\ curPwmRunning' = curPwmRunning
          /\ pwmStop' = PwmStopNext
          /\ power' # power => IF power' THEN MayClose ELSE StopDue
          /\ StopDue => ~power'
      BY <1>2, <1>t, ServeMoves
    <2>2. StopUnseen'
      BY <2>1 DEF StopUnseen, Shedding
    <2>3. CASE ~(power' /\ ~curPwmRunning)
      BY <1>i, <2>1, <2>2, <2>3 DEF CountdownKept, StopSeen, Shedding
    <2>4. CASE power' /\ ~curPwmRunning
      <3>1. power /\ Shedding /\ Shedding'
        BY <2>1, <2>4, <1>t DEF MayClose, Shedding, TypeOK
      <3>o. offAge' = offAge /\ (disturbed' <=> disturbed)
        BY <3>1
      <3>2. CASE prevPwmRunning
        <4>1. pwmStop' = Started
          BY <2>1, <2>4, <3>2 DEF PwmStopNext
        <4>2. ~disturbed => offAge <= 1
          BY <3>1, <3>2 DEF TimedInv, StopUnseen
        <4> QED
          <5>1. CountdownKept'
            BY <1>t, <4>1 DEF CountdownKept, Started
          <5>2. StopSeen'
            <6>1. ~disturbed' => offAge' <= 1
              BY <3>o, <4>2
            <6>2. pwmStop'.age = 0
              BY <4>1 DEF Started
            <6> QED
              BY <1>t, <3>o, <6>1, <6>2 DEF StopSeen, Deadline
          <5> QED
            BY <1>i, <2>2, <5>1, <5>2
      <3>3. CASE ~prevPwmRunning
        <4>1. pwmStop' = pwmStop /\ pwmStop.running
          BY <2>1, <3>1, <3>3 DEF PwmStopNext, TimedInv, CountdownKept
        <4>2. pwmStop.age < PwmStopTicks
          BY <1>t, <2>1, <2>4, <3>3, <4>1 DEF StopDue, Elapsed
        <4>3. ~disturbed => offAge <= pwmStop.age + 1
          BY <3>1, <3>3 DEF TimedInv, StopSeen
        <4> QED
          <5>1. CountdownKept'
            BY <1>t, <4>1, <4>2 DEF CountdownKept
          <5>2. StopSeen'
            <6>1. ~disturbed' => offAge' <= pwmStop'.age + 1
              BY <3>o, <4>1, <4>3
            <6>2. pwmStop'.age < PwmStopTicks /\ pwmStop'.age \in Int
              BY <1>t, <4>1, <4>2
            <6> QED
              BY <1>t, <3>o, <6>1, <6>2 DEF StopSeen, Deadline
          <5> QED
            BY <1>i, <2>2, <5>1, <5>2
      <3> QED
        BY <3>2, <3>3
    <2> QED
      BY <2>3, <2>4
  <1> QED
    BY <1>1, <1>2

\* The invariant is inductive.
LEMMA TimedInvStep ==
    ASSUME TimedInv, ~RelayCanStick, [TimedNext]_timedVars
    PROVE  TimedInv'
  <1>t. TimedTypeOK'
    BY TimedTypeStep DEF TimedInv
  <1>s. Safety'
    BY SafetyStep, TimedStepsAreSteps, NextIsAny DEF TimedInv, TimedTypeOK
  <1>1. CASE HandleMessage
    BY <1>t, <1>s, <1>1, InvMessage DEF TimedInv
  <1>2. CASE Poll
    <2> PICK cp \in Readings : PollRun(cp)
      BY <1>2 DEF Poll
    <2>1. CASE Recognised(cp) = Unstable
      <3>1. RunUnstable
        BY <2>1 DEF PollRun, Run, Unstable
      <3>2. polled' = TRUE /\ gap' = gap /\ offAge' = IF Shedding' THEN offAge ELSE 0
        BY <2>1 DEF PollRun
      <3>3. disturbed' = Shedding'
        BY <2>1 DEF PollRun, Shedding
      <3> QED
        BY <1>t, <1>s, <3>1, <3>2, <3>3, InvUnstable DEF TimedInv
    <2>2. CASE Recognised(cp) # Unstable
      <3>1. RunDisabled \/ RunA \/ RunB \/ RunC \/ RunD \/ RunE \/ RunF \/ RunDF
        BY <2>2 DEF PollRun, Run
      <3>2. disturbed' = (Shedding' /\ disturbed) /\ gap' = 0 /\ polled' = TRUE
            /\ offAge' = IF Shedding' THEN offAge ELSE 0
        BY <2>2 DEF PollRun
      <3> QED
        BY <1>t, <1>s, <3>1, <3>2, InvRecognised DEF TimedInv
    <2> QED
      BY <2>1, <2>2
  <1>3. CASE TimedTick
    BY <1>t, <1>s, <1>3, InvTick DEF TimedInv
  <1>4. CASE UNCHANGED timedVars
    BY <1>t, <1>s, <1>4
       DEF TimedInv, timedVars, vars, clock, sessionVars, halVars,
           CountdownKept, IdleClock, StopUnseen, StopSeen, Shedding
  <1> QED
    BY <1>1, <1>2, <1>3, <1>4 DEF TimedNext

\* The initial clock.
LEMMA ClockInit ==
    ASSUME TimedInit
    PROVE  /\ polled \in BOOLEAN /\ disturbed \in BOOLEAN
           /\ gap \in 0 .. MaxUnstableTicks /\ offAge \in 0 .. OffAgeBound
  <1>1. polled \in BOOLEAN /\ disturbed \in BOOLEAN
    BY DEF TimedInit
  <1>2. gap = 0 /\ offAge = 0
    BY DEF TimedInit
  <1>3. MaxUnstableTicks \in Nat /\ OffAgeBound \in Nat
    BY FsmAssumption, TimedAssumption DEF OffAgeBound, Deadline
  <1> QED
    BY <1>1, <1>2, <1>3

\* The initial states.
LEMMA TimedInvInit == TimedInit => TimedInv
  <1> SUFFICES ASSUME TimedInit
               PROVE  TimedInv
    OBVIOUS
  <1>1. TypeOK /\ Safety
    BY TypeInit, SafetyInit DEF TimedInit
  <1>2. TimedTypeOK
    BY <1>1, ClockInit DEF TimedTypeOK
  <1>3. power = FALSE /\ offAge = 0 /\ ~disturbed
    BY DEF TimedInit, Init
  <1> QED
    BY <1>1, <1>2, <1>3 DEF TimedInv, CountdownKept, IdleClock, StopUnseen, StopSeen, Shedding

-----------------------------------------------------------------------------
\* TimedTypeOK: the counters of the main loop's clock stay within their ranges,
\* with and without relays that stick.
THEOREM TimedTypeCorrect == TimedSpec => []TimedTypeOK
  <1>1. TimedInit => TimedTypeOK
    <2>1. TimedInit => TypeOK
      BY TypeInit DEF TimedInit
    <2> QED
      BY <2>1, ClockInit DEF TimedTypeOK
  <1>2. TimedTypeOK /\ [TimedNext]_<<vars, clock>> => TimedTypeOK'
    BY TimedTypeStep DEF timedVars
  <1> QED
    BY <1>1, <1>2, PTL DEF TimedSpec

\* LoadShedInTime: with every reading recognised, a contactor closed without PWM
\* is open PwmStopTicks after the first iteration that saw the PWM stopped,
\* whatever messages arrive on the way (lines 148-158 and 193-200).
THEOREM LoadsShedInTime ==
    ASSUME ~RelayCanStick
    PROVE  TimedSpec => []LoadShedInTime
  <1>1. TimedInit => TimedInv
    BY TimedInvInit
  <1>2. TimedInv /\ [TimedNext]_<<vars, clock>> => TimedInv'
    BY TimedInvStep DEF timedVars
  <1>3. TimedInv => LoadShedInTime
    BY FsmAssumption
       DEF TimedInv, StopUnseen, StopSeen, LoadShedInTime, TimedTypeOK, OffAgeBound, Deadline, TypeOK
  <1> QED
    BY <1>1, <1>2, <1>3, PTL DEF TimedSpec
=============================================================================
