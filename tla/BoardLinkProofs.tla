--------------------------- MODULE BoardLinkProofs ---------------------------
(***************************************************************************)
(* Proofs about BoardLink, for any number of threads, endpoints, buffers,  *)
(* calls, restarts and messages of other processes.                        *)
(***************************************************************************)
EXTENDS BoardLink, TLAPS

-----------------------------------------------------------------------------
(* The endpoint alone, under its own Init, Next and Spec of RpmsgEndpoint *)

\* Queue and semaphore change together only in the interrupt; the task takes
\* the semaphore first, so the message it was woken for is still counted.
EndpointInv == EndpointTypeOK /\ BacklogExact

LEMMA EndpointInit == Init => EndpointInv
  BY EndpointAssumption DEF Init, EndpointInv, EndpointTypeOK, BacklogExact, InRecv, Statuses

LEMMA EndpointStep == EndpointInv /\ [Next]_vars => EndpointInv'
<1> SUFFICES ASSUME EndpointInv, [Next]_vars PROVE EndpointInv'
  OBVIOUS
<1> USE EndpointAssumption DEF EndpointInv, EndpointTypeOK, BacklogExact, InRecv, Statuses
<1>1. ASSUME NEW message \in Messages, Arrive(message) PROVE EndpointInv'
  <2>1. queue' \in Seq(Messages) /\ Len(queue') = Len(queue) + 1
    BY <1>1 DEF Arrive
  <2>2. watched' \in 0 .. QueueLimit
    BY <1>1 DEF Arrive
  <2> QED
    BY <1>1, <2>1, <2>2 DEF Arrive, PendingAfterGive
<1>2. CASE Take
  BY <1>2 DEF Take, MayTake
<1>3. CASE TimeOut
  BY <1>3 DEF TimeOut
<1>4. CASE Receive
  <2>1. /\ queue' \in Seq(Messages) /\ Len(queue') = Len(queue) - 1
        /\ Head(queue) \in Messages
    BY <1>4 DEF Receive
  <2>2. peer' \in Endpoints \cup {NoPeer} /\ status' \in Statuses
    BY <1>4, <2>1 DEF Receive, Messages
  <2> QED
    BY <1>4, <2>1, <2>2 DEF Receive
<1>5. CASE Iterate
  BY <1>5 DEF Iterate
<1>6. CASE UNCHANGED vars
  BY <1>6 DEF vars
<1> QED
  BY <1>1, <1>2, <1>3, <1>4, <1>5, <1>6 DEF Next, GetMsg

\* The endpoint keeps its types, and the backlog is exact, whatever the order
\* of interrupts and of the steps of the main task (rpmsg.cpp, lines 32-74).
THEOREM EndpointCorrect == Spec => [](EndpointTypeOK /\ BacklogExact)
<1>1. EndpointInv => EndpointTypeOK /\ BacklogExact
  BY DEF EndpointInv
<1> QED
  BY EndpointInit, EndpointStep, <1>1, PTL DEF Spec

\* The queue, the semaphore and the outcome of get_msg keep their types.
THEOREM EndpointTypesKept == Spec => []EndpointTypeOK
  BY EndpointCorrect, PTL

\* Every message in the queue has its count in the semaphore, but for those
\* whose give the full semaphore refused (rpmsg.cpp, lines 36-42).
THEOREM BacklogsExact == Spec => []BacklogExact
  BY EndpointCorrect, PTL

\* DebugP_assert(status == SystemP_SUCCESS) in get_msg never stops the main
\* task: after a successful take there is a message to receive.
THEOREM RecvSafe == Spec => []RecvNeverFails
<1>1. EndpointInv => RecvNeverFails
  BY DEF EndpointInv, EndpointTypeOK, BacklogExact, InRecv, RecvNeverFails
<1> QED
  BY EndpointInit, EndpointStep, <1>1, PTL DEF Spec

-----------------------------------------------------------------------------
(* The link: restarts, lost messages and threads *)

\* The lock protects what lies between encoding and writing.
Exclusive ==
    /\ \A t \in Threads :
          /\ stage[t] \in {"locked", "encoded"} => mutex = t
          /\ stage[t] = "encoded" => out_buf = job[t]
          /\ stage[t] # "out" => endpoint # NoPeer
    /\ reader # "none" => endpoint # NoPeer

\* The event sent last, if it is neither lost nor delivered yet, is the last one
\* on its way, and it says what the contactor is.
InSight ==
    /\ event # "none" => event = power
    /\ event = "none" /\ fate = "sent" =>
          power = IF uplink = <<>> THEN believed ELSE uplink[Len(uplink)].event
    /\ fate = "none" => uplink = <<>> /\ believed = "off" /\ (event = "none" => power = "off")

\* Without a restart and without other processes only one endpoint is ever seen.
Alone ==
    restarts = 0 /\ strays = 0 =>
        /\ \A i \in DOMAIN queue : queue[i].from = endpoint
        /\ \A i \in DOMAIN uplink : uplink[i].to = endpoint
        /\ peer # NoPeer => peer = endpoint
        /\ fate # "discarded"

LinkInv == EndpointInv /\ LinkTypeOK /\ Exclusive /\ InSight /\ Alone

-----------------------------------------------------------------------------
\* What the first element leaves behind.
LEMMA TailFacts ==
  ASSUME NEW S, NEW s \in Seq(S), s # <<>>
  PROVE  /\ Len(s) \in Nat \ {0} /\ Len(Tail(s)) = Len(s) - 1
         /\ Tail(s) \in Seq(S) /\ Head(s) \in S
         /\ \A i \in 1 .. Len(s) - 1 : Tail(s)[i] = s[i + 1]
         /\ Tail(s) = <<>> <=> Len(s) = 1
<1>1. Len(s) \in Nat \ {0} /\ Len(Tail(s)) = Len(s) - 1
  OBVIOUS
<1>2. Tail(s) \in Seq(S) /\ Head(s) \in S
  OBVIOUS
<1>3. \A i \in 1 .. Len(s) - 1 : Tail(s)[i] = s[i + 1]
  OBVIOUS
<1>4. Tail(s) = <<>> <=> Len(s) = 1
  BY <1>1, <1>2
<1> QED
  BY <1>1, <1>2, <1>3, <1>4

LEMMA Elements ==
  ASSUME NEW S, NEW s \in Seq(S), NEW i \in DOMAIN s PROVE s[i] \in S
  OBVIOUS

LEMMA LinkInitial == LinkInit => LinkInv
<1> SUFFICES ASSUME LinkInit PROVE LinkInv
  OBVIOUS
<1> USE LinkAssumption, EndpointAssumption DEF LinkInit, Calls
<1>1. EndpointInv
  BY EndpointInit
<1>2. LinkTypeOK
  <2>1. stage \in [Threads -> {"out", "waiting", "locked", "encoded"}]
    OBVIOUS
  <2>2. job \in [Threads -> Bodies]
    OBVIOUS
  <2>3. uplink \in Seq([to : Endpoints, event : {"on", "off"}])
    OBVIOUS
  <2> QED
    BY <2>1, <2>2, <2>3 DEF LinkTypeOK
<1>3. Exclusive /\ InSight
  BY DEF Exclusive, InSight
<1>4. Alone
  BY DEF Alone, Init
<1> QED
  BY <1>1, <1>2, <1>3, <1>4 DEF LinkInv

\* Whatever the driver and the main task do, to the endpoint it is a step of its own.
LEMMA EndpointSeesItsSteps == LinkInv /\ [LinkNext]_linkVars => [Next]_vars
<1> SUFFICES ASSUME LinkInv, [LinkNext]_linkVars PROVE [Next]_vars
  OBVIOUS
<1> USE DEF Next, GetMsg
<1>1. ASSUME NEW t \in Threads, Push(t) PROVE [Next]_vars
  <2>1. CASE Lock(t) \/ Encode(t)
    BY <2>1 DEF Lock, Encode
  <2>2. CASE Write(t)
    <3>1. [from |-> endpoint, body |-> out_buf] \in Messages
      BY <2>2, LinkAssumption
      DEF Write, LinkInv, Exclusive, LinkTypeOK, Messages
    <3> QED
      BY <2>2, <3>1 DEF Write
  <2> QED
    BY <1>1, <2>1, <2>2 DEF Push
<1>2. ASSUME NEW e \in Endpoints, Stray(e) PROVE [Next]_vars
  <2>1. [from |-> e, body |-> Corrupt] \in Messages
    BY DEF Messages
  <2> QED
    BY <1>2, <2>1 DEF Stray
<1>3. CASE Main
  BY <1>3 DEF Main, Get, HandleAndRun, SendMsg
<1>4. ASSUME NEW t \in Threads, NEW c \in Calls, Call(t, c) PROVE [Next]_vars
  BY <1>4 DEF Call
<1>5. ASSUME NEW t \in Threads, NEW e \in Endpoints, SetupConnection(e, t) PROVE [Next]_vars
  BY <1>5 DEF SetupConnection
<1>6. CASE Ready \/ Publish \/ ReadError \/ Die \/ Discard
  BY <1>6 DEF Ready, Publish, ReadError, Die, Discard
<1>7. CASE UNCHANGED linkVars
  BY <1>7 DEF linkVars
<1> QED
  BY <1>1, <1>2, <1>3, <1>4, <1>5, <1>6, <1>7 DEF LinkNext

LEMMA LinkTypeStep == LinkInv /\ [LinkNext]_linkVars => LinkTypeOK'
<1> SUFFICES ASSUME LinkInv, [LinkNext]_linkVars PROVE LinkTypeOK'
  OBVIOUS
<1> USE LinkAssumption DEF LinkInv, LinkTypeOK, Calls
<1>1. ASSUME NEW t \in Threads, Push(t) PROVE LinkTypeOK'
  <2>1. CASE Lock(t)
    BY <2>1 DEF Lock, mcu
  <2>2. CASE Encode(t)
    BY <2>2 DEF Encode, mcu
  <2>3. CASE Write(t)
    BY <2>3 DEF Write, mcu
  <2> QED
    BY <1>1, <2>1, <2>2, <2>3 DEF Push
<1>2. ASSUME NEW t \in Threads, NEW c \in Calls, Call(t, c) PROVE LinkTypeOK'
  BY <1>2 DEF Call, mcu
<1>3. ASSUME NEW t \in Threads, NEW e \in Endpoints, SetupConnection(e, t) PROVE LinkTypeOK'
  BY <1>3 DEF SetupConnection, mcu
<1>4. CASE Ready
  BY <1>4 DEF Ready, mcu
<1>5. CASE Publish
  <2> DEFINE Ev == [to : Endpoints, event : {"on", "off"}]
  <2>1. uplink \in Seq(Ev) /\ uplink # <<>> /\ uplink' = Tail(uplink)
    BY <1>5 DEF Publish
  <2> HIDE DEF Ev
  <2>2. uplink' \in Seq(Ev) /\ Head(uplink) \in Ev
    BY <2>1
  <2> USE DEF Ev
  <2>3. believed' \in {"on", "off"}
    BY <1>5, <2>2 DEF Publish, Told
  <2> QED
    BY <1>5, <2>2, <2>3 DEF Publish
<1>6. CASE ReadError
  BY <1>6 DEF ReadError, mcu
<1>7. CASE Die
  BY <1>7 DEF Die
<1>8. CASE Discard
  BY <1>8 DEF Discard, driver
<1>9. ASSUME NEW e \in Endpoints, Stray(e) PROVE LinkTypeOK'
  BY <1>9 DEF Stray, mcu
<1>10. CASE Main
  <2>1. CASE Get
    BY <2>1 DEF Get, driver
  <2>2. CASE HandleAndRun
    BY <2>2 DEF HandleAndRun, Fsm!Run, driver
  <2>3. CASE SendMsg
    <3>1. CASE EventSent
      <4>1. [to |-> peer, event |-> event] \in [to : Endpoints, event : {"on", "off"}]
        BY <2>3, <3>1 DEF SendMsg, EventSent, EndpointInv, EndpointTypeOK
      <4>2. uplink' \in Seq([to : Endpoints, event : {"on", "off"}])
        BY <3>1, <4>1 DEF EventSent
      <4> QED
        BY <2>3, <3>1, <4>2 DEF SendMsg, EventSent, driver
    <3>2. CASE EventLost
      BY <2>3, <3>2 DEF SendMsg, EventLost, driver
    <3> QED
      BY <2>3, <3>1, <3>2 DEF SendMsg
  <2> QED
    BY <1>10, <2>1, <2>2, <2>3 DEF Main
<1>11. CASE UNCHANGED linkVars
  <2> UNCHANGED <<driver, mcu>>
    BY <1>11 DEF linkVars
  <2> QED
    BY DEF driver, mcu
<1> QED
  BY <1>1, <1>2, <1>3, <1>4, <1>5, <1>6, <1>7, <1>8, <1>9, <1>10, <1>11 DEF LinkNext

\* Only the thread that holds push_mtx encodes, and it lets go after it has written.
LEMMA ExclusiveStep == LinkInv /\ [LinkNext]_linkVars => Exclusive'
<1> SUFFICES ASSUME LinkInv, [LinkNext]_linkVars PROVE Exclusive'
  OBVIOUS
<1> USE LinkAssumption, EndpointAssumption DEF LinkInv, LinkTypeOK, Exclusive
<1>1. ASSUME NEW t \in Threads, Push(t) PROVE Exclusive'
  <2>1. CASE Lock(t)
    <3>1. \A u \in Threads : stage[u] \notin {"locked", "encoded"}
      BY <2>1 DEF Lock, MayLock
    <3> QED
      BY <2>1, <3>1 DEF Lock
  <2>2. CASE Encode(t)
    <3>1. \A u \in Threads : u # t => stage[u] # "encoded"
      BY <2>2 DEF Encode
    <3> QED
      BY <2>2, <3>1 DEF Encode
  <2>3. CASE Write(t)
    <3>1. \A u \in Threads : u # t => stage[u] \notin {"locked", "encoded"}
      BY <2>3 DEF Write
    <3> QED
      BY <2>3, <3>1 DEF Write
  <2> QED
    BY <1>1, <2>1, <2>2, <2>3 DEF Push
<1>2. ASSUME NEW t \in Threads, NEW c \in Calls, Call(t, c) PROVE Exclusive'
  BY <1>2 DEF Call
<1>3. ASSUME NEW t \in Threads, NEW e \in Endpoints, SetupConnection(e, t) PROVE Exclusive'
  BY <1>3 DEF SetupConnection
<1>4. CASE Die
  BY <1>4 DEF Die
<1>5. CASE UNCHANGED <<stage, job, mutex, out_buf, endpoint, reader>>
  BY <1>5
<1>6. ASSUME NEW e \in Endpoints, Stray(e) PROVE Exclusive'
  BY <1>5, <1>6 DEF Stray
<1>7. CASE Ready \/ ReadError
  BY <1>7 DEF Ready, ReadError
<1>8. CASE Publish \/ Discard \/ Main \/ UNCHANGED linkVars
  BY <1>5, <1>8
  DEF Publish, Discard, Main, Get, HandleAndRun, SendMsg, linkVars, driver
<1> QED
  BY <1>1, <1>2, <1>3, <1>4, <1>6, <1>7, <1>8 DEF LinkNext

LEMMA InSightStep == LinkInv /\ [LinkNext]_linkVars => InSight'
<1> SUFFICES ASSUME LinkInv, [LinkNext]_linkVars PROVE InSight'
  OBVIOUS
<1> DEFINE view == <<event, power, fate, uplink, believed>>
<1> USE LinkAssumption DEF LinkInv, LinkTypeOK, InSight
<1>1. CASE Publish
  <2>1. /\ Len(uplink) \in Nat \ {0} /\ Len(uplink') = Len(uplink) - 1
        /\ Len(uplink) > 1 => uplink'[Len(uplink')] = uplink[Len(uplink)]
        /\ uplink' = <<>> <=> Len(uplink) = 1
    BY <1>1, TailFacts DEF Publish
  <2>2. CASE Len(uplink) = 1
    BY <1>1, <2>1, <2>2 DEF Publish, Told
  <2>3. CASE Len(uplink) > 1
    BY <1>1, <2>1, <2>3 DEF Publish
  <2> QED
    BY <2>1, <2>2, <2>3
<1>2. CASE Discard
  <2>1. /\ Len(uplink) \in Nat \ {0} /\ Len(uplink') = Len(uplink) - 1
        /\ Len(uplink) > 1 => uplink'[Len(uplink')] = uplink[Len(uplink)]
        /\ uplink' = <<>> <=> Len(uplink) = 1
    BY <1>2, TailFacts DEF Discard
  <2>2. CASE Len(uplink) = 1
    BY <1>2, <2>1, <2>2 DEF Discard, driver
  <2>3. CASE Len(uplink) > 1
    BY <1>2, <2>1, <2>3 DEF Discard, driver
  <2> QED
    BY <2>1, <2>2, <2>3
<1>3. CASE Die
  BY <1>3 DEF Die
<1>4. CASE HandleAndRun
  <2>1. CASE event' = power'
    BY <1>4, <2>1 DEF HandleAndRun, Fsm!Run, driver
  <2>2. CASE UNCHANGED <<power, event>>
    BY <1>4, <2>2 DEF HandleAndRun, Fsm!Run, driver
  <2> QED
    BY <1>4, <2>1, <2>2 DEF HandleAndRun, Fsm!Run
<1>5. CASE SendMsg /\ EventSent
  <2>1. /\ Len(uplink') = Len(uplink) + 1 /\ uplink' # <<>>
        /\ uplink'[Len(uplink')] = [to |-> peer, event |-> event]
    BY <1>5 DEF EventSent
  <2> QED
    BY <1>5, <2>1 DEF SendMsg, EventSent, driver
<1>6. CASE SendMsg /\ EventLost
  BY <1>6 DEF SendMsg, EventLost, driver
<1>7. CASE UNCHANGED view
  BY <1>7
<1>8. ASSUME NEW t \in Threads, Push(t) PROVE UNCHANGED view
  BY <1>8 DEF Push, Lock, Encode, Write, mcu
<1>9. ASSUME NEW t \in Threads, NEW c \in Calls, Call(t, c) PROVE UNCHANGED view
  BY <1>9 DEF Call, mcu
<1>10. ASSUME NEW t \in Threads, NEW e \in Endpoints, SetupConnection(e, t)
       PROVE UNCHANGED view
  BY <1>10 DEF SetupConnection, mcu
<1>11. ASSUME NEW e \in Endpoints, Stray(e) PROVE UNCHANGED view
  BY <1>11 DEF Stray, mcu
<1>12. CASE Ready \/ ReadError \/ Get
  BY <1>7, <1>12 DEF Ready, ReadError, Get, driver, mcu
<1>13. CASE UNCHANGED linkVars
  BY <1>7, <1>13 DEF linkVars, driver, mcu
<1> QED
  BY <1>1, <1>2, <1>3, <1>4, <1>5, <1>6, <1>7, <1>8, <1>9, <1>10, <1>11, <1>12, <1>13
  DEF LinkNext, Main, SendMsg

LEMMA AloneStep == LinkInv /\ [LinkNext]_linkVars => Alone'
<1> SUFFICES ASSUME LinkInv, [LinkNext]_linkVars, restarts' = 0, strays' = 0
             PROVE  (/\ \A i \in DOMAIN queue : queue[i].from = endpoint
                     /\ \A i \in DOMAIN uplink : uplink[i].to = endpoint
                     /\ peer # NoPeer => peer = endpoint
                     /\ fate # "discarded")'
  BY DEF Alone
<1> DEFINE seen == <<queue, uplink, peer, fate, endpoint>>
<1> USE EndpointAssumption, LinkAssumption DEF LinkInv
<1>1. LinkTypeOK /\ EndpointTypeOK
  BY DEF EndpointInv
<1>2. ASSUME restarts = 0, strays = 0
      PROVE  /\ \A i \in DOMAIN queue : queue[i].from = endpoint
             /\ \A i \in DOMAIN uplink : uplink[i].to = endpoint
             /\ peer # NoPeer => peer = endpoint
             /\ fate # "discarded"
  BY <1>2 DEF Alone
<1>3. ASSUME NEW t \in Threads, Push(t) PROVE Alone'
  <2>1. CASE Lock(t) \/ Encode(t)
    BY <1>2, <2>1 DEF Lock, Encode, vars, mcu, Alone
  <2>2. CASE Write(t) /\ UNCHANGED vars
    BY <1>2, <2>2 DEF Write, vars, mcu, Alone
  <2>3. CASE Write(t) /\ Arrive([from |-> endpoint, body |-> out_buf])
    <3>1. queue' = Append(queue, [from |-> endpoint, body |-> out_buf])
      BY <2>3 DEF Arrive
    <3>2. \A i \in DOMAIN queue' :
             \/ i \in DOMAIN queue /\ queue'[i] = queue[i]
             \/ queue'[i] = [from |-> endpoint, body |-> out_buf]
      BY <1>1, <3>1 DEF EndpointTypeOK
    <3> QED
      BY <1>2, <2>3, <3>2 DEF Write, Arrive, mcu, Alone
  <2> QED
    BY <1>3, <2>1, <2>2, <2>3 DEF Push, Write
<1>4. ASSUME NEW t \in Threads, NEW e \in Endpoints, SetupConnection(e, t) PROVE Alone'
  <2>1. /\ endpoint = NoPeer
        /\ UNCHANGED <<queue, uplink, peer, fate, restarts, strays>> /\ endpoint' = e
    BY <1>4 DEF SetupConnection, vars, mcu
  <2>2. \A i \in DOMAIN queue : queue[i].from \in Endpoints
    <3>1. \A i \in DOMAIN queue : queue[i] \in Messages
      BY <1>1, Elements DEF EndpointTypeOK
    <3> QED
      BY <3>1 DEF Messages
  <2>3. \A i \in DOMAIN uplink : uplink[i].to \in Endpoints
    <3>1. \A i \in DOMAIN uplink : uplink[i] \in [to : Endpoints, event : {"on", "off"}]
      BY <1>1, Elements DEF LinkTypeOK
    <3> QED
      BY <3>1
  <2> QED
    BY <1>2, <2>1, <2>2, <2>3 DEF Alone
<1>5. CASE Publish
  <2>1. \A i \in DOMAIN uplink' : i + 1 \in DOMAIN uplink /\ uplink'[i] = uplink[i + 1]
    BY <1>1, <1>5, TailFacts DEF Publish, LinkTypeOK
  <2> QED
    BY <1>2, <1>5, <2>1 DEF Publish, vars, Alone
<1>6. CASE Discard
  <2>1. uplink # <<>> /\ Head(uplink) = uplink[1] /\ 1 \in DOMAIN uplink
    BY <1>1, <1>6 DEF Discard, LinkTypeOK
  <2>2. restarts' = restarts /\ strays' = strays
    BY <1>6 DEF Discard, driver
  <2> QED
    BY <1>2, <1>6, <2>1, <2>2 DEF Discard
<1>7. CASE Die
  BY <1>1, <1>7 DEF Die, LinkTypeOK
<1>8. ASSUME NEW e \in Endpoints, Stray(e) PROVE FALSE
  BY <1>1, <1>8 DEF Stray, LinkTypeOK
<1>9. CASE Get
  <2>1. CASE Receive
    <3>1. /\ queue' = Tail(queue) /\ queue \in Seq(Messages) /\ queue # <<>>
          /\ peer' = IF peer = NoPeer THEN Head(queue).from ELSE peer
      BY <1>1, <2>1 DEF Receive, EndpointTypeOK
    <3>2. /\ \A i \in DOMAIN queue' : i + 1 \in DOMAIN queue /\ queue'[i] = queue[i + 1]
          /\ 1 \in DOMAIN queue /\ Head(queue) = queue[1]
      BY <3>1, TailFacts
    <3> QED
      BY <1>2, <1>9, <2>1, <3>1, <3>2 DEF Get, driver, Alone
  <2>2. CASE Take \/ TimeOut
    BY <1>2, <1>9, <2>2 DEF Get, Take, TimeOut, driver, Alone
  <2> QED
    BY <1>9, <2>1, <2>2 DEF Get, GetMsg
<1>10. CASE SendMsg
  <2>1. CASE EventSent
    <3>1. \A i \in DOMAIN uplink' :
             \/ i \in DOMAIN uplink /\ uplink'[i] = uplink[i]
             \/ uplink'[i] = [to |-> peer, event |-> event]
      BY <1>1, <2>1 DEF EventSent, LinkTypeOK
    <3> QED
      BY <1>2, <1>10, <2>1, <3>1 DEF SendMsg, EventSent, Iterate, driver, Alone
  <2>2. CASE EventLost
    BY <1>2, <1>10, <2>2 DEF SendMsg, EventLost, Iterate, driver, Alone
  <2> QED
    BY <1>10, <2>1, <2>2 DEF SendMsg
<1>11. CASE UNCHANGED seen /\ UNCHANGED <<restarts, strays>>
  BY <1>2, <1>11
<1>12. ASSUME NEW t \in Threads, NEW c \in Calls, Call(t, c)
       PROVE  UNCHANGED seen /\ UNCHANGED <<restarts, strays>>
  BY <1>12 DEF Call, vars, mcu
<1>13. CASE Ready \/ ReadError \/ HandleAndRun
  BY <1>11, <1>13 DEF Ready, ReadError, HandleAndRun, Fsm!Run, Iterate, vars, driver, mcu
<1>14. CASE UNCHANGED linkVars
  BY <1>11, <1>14 DEF linkVars, vars, driver, mcu
<1> QED
  BY <1>3, <1>4, <1>5, <1>6, <1>7, <1>8, <1>9, <1>10, <1>11, <1>12, <1>13, <1>14
  DEF LinkNext, Main, Alone

LEMMA LinkStep == LinkInv /\ [LinkNext]_linkVars => LinkInv'
<1>1. LinkInv /\ [LinkNext]_linkVars => EndpointInv'
  BY EndpointSeesItsSteps, EndpointStep DEF LinkInv
<1> QED
  BY <1>1, LinkTypeStep, ExclusiveStep, InSightStep, AloneStep DEF LinkInv

LEMMA LinkInvariant == LinkSpec => []LinkInv
  BY LinkInitial, LinkStep, PTL DEF LinkSpec

-----------------------------------------------------------------------------
\* In the composition, too, the assertion on RPMessage_recv never fails, and the
\* backlog of the endpoint is exact (rpmsg.cpp, lines 32-74).
THEOREM LinkKeepsEndpoint == LinkSpec => [](RecvNeverFails /\ BacklogExact)
<1>1. LinkInv => RecvNeverFails /\ BacklogExact
  BY DEF LinkInv, EndpointInv, EndpointTypeOK, BacklogExact, InRecv, RecvNeverFails
<1> QED
  BY LinkInvariant, <1>1, PTL

\* push_mtx suffices: no thread writes what another has encoded
\* (board_support_ACImpl.cpp, lines 34-41).
THEOREM CommandsWhole == LinkSpec => []CommandWhole
<1>1. LinkInv => CommandWhole
  BY DEF LinkInv, Exclusive, CommandWhole
<1> QED
  BY LinkInvariant, <1>1, PTL

\* What EVerest believes of the contactor on a quiet link is so, and only a
\* restart or another process makes Linux discard an event.
THEOREM ViewsExact == LinkSpec => []ViewExact
<1>1. LinkInv => ViewExact
  BY DEF LinkInv, LinkTypeOK, InSight, Alone, ViewExact
<1> QED
  BY LinkInvariant, <1>1, PTL
=============================================================================
