----------------------------- MODULE BoardLink -----------------------------
(***************************************************************************)
(* The link between EVerest and the firmware, end to end.  On Linux the    *)
(* threads of the driver (board_support_ACImpl.cpp) push commands through  *)
(* one buffer under push_mtx while a thread of its own receives events; the*)
(* process may die and come back under another endpoint.  On the MCU the   *)
(* main task takes commands from the endpoint (RpmsgEndpoint), runs the    *)
(* state machine and sends what it reports.  Of the state machine only     *)
(* what ReportedPower says is kept: power comes on only while it is        *)
(* allowed, goes off at any time, and each change is reported.             *)
(***************************************************************************)
EXTENDS RpmsgEndpoint

CONSTANTS
    Threads,      \* threads of EVerest that call the handlers of the driver
    Nobody,       \* push_mtx is free
    Unwritten,    \* out_buf before the first message
    UplinkLimit,  \* buffers from the MCU to Linux
    MaxCalls,     \* bound: handler calls in a behaviour
    MaxRestarts,  \* bound: restarts of EVerest
    MaxStray      \* bound: messages of other processes

Heartbeat == "heartbeat"
Calls == {"allow", "forbid"}      \* allow_power_on(true), allow_power_on(false)

ASSUME LinkAssumption ==
    /\ Bodies = Calls \cup {Heartbeat} /\ Nobody \notin Threads /\ Unwritten \notin Bodies
    /\ UplinkLimit \in Nat \ {0} /\ {MaxCalls, MaxRestarts, MaxStray} \subseteq Nat

VARIABLES
    stage,     \* of each thread in push_message: "out", "waiting", "locked", "encoded"
    job,       \* the message each thread pushes, a heartbeat outside of push_message
    mutex,     \* who holds push_mtx
    out_buf,   \* the message encoded last
    endpoint,  \* the endpoint of the driver, NoPeer while EVerest is down
    reader,    \* the receiving thread: "none" before ready(), "running", "ended"
    believed,  \* the state of the contactor EVerest was told last
    calls, restarts, strays

driver == <<stage, job, mutex, out_buf, endpoint, reader, believed, calls, restarts, strays>>

VARIABLES
    input,     \* the message of this iteration of the main loop
    allowed,   \* power_on_allowed of the state machine
    power,     \* the contactor: "on" or "off"
    event,     \* the event being sent, "none" otherwise
    uplink,    \* events on their way to Linux
    fate       \* history: what became of the last event

mcu == <<input, allowed, power, event, uplink, fate>>

linkVars == <<vars, driver, mcu>>

LinkInit ==
    /\ Init
    /\ stage = [t \in Threads |-> "out"] /\ job = [t \in Threads |-> Heartbeat]
    /\ mutex = Nobody /\ out_buf = Unwritten
    /\ endpoint = NoPeer /\ reader = "none" /\ believed = "off"
    /\ calls = 0 /\ restarts = 0 /\ strays = 0
    /\ input = Heartbeat /\ allowed = FALSE /\ power = "off" /\ event = "none"
    /\ uplink = <<>> /\ fate = "none"

-----------------------------------------------------------------------------
(* The driver *)

\* setup_connection: an endpoint is opened and a heartbeat pushed right away.
SetupConnection(e, t) ==
    /\ endpoint = NoPeer
    /\ endpoint' = e
    /\ stage' = [stage EXCEPT ![t] = "waiting"] /\ job' = [job EXCEPT ![t] = Heartbeat]
    /\ UNCHANGED <<vars, mutex, out_buf, reader, believed, calls, restarts, strays, mcu>>

\* ready: once init has returned the receiving thread starts.
Ready ==
    /\ endpoint # NoPeer /\ reader = "none" /\ \A t \in Threads : stage[t] = "out"
    /\ reader' = "running"
    /\ UNCHANGED <<vars, stage, job, mutex, out_buf, endpoint, believed, calls, restarts,
                   strays, mcu>>

\* A handler fills in its message and calls push_message.
Call(t, c) ==
    /\ reader # "none" /\ stage[t] = "out" /\ calls < MaxCalls
    /\ calls' = calls + 1
    /\ stage' = [stage EXCEPT ![t] = "waiting"] /\ job' = [job EXCEPT ![t] = c]
    /\ UNCHANGED <<vars, mutex, out_buf, endpoint, reader, believed, restarts, strays, mcu>>

\* (mutation) No mutex around the buffer.
MayLockAlways(t) == TRUE

MayLock(t) == mutex = Nobody

Lock(t) ==
    /\ stage[t] = "waiting" /\ MayLock(t)
    /\ mutex' = t
    /\ stage' = [stage EXCEPT ![t] = "locked"]
    /\ UNCHANGED <<vars, job, out_buf, endpoint, reader, believed, calls, restarts, strays, mcu>>

Encode(t) ==
    /\ stage[t] = "locked"
    /\ out_buf' = job[t]
    /\ stage' = [stage EXCEPT ![t] = "encoded"]
    /\ UNCHANGED <<vars, job, mutex, endpoint, reader, believed, calls, restarts, strays, mcu>>

\* write, then the lock is released; no handler looks at the result.
Write(t) ==
    /\ stage[t] = "encoded"
    /\ \/ Arrive([from |-> endpoint, body |-> out_buf])
       \/ Len(queue) = QueueLimit /\ UNCHANGED vars
    /\ mutex' = Nobody
    /\ stage' = [stage EXCEPT ![t] = "out"] /\ job' = [job EXCEPT ![t] = Heartbeat]
    /\ UNCHANGED <<out_buf, endpoint, reader, believed, calls, restarts, strays, mcu>>

Push(t) == Lock(t) \/ Encode(t) \/ Write(t)

\* (mutation) The driver does not know the event that power went off.
ToldWithoutOff == IF Head(uplink).event = "off" THEN believed ELSE Head(uplink).event

Told == Head(uplink).event

\* receive: one event is read, decoded and published.
Publish ==
    /\ reader = "running" /\ uplink # <<>> /\ Head(uplink).to = endpoint
    /\ believed' = Told
    /\ uplink' = Tail(uplink)
    /\ UNCHANGED <<vars, stage, job, mutex, out_buf, endpoint, reader, calls, restarts, strays,
                   input, allowed, power, event, fate>>

\* read fails: the thread returns and nothing starts it again.
ReadError ==
    /\ reader = "running"
    /\ reader' = "ended"
    /\ UNCHANGED <<vars, stage, job, mutex, out_buf, endpoint, believed, calls, restarts,
                   strays, mcu>>

\* EVerest dies; what its threads were doing is gone, and the new process knows nothing.
Die ==
    /\ endpoint # NoPeer /\ restarts < MaxRestarts
    /\ restarts' = restarts + 1
    /\ endpoint' = NoPeer /\ reader' = "none" /\ believed' = "off"
    /\ stage' = [t \in Threads |-> "out"] /\ job' = [t \in Threads |-> Heartbeat]
    /\ mutex' = Nobody /\ out_buf' = Unwritten
    /\ fate' = "lost"
    /\ UNCHANGED <<vars, calls, strays, input, allowed, power, event, uplink>>

\* Linux discards an event for an endpoint that is not open.
Discard ==
    /\ uplink # <<>> /\ Head(uplink).to # endpoint
    /\ uplink' = Tail(uplink)
    /\ fate' = IF Len(uplink) = 1 THEN "discarded" ELSE fate
    /\ UNCHANGED <<vars, driver, input, allowed, power, event>>

\* Another process writes to the endpoint of the MCU.
Stray(e) ==
    /\ strays < MaxStray /\ e # endpoint
    /\ Arrive([from |-> e, body |-> Corrupt])
    /\ strays' = strays + 1
    /\ UNCHANGED <<stage, job, mutex, out_buf, endpoint, reader, believed, calls, restarts, mcu>>

-----------------------------------------------------------------------------
(* The main task of the firmware *)

\* get_msg; the message is valid when the status is OK.
Get ==
    /\ GetMsg
    /\ input' = IF task = "taken" THEN Head(queue).body ELSE input
    /\ UNCHANGED <<driver, allowed, power, event, uplink, fate>>

HasInput == status = "OK"

Fsm == INSTANCE ReportedPower

\* handle_incoming_message and one run of the state machine.  Most messages are
\* like heartbeats here; those for the PWM withdraw the permission as run() does.
HandleAndRun ==
    /\ task = "running" /\ event = "none"
    /\ Fsm!Run(IF HasInput /\ input \in Calls THEN input = "allow" ELSE allowed)
    /\ IF event' = "none" THEN Iterate ELSE UNCHANGED vars
    /\ input' = Heartbeat
    /\ UNCHANGED <<driver, uplink, fate>>

\* (mutation) Without a free buffer the event is dropped and said to be sent.
EventSentUnchecked ==
    /\ peer # NoPeer
    /\ uplink' = IF Len(uplink) < UplinkLimit
                 THEN Append(uplink, [to |-> peer, event |-> event]) ELSE uplink
    /\ fate' = "sent"

EventSent ==
    /\ peer # NoPeer /\ Len(uplink) < UplinkLimit
    /\ uplink' = Append(uplink, [to |-> peer, event |-> event])
    /\ fate' = "sent"

\* No message has come yet, or no buffer came free within MSG_SEND_TIMEOUT_MS.
EventLost ==
    /\ peer = NoPeer \/ Len(uplink) = UplinkLimit
    /\ fate' = "lost"
    /\ UNCHANGED uplink

\* push_event; it ignores the result of send_msg.
SendMsg ==
    /\ event # "none"
    /\ EventSent \/ EventLost
    /\ event' = "none"
    /\ Iterate
    /\ UNCHANGED <<driver, input, allowed, power>>

Main == Get \/ HandleAndRun \/ SendMsg

LinkNext ==
    \/ \E t \in Threads : Push(t) \/ (\E c \in Calls : Call(t, c))
                          \/ (\E e \in Endpoints : SetupConnection(e, t))
    \/ Ready \/ Publish \/ ReadError \/ Die \/ Discard
    \/ \E e \in Endpoints : Stray(e)
    \/ Main

\* The main task has the highest priority; Linux runs every thread in the end.
LinkSpec ==
    /\ LinkInit /\ [][LinkNext]_linkVars
    /\ WF_linkVars(Main) /\ WF_linkVars(Publish) /\ WF_linkVars(Discard)
    /\ \A t \in Threads : WF_linkVars(Push(t))

-----------------------------------------------------------------------------
(* Properties *)

LinkTypeOK ==
    /\ stage \in [Threads -> {"out", "waiting", "locked", "encoded"}]
    /\ job \in [Threads -> Bodies]
    /\ mutex \in Threads \cup {Nobody}
    /\ out_buf \in Bodies \cup {Unwritten}
    /\ endpoint \in Endpoints \cup {NoPeer}
    /\ reader \in {"none", "running", "ended"}
    /\ calls \in Nat /\ restarts \in Nat /\ strays \in Nat
    /\ allowed \in BOOLEAN /\ believed \in {"on", "off"} /\ power \in {"on", "off"}
    /\ event \in {"none", "on", "off"}
    /\ uplink \in Seq([to : Endpoints, event : {"on", "off"}])
    /\ fate \in {"none", "sent", "lost", "discarded"}

\* What a thread writes to the MCU is the message it was called with, although all
\* threads encode into the same buffer, and a thread only writes while the
\* endpoint is open (RPMsgLink::push_message).
CommandWhole ==
    \A t \in Threads : stage[t] = "encoded" => out_buf = job[t] /\ endpoint # NoPeer

\* A quiet link tells the truth: when no event is under way and the last one was
\* not lost, EVerest believes of the contactor what is so.  An event is discarded
\* only when EVerest has restarted or another process was heard first, because
\* the firmware answers for ever to the endpoint it heard first.
ViewExact ==
    /\ uplink = <<>> /\ event = "none" /\ fate \in {"none", "sent"} => believed = power
    /\ fate = "discarded" => restarts > 0 \/ strays > 0

\* EVerest hears that power is off, unless the last event was lost or its receiving
\* thread is not there: neither full queues nor corrupt messages nor any order of
\* the threads keep the event from it.
Unheard == fate \notin {"none", "sent"} \/ reader # "running"
OffIsHeard == power = "off" ~> (believed = "off" \/ power = "on" \/ Unheard)
=============================================================================
