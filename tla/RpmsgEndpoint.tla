--------------------------- MODULE RpmsgEndpoint ---------------------------
(***************************************************************************)
(* The receiving half of class RPMsg: the IPC interrupt puts a message     *)
(* into the queue of the endpoint and gives a counting semaphore, the main *)
(* task takes the semaphore and then takes a message out of the queue.     *)
(***************************************************************************)
EXTENDS Integers, Sequences

CONSTANTS
    Endpoints,   \* remote endpoints messages come from
    NoPeer,      \* remote_peer_detected is false
    Bodies,      \* what a message may say
    Corrupt,     \* a body that pb_decode refuses
    MaxBacklog,  \* MAX_MESSAGES_BACKLOG, the semaphore's maximum
    QueueLimit   \* messages the queue of the endpoint can hold

ASSUME EndpointAssumption ==
    /\ NoPeer \notin Endpoints
    /\ MaxBacklog \in Nat \ {0}
    /\ QueueLimit \in Nat

\* A message: where it comes from, and what it says.
Messages == [from : Endpoints, body : Bodies \cup {Corrupt}]

Statuses == {"none", "OK", "TIMEOUT", "CORRUPT_MESSAGE"}

VARIABLES
    queue,    \* the queue of the endpoint, kept by the RPMessage driver
    pending,  \* count of pending_msgs_semaphore
    peer,     \* remote_end_point once remote_peer_detected
    task,     \* the main task: "waiting" or "taken" in get_msg, "running" outside of it
    status,   \* what get_msg returned in this iteration, "none" before it does
    refused,  \* history: number of gives the full semaphore refused
    watched   \* history: position in the queue of a message that is watched, or 0

vars == <<queue, pending, peer, task, status, refused, watched>>

EndpointTypeOK ==
    /\ queue \in Seq(Messages) /\ Len(queue) <= QueueLimit
    /\ pending \in 0 .. MaxBacklog
    /\ peer \in Endpoints \cup {NoPeer}
    /\ task \in {"waiting", "taken", "running"}
    /\ status \in Statuses
    /\ refused \in Nat
    /\ watched \in 0 .. QueueLimit

Init ==
    /\ queue = <<>> /\ pending = 0
    /\ peer = NoPeer
    /\ task = "waiting" /\ status = "none"
    /\ refused = 0 /\ watched = 0

\* (mutations) A binary semaphore: a give is forgotten while one is pending;
\* a semaphore without a maximum.
PendingAfterGiveBinary == 1
PendingAfterGiveUnlimited == pending + 1

PendingAfterGive == IF pending < MaxBacklog THEN pending + 1 ELSE pending

\* receive_notify_cb, called by the driver for every message it has queued.
Arrive(message) ==
    /\ Len(queue) < QueueLimit
    /\ queue' = Append(queue, message)
    /\ pending' = PendingAfterGive
    /\ refused' = IF pending = MaxBacklog THEN refused + 1 ELSE refused
    /\ watched' \in IF watched = 0 THEN {0, Len(queue) + 1} ELSE {watched}
    /\ UNCHANGED <<peer, task, status>>

\* (mutation) The task does not look at the result of xSemaphoreTake.
MayTakeAnyway == TRUE

MayTake == pending > 0

\* get_msg: xSemaphoreTake succeeds ...
Take ==
    /\ task = "waiting" /\ MayTake
    /\ pending' = IF pending > 0 THEN pending - 1 ELSE 0
    /\ task' = "taken"
    /\ UNCHANGED <<queue, peer, status, refused, watched>>

\* ... or FSM_WAIT_INTERVAL_MS go by without a message.
TimeOut ==
    /\ task = "waiting" /\ pending = 0
    /\ task' = "running" /\ status' = "TIMEOUT"
    /\ UNCHANGED <<queue, pending, peer, refused, watched>>

\* RPMessage_recv without waiting; DebugP_assert stops the task for ever when
\* it fails, that is when the queue is empty.  The endpoint of the first message
\* is remembered as the remote endpoint.
Receive ==
    /\ task = "taken" /\ queue # <<>>
    /\ queue' = Tail(queue)
    /\ peer' = IF peer = NoPeer THEN Head(queue).from ELSE peer
    /\ status' = IF Head(queue).body = Corrupt THEN "CORRUPT_MESSAGE" ELSE "OK"
    /\ task' = "running"
    /\ watched' = IF watched = 0 THEN 0 ELSE watched - 1
    /\ UNCHANGED <<pending, refused>>

\* The rest of an iteration of the main loop.
Iterate ==
    /\ task = "running"
    /\ task' = "waiting" /\ status' = "none"
    /\ UNCHANGED <<queue, pending, peer, refused, watched>>

GetMsg == Take \/ TimeOut \/ Receive

Next == (\E message \in Messages : Arrive(message)) \/ GetMsg \/ Iterate

\* The main task has the highest priority and is always scheduled again.
Spec == Init /\ [][Next]_vars /\ WF_vars(GetMsg) /\ WF_vars(Iterate)
-----------------------------------------------------------------------------
InRecv == IF task = "taken" THEN 1 ELSE 0

\* "what to do here, technically this couldn't fail": the assertion on
\* RPMessage_recv never fails, although queue and semaphore are two objects
\* that the interrupt and the task change at different times.
RecvNeverFails == task = "taken" => queue # <<>>

\* "need to stay in sync with message count?": the queue holds exactly one
\* message more than the task will ever be woken for, for every give refused
\* since the start, so after one overflow every command is handled late.
BacklogExact == Len(queue) = pending + InRecv + refused

\* As long as no give was refused every message is handled, however many others
\* arrive and whether or not those before it can be decoded.
MessageHandled == watched > 0 ~> (watched = 0 \/ refused > 0)
=============================================================================
