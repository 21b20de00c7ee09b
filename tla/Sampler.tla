------------------------------ MODULE Sampler -------------------------------
(***************************************************************************)
(* class Sampler: four threads of control that share two buffers.          *)
(*   - the PWM timer interrupt starts an SPI transfer from the converter   *)
(*     at both edges of the PWM period (trigger_adc_readout);              *)
(*   - the SPI interrupt ends it (adc_spi_cb);                             *)
(*   - the sampling task reads a finished frame and publishes the averaged *)
(*     signal (loop);                                                      *)
(*   - the main task fetches that signal (get_latest_cp_signal).           *)
(* A sample is represented by the frame it was taken for, a buffer that a  *)
(* transfer is filling and memory never written by Torn.                   *)
(***************************************************************************)
EXTENDS Integers, FiniteSets

CONSTANTS
    FrameIds,    \* frames are numbered 0 .. FrameIds - 1 and over again
    SampleSize,  \* CP_SAMPLE_SIZE
    StartsValid  \* raw_cp_signal.valid is not initialised: may it happen to be true?

ASSUME SamplerAssumption ==
    /\ FrameIds \in Nat \ {0}
    /\ SampleSize \in Nat \ {0}
    /\ StartsValid \in BOOLEAN

Frames == 0 .. FrameIds - 1
Torn == -1
Contents == Frames \cup {Torn}
Halves == {"HIGH", "LOW"}
Signals == [valid : BOOLEAN, high : Contents, low : Contents]

VARIABLES
    transfer,      \* transaction.status: "completed" or "started"
    access,        \* adc_sample_write_access_aquired
    tbd, done,     \* adc_sample: half in work, halves already sampled
    buffer,        \* adc_sample.high_samples, adc_sample.low_samples
    frame,         \* the frame in work, or the last one
    sampleBufFree, \* sample_buf_mutex can be taken
    newSample,     \* count of new_sample_available
    signalFree,    \* raw_cp_signal_mutex can be taken
    task, sample,  \* sampling task: its next step, what it has read
    rawSignal,     \* raw_cp_signal
    counted,       \* frames in the averaging rings, up to SampleSize
    reader, seen,  \* main task in get_latest_cp_signal: its next step, cp_signal
    reads          \* history: how often the frame in the buffer was read

isrVars == <<transfer, access, tbd, done, buffer, frame>>
taskVars == <<task, sample, counted>>
readerVars == <<reader, seen>>
vars == <<isrVars, taskVars, readerVars, sampleBufFree, newSample, signalFree, rawSignal, reads>>

TaskSteps == {"await", "lock", "high", "low", "unlock", "enter", "setHigh", "setLow", "setValid",
              "setInvalid", "leave"}
ReaderSteps == {"away", "valid", "high", "low", "leave"}

SamplerTypeOK ==
    /\ transfer \in {"completed", "started"} /\ access \in BOOLEAN
    /\ tbd \in Halves /\ done \in SUBSET Halves
    /\ buffer \in [Halves -> Contents] /\ frame \in Frames
    /\ sampleBufFree \in BOOLEAN /\ newSample \in 0 .. 1 /\ signalFree \in BOOLEAN
    /\ task \in TaskSteps /\ sample \in [Halves -> Contents] /\ counted \in 0 .. SampleSize
    /\ rawSignal \in Signals
    /\ reader \in ReaderSteps /\ seen \in Signals
    /\ reads \in Nat

Init ==
    /\ transfer = "completed" /\ access = FALSE
    /\ tbd \in Halves /\ done = {} /\ buffer = [h \in Halves |-> Torn] /\ frame = 0
    /\ sampleBufFree = TRUE /\ newSample = 0 /\ signalFree = TRUE
    /\ task = "await" /\ sample = [h \in Halves |-> Torn] /\ counted = 0
    /\ rawSignal \in {[valid |-> v, high |-> Torn, low |-> Torn] : v \in {FALSE, StartsValid}}
    /\ reader = "away" /\ seen = [valid |-> FALSE, high |-> Torn, low |-> Torn]
    /\ reads = 0
-----------------------------------------------------------------------------
(* The interrupts.  A trigger that finds the transfer not completed or the *)
(* buffer taken by the task returns without any effect; such a trigger is  *)
(* a step that changes nothing.                                            *)

StartTransfer(half) ==
    /\ tbd' = half
    /\ buffer' = [buffer EXCEPT ![half] = Torn]
    /\ transfer' = "started"
    /\ UNCHANGED <<taskVars, readerVars, newSample, signalFree, rawSignal, reads>>

\* (mutation) The result of xSemaphoreTakeFromISR is not looked at.
MayStartFrameAnyway == ~access

MayStartFrame == ~access /\ sampleBufFree

StartFrame(half) ==
    /\ transfer = "completed" /\ MayStartFrame
    /\ access' = TRUE /\ sampleBufFree' = FALSE
    /\ done' = {}
    /\ frame' = (frame + 1) % FrameIds
    /\ StartTransfer(half)

\* (mutation) A half is sampled again at its next edge.
AlreadyDoneNever(half) == FALSE

AlreadyDone(half) == half \in done

ContinueFrame(half) ==
    /\ transfer = "completed" /\ access /\ ~AlreadyDone(half)
    /\ StartTransfer(half)
    /\ UNCHANGED <<access, done, frame, sampleBufFree>>

\* pwm_timer_isr: overflow samples the high part, match the low part.  The order
\* of the edges is left open, because a late interrupt handles them out of order.
Trigger(half) == StartFrame(half) \/ ContinueFrame(half)

\* (mutation) One half is enough.
FrameDoneEither(halves) == halves # {}

FrameDone(halves) == halves = Halves

\* (mutations) A counting semaphore; the frame is not announced.
NewSampleCounting == newSample + 1
NewSampleForgotten == newSample

NewSampleGiven == 1

\* adc_spi_cb
TransferDone ==
    /\ transfer = "started"
    /\ transfer' = "completed"
    /\ buffer' = [buffer EXCEPT ![tbd] = frame]
    /\ done' = done \cup {tbd}
    /\ IF FrameDone(done')
       THEN /\ access' = FALSE /\ sampleBufFree' = TRUE
            /\ newSample' = NewSampleGiven
            /\ reads' = 0
       ELSE UNCHANGED <<access, sampleBufFree, newSample, reads>>
    /\ UNCHANGED <<tbd, frame, taskVars, readerVars, signalFree, rawSignal>>
-----------------------------------------------------------------------------
(* The sampling task, Sampler::loop.                                       *)

TaskGoes(from, to) ==
    /\ task = from /\ task' = to
    /\ UNCHANGED <<isrVars, readerVars>>

AwaitSample ==
    /\ TaskGoes("await", "lock")
    /\ newSample > 0 /\ newSample' = newSample - 1
    /\ UNCHANGED <<sample, counted, sampleBufFree, signalFree, rawSignal, reads>>

LockBuffer ==
    /\ TaskGoes("lock", "high")
    /\ sampleBufFree /\ sampleBufFree' = FALSE
    /\ UNCHANGED <<sample, counted, newSample, signalFree, rawSignal, reads>>

\* decode_burst_adc_samples, for one half of the frame and then for the other.
Decode(half, from, to) ==
    /\ TaskGoes(from, to)
    /\ sample' = [sample EXCEPT ![half] = buffer[half]]
    /\ UNCHANGED <<counted, sampleBufFree, newSample, signalFree, rawSignal, reads>>

UnlockBuffer ==
    /\ TaskGoes("unlock", "enter")
    /\ sampleBufFree' = TRUE
    /\ reads' = reads + 1
    /\ counted' = IF counted < SampleSize THEN counted + 1 ELSE counted
    /\ UNCHANGED <<sample, newSample, signalFree, rawSignal>>

\* (mutation) The signal is written without its mutex.
SignalGrantedAlways == TRUE

SignalGranted == signalFree

\* The rings are trusted when they are filled and do not deviate too much.
EnterSignal ==
    /\ task = "enter"
    /\ task' \in IF counted = SampleSize THEN {"setHigh", "setInvalid"} ELSE {"setInvalid"}
    /\ SignalGranted /\ signalFree' = FALSE
    /\ UNCHANGED <<isrVars, readerVars, sample, counted, sampleBufFree, newSample, rawSignal, reads>>

\* One assignment to a field of raw_cp_signal.
Publish(field, value, from, to) ==
    /\ TaskGoes(from, to)
    /\ rawSignal' = [rawSignal EXCEPT ![field] = value]
    /\ UNCHANGED <<sample, counted, sampleBufFree, newSample, signalFree, reads>>

LeaveSignal ==
    /\ TaskGoes("leave", "await")
    /\ signalFree' = TRUE
    /\ UNCHANGED <<sample, counted, sampleBufFree, newSample, rawSignal, reads>>

Loop ==
    \/ AwaitSample
    \/ Decode("HIGH", "high", "low") \/ Decode("LOW", "low", "unlock")
    \/ UnlockBuffer
    \/ EnterSignal
    \/ Publish("high", sample["HIGH"], "setHigh", "setLow")
    \/ Publish("low", sample["LOW"], "setLow", "setValid")
    \/ Publish("valid", TRUE, "setValid", "leave")
    \/ Publish("valid", FALSE, "setInvalid", "leave")
    \/ LeaveSignal
-----------------------------------------------------------------------------
(* The main task, Sampler::get_latest_cp_signal.                           *)

Reads(from, to) ==
    /\ reader = from /\ reader' = to
    /\ UNCHANGED <<isrVars, taskVars, sampleBufFree, newSample, rawSignal, reads>>

BeginFetch ==
    /\ Reads("away", "valid")
    /\ SignalGranted /\ signalFree' = FALSE
    /\ seen' = [seen EXCEPT !.valid = FALSE]

FetchValid ==
    /\ Reads("valid", IF rawSignal.valid THEN "high" ELSE "leave")
    /\ seen' = [seen EXCEPT !.valid = rawSignal.valid]
    /\ UNCHANGED signalFree

FetchHigh ==
    /\ Reads("high", "low")
    /\ seen' = [seen EXCEPT !.high = rawSignal.high]
    /\ UNCHANGED signalFree

FetchLow ==
    /\ Reads("low", "leave")
    /\ seen' = [seen EXCEPT !.low = rawSignal.low]
    /\ UNCHANGED signalFree

EndFetch ==
    /\ Reads("leave", "away")
    /\ signalFree' = TRUE
    /\ UNCHANGED seen

Fetch == FetchValid \/ FetchHigh \/ FetchLow \/ EndFetch

Interrupt == TransferDone \/ \E half \in Halves : Trigger(half)

Next == Interrupt \/ LockBuffer \/ Loop \/ BeginFetch \/ Fetch

\* The PWM timer never stops, so both edges come again and again, and a transfer
\* ends.  The sampling task is scheduled in the end, because the main task waits
\* for messages most of the time; for the two mutexes that others take as well
\* it is so when they are free often enough.
Fairness ==
    /\ WF_vars(TransferDone)
    /\ \A half \in Halves : WF_vars(Trigger(half))
    /\ SF_vars(LockBuffer) /\ SF_vars(Loop)
    /\ WF_vars(Fetch)

Spec == Init /\ [][Next]_vars /\ Fairness
-----------------------------------------------------------------------------
\* "this function assumes to have exclusive read access": no interrupt owns the
\* buffers while the sampling task decodes them.
ExclusiveRead == task \in {"high", "low"} => ~access

\* Both halves the task has read belong to one frame, and neither was read
\* while a transfer was filling it, although a frame may be replaced by the
\* next one between its announcement and its reading, and halves are skipped.
FrameWhole ==
    task \in {"unlock", "enter", "setHigh", "setLow"} =>
        sample["HIGH"] = sample["LOW"] /\ sample["HIGH"] # Torn

\* What the main task fetches belongs to one frame.
SignalWhole == reader = "leave" /\ seen.valid => seen.high = seen.low /\ seen.high # Torn

\* A frame is lost when the task is late, and the next one is counted in its
\* place: never more than twice, so no single frame can fill the rings.
CountedTwiceAtMost == reads <= 2

\* A frame that was begun is finished in spite of skipped edges.
FrameCompletes == access ~> ~access

\* The signal is refreshed again and again: a task that always comes too late
\* for one frame still gets a later one.
SignalRefreshed == []<>(task = "leave")

\* "returns false if signal is unstable/invalid": what get_cp_signal calls valid
\* was measured.
ValidIsMeasured == reader = "leave" /\ seen.valid => counted = SampleSize
=============================================================================
