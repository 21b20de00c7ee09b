--------------------------- MODULE SamplerProofs ----------------------------
(***************************************************************************)
(* Proofs about Sampler, for every number of frame ids and every ring size.*)
(***************************************************************************)
EXTENDS Sampler, TLAPS

\* Steps of the sampling task in which it owns the frame buffers, or the signal.
Decoding == {"high", "low", "unlock"}
Publishing == {"setHigh", "setLow", "setValid", "setInvalid", "leave"}

\* The buffers are owned by an unfinished frame, by the task, or by nobody.
BufferOwned ==
    /\ sampleBufFree => ~access /\ task \notin Decoding
    /\ access => task \notin Decoding

\* A half in done holds the frame in work; without a frame in work both halves
\* hold the last one, unless there has been none and the task was never woken.
FrameKept ==
    /\ transfer = "started" => access /\ tbd \notin done
    /\ \A h \in done : buffer[h] = frame
    /\ access => done # Halves
    /\ ~access => done = Halves \/ (newSample = 0 /\ task = "await")

\* What the task has decoded so far.
Decoded ==
    /\ task = "low" => sample["HIGH"] = frame
    /\ task \in {"unlock", "enter", "setHigh", "setLow"} =>
           sample["HIGH"] = sample["LOW"] /\ sample["HIGH"] \in Frames

\* Announcements that are left for the frame in the buffers.
ReadsLeft == reads + newSample + (IF task \in Decoding \cup {"lock"} THEN 1 ELSE 0) <= 2

BufferInv == SamplerTypeOK /\ BufferOwned /\ FrameKept /\ Decoded /\ ReadsLeft

LEMMA TornIsNoFrame == \A f \in Frames : f # Torn
  BY DEF Frames, Torn

LEMMA NextFrame == ASSUME frame \in Frames PROVE (frame + 1) % FrameIds \in Frames
  BY SamplerAssumption DEF Frames

LEMMA BufferInit == Init => BufferInv
<1> SUFFICES ASSUME Init PROVE BufferInv
  OBVIOUS
<1>1. SamplerTypeOK
  <2>1. rawSignal \in Signals
    <3>1. PICK v \in {FALSE, StartsValid} : rawSignal = [valid |-> v, high |-> Torn, low |-> Torn]
      BY DEF Init
    <3>2. v \in BOOLEAN
      BY SamplerAssumption
    <3> QED
      BY <3>1, <3>2 DEF Signals, Contents
  <2>2. buffer \in [Halves -> Contents] /\ sample \in [Halves -> Contents] /\ frame \in Frames
    BY SamplerAssumption DEF Init, Contents, Frames
  <2>3. seen \in Signals
    BY DEF Init, Signals, Contents
  <2>4. transfer \in {"completed", "started"} /\ tbd \in Halves /\ done \in SUBSET Halves
    BY DEF Init
  <2>5. access \in BOOLEAN /\ sampleBufFree \in BOOLEAN /\ signalFree \in BOOLEAN
    BY DEF Init
  <2>6. newSample \in 0 .. 1 /\ counted \in 0 .. SampleSize /\ reads \in Nat
    BY SamplerAssumption DEF Init
  <2>7. task \in TaskSteps /\ reader \in ReaderSteps
    BY DEF Init, TaskSteps, ReaderSteps
  <2> QED
    BY <2>1, <2>2, <2>3, <2>4, <2>5, <2>6, <2>7 DEF SamplerTypeOK
<1>2. BufferOwned /\ FrameKept /\ Decoded /\ ReadsLeft
  BY DEF Init, BufferOwned, FrameKept, Decoded, ReadsLeft, Decoding
<1> QED
  BY <1>1, <1>2 DEF BufferInv

\* Types, one action at a time.
LEMMA TypeStep == SamplerTypeOK /\ [Next]_vars => SamplerTypeOK'
<1> SUFFICES ASSUME SamplerTypeOK, [Next]_vars PROVE SamplerTypeOK'
  OBVIOUS
<1> USE SamplerAssumption DEF SamplerTypeOK, isrVars, taskVars, readerVars, Contents
<1>1. ASSUME NEW half \in Halves, StartFrame(half) PROVE SamplerTypeOK'
  BY <1>1, NextFrame DEF StartFrame, StartTransfer
<1>2. ASSUME NEW half \in Halves, ContinueFrame(half) PROVE SamplerTypeOK'
  BY <1>2 DEF ContinueFrame, StartTransfer
<1>3. CASE TransferDone
  <2>1. buffer' \in [Halves -> Contents] /\ done' \in SUBSET Halves
    BY <1>3 DEF TransferDone
  <2>2. newSample' \in 0 .. 1 /\ reads' \in Nat
    BY <1>3 DEF TransferDone, FrameDone, NewSampleGiven
  <2>3. access' \in BOOLEAN /\ sampleBufFree' \in BOOLEAN
    BY <1>3 DEF TransferDone
  <2> QED
    BY <1>3, <2>1, <2>2, <2>3 DEF TransferDone
<1>4. CASE LockBuffer
  BY <1>4 DEF LockBuffer, TaskGoes, TaskSteps
<1>5. CASE Loop
  <2>1. CASE AwaitSample
    BY <2>1 DEF AwaitSample, TaskGoes, TaskSteps
  <2>2. CASE Decode("HIGH", "high", "low") \/ Decode("LOW", "low", "unlock")
    BY <2>2 DEF Decode, TaskGoes, TaskSteps, Halves
  <2>3. CASE UnlockBuffer
    BY <2>3 DEF UnlockBuffer, TaskGoes, TaskSteps
  <2>4. CASE EnterSignal
    BY <2>4 DEF EnterSignal, TaskSteps
  <2>5. CASE \/ Publish("high", sample["HIGH"], "setHigh", "setLow")
             \/ Publish("low", sample["LOW"], "setLow", "setValid")
             \/ Publish("valid", TRUE, "setValid", "leave")
             \/ Publish("valid", FALSE, "setInvalid", "leave")
    BY <2>5 DEF Publish, TaskGoes, TaskSteps, Signals, Halves
  <2>6. CASE LeaveSignal
    BY <2>6 DEF LeaveSignal, TaskGoes, TaskSteps
  <2> QED
    BY <1>5, <2>1, <2>2, <2>3, <2>4, <2>5, <2>6 DEF Loop
<1>6. CASE BeginFetch \/ Fetch
  BY <1>6 DEF BeginFetch, Fetch, FetchValid, FetchHigh, FetchLow, EndFetch, Reads, ReaderSteps,
     Signals
<1>7. CASE UNCHANGED vars
  BY <1>7 DEF vars
<1> QED
  BY <1>1, <1>2, <1>3, <1>4, <1>5, <1>6, <1>7 DEF Next, Interrupt, Trigger

LEMMA BufferStep == BufferInv /\ [Next]_vars => BufferInv'
<1> SUFFICES ASSUME BufferInv, [Next]_vars PROVE (BufferOwned /\ FrameKept /\ Decoded /\ ReadsLeft)'
  BY TypeStep DEF BufferInv
<1> USE DEF BufferInv, SamplerTypeOK, BufferOwned, FrameKept, Decoded, ReadsLeft, Decoding,
        isrVars, taskVars, readerVars
<1>1. ASSUME NEW half \in Halves, StartFrame(half)
      PROVE (BufferOwned /\ FrameKept /\ Decoded /\ ReadsLeft)'
  BY <1>1 DEF StartFrame, StartTransfer, MayStartFrame, Halves
<1>2. ASSUME NEW half \in Halves, ContinueFrame(half)
      PROVE (BufferOwned /\ FrameKept /\ Decoded /\ ReadsLeft)'
  BY <1>2 DEF ContinueFrame, StartTransfer, AlreadyDone, Halves
<1>3. CASE TransferDone
  <2>1. /\ access /\ task \notin Decoding
        /\ done' = done \cup {tbd} /\ \A h \in done' : buffer'[h] = frame
    BY <1>3 DEF TransferDone
  <2>2. CASE done' = Halves
    <3>1. /\ ~access' /\ sampleBufFree' /\ newSample' = 1 /\ reads' = 0
          /\ transfer' = "completed" /\ task' = task /\ frame' = frame /\ sample' = sample
      BY <1>3, <2>2 DEF TransferDone, FrameDone, NewSampleGiven
    <3> QED
      BY <2>1, <2>2, <3>1
  <2>3. CASE done' # Halves
    BY <1>3, <2>1, <2>3 DEF TransferDone, FrameDone
  <2> QED
    BY <2>2, <2>3
<1>4. CASE LockBuffer
  BY <1>4 DEF LockBuffer, TaskGoes
<1>5. CASE Loop
  <2>1. CASE AwaitSample
    BY <2>1 DEF AwaitSample, TaskGoes
  <2>2. CASE Decode("HIGH", "high", "low")
    BY <2>2 DEF Decode, TaskGoes, Halves
  <2>3. CASE Decode("LOW", "low", "unlock")
    BY <2>3 DEF Decode, TaskGoes, Halves
  <2>4. CASE UnlockBuffer
    BY <2>4 DEF UnlockBuffer, TaskGoes
  <2>5. CASE EnterSignal
    BY <2>5 DEF EnterSignal
  <2>6. CASE \/ Publish("high", sample["HIGH"], "setHigh", "setLow")
             \/ Publish("low", sample["LOW"], "setLow", "setValid")
             \/ Publish("valid", TRUE, "setValid", "leave")
             \/ Publish("valid", FALSE, "setInvalid", "leave")
             \/ LeaveSignal
    BY <2>6 DEF Publish, LeaveSignal, TaskGoes
  <2> QED
    BY <1>5, <2>1, <2>2, <2>3, <2>4, <2>5, <2>6 DEF Loop
<1>6. CASE BeginFetch \/ Fetch
  BY <1>6 DEF BeginFetch, Fetch, FetchValid, FetchHigh, FetchLow, EndFetch, Reads
<1>7. CASE UNCHANGED vars
  BY <1>7 DEF vars
<1> QED
  BY <1>1, <1>2, <1>3, <1>4, <1>5, <1>6, <1>7 DEF Next, Interrupt, Trigger

\* decode_burst_adc_samples has the exclusive access it assumes, the two halves
\* it returns belong to one frame, and no frame is counted more than twice
\* (sampler.cpp, lines 86-157 and 178-197).
THEOREM SamplerSafe == Spec => [](SamplerTypeOK /\ ExclusiveRead /\ FrameWhole /\ CountedTwiceAtMost)
<1>1. BufferInv => SamplerTypeOK /\ ExclusiveRead /\ FrameWhole /\ CountedTwiceAtMost
  BY TornIsNoFrame DEF BufferInv, SamplerTypeOK, BufferOwned, Decoded, ReadsLeft, Decoding,
     ExclusiveRead, FrameWhole, CountedTwiceAtMost
<1> QED
  BY BufferInit, BufferStep, <1>1, PTL DEF Spec

\* The steps, flags and buffers of the sampler keep their types.
THEOREM SamplerTypesKept == Spec => []SamplerTypeOK
  BY SamplerSafe, PTL

\* While the task decodes or releases the buffer no transfer is written into it
\* (aquire_adc_sample_write_access in trigger_adc_readout, lines 86-151).
THEOREM ReadIsExclusive == Spec => []ExclusiveRead
  BY SamplerSafe, PTL

\* What decode_burst_adc_samples returns are the two halves of one frame
\* (lines 153-157 and 187-192).
THEOREM FramesWhole == Spec => []FrameWhole
  BY SamplerSafe, PTL

\* The binary semaphore new_sample lets a frame be averaged twice at most
\* (lines 103 and 178-197).
THEOREM NoFrameThrice == Spec => []CountedTwiceAtMost
  BY SamplerSafe, PTL
-----------------------------------------------------------------------------
\* The signal is owned by the task, by the reader, or by nobody.
SignalOwned ==
    /\ signalFree => task \notin Publishing /\ reader = "away"
    /\ reader # "away" => task \notin Publishing

WholeSignal(signal) == signal.high = signal.low /\ signal.high # Torn

\* A valid signal is whole except between the assignments to high and to low.
SignalKept ==
    /\ task = "setLow" => rawSignal.high = sample["HIGH"]
    /\ task = "setValid" => WholeSignal(rawSignal)
    /\ task # "setLow" /\ rawSignal.valid => WholeSignal(rawSignal)

Fetched ==
    /\ reader \in {"high", "low"} => rawSignal.valid
    /\ reader = "low" => seen.high = rawSignal.high
    /\ reader = "leave" /\ seen.valid => WholeSignal(seen)

SignalInv == SamplerTypeOK /\ SignalOwned /\ SignalKept /\ Fetched

LEMMA SignalInit == ~StartsValid /\ Init => SignalInv
<1> SUFFICES ASSUME ~StartsValid, Init PROVE SignalInv
  OBVIOUS
<1>1. SamplerTypeOK
  BY BufferInit DEF BufferInv
<1>2. ~rawSignal.valid
  BY DEF Init
<1>3. SignalOwned /\ SignalKept /\ Fetched
  BY <1>2 DEF Init, SignalOwned, SignalKept, Fetched, Publishing
<1> QED
  BY <1>1, <1>3 DEF SignalInv

LEMMA SignalStep == SignalInv /\ FrameWhole /\ [Next]_vars => SignalInv'
<1> SUFFICES ASSUME SignalInv, FrameWhole, [Next]_vars
             PROVE (SignalOwned /\ SignalKept /\ Fetched)'
  BY TypeStep DEF SignalInv
<1> USE DEF SignalInv, SamplerTypeOK, SignalOwned, SignalKept, Fetched, Publishing, WholeSignal,
        isrVars, taskVars, readerVars
<1>1. CASE Interrupt
  BY <1>1 DEF Interrupt, Trigger, StartFrame, ContinueFrame, StartTransfer, TransferDone
<1>2. CASE LockBuffer \/ AwaitSample \/ UnlockBuffer
  BY <1>2 DEF LockBuffer, AwaitSample, UnlockBuffer, TaskGoes
<1>3. CASE Decode("HIGH", "high", "low") \/ Decode("LOW", "low", "unlock")
  BY <1>3 DEF Decode, TaskGoes
<1>4. CASE EnterSignal
  BY <1>4 DEF EnterSignal, SignalGranted
<1>5. CASE Publish("high", sample["HIGH"], "setHigh", "setLow")
  BY <1>5 DEF Publish, TaskGoes, Signals
<1>6. CASE Publish("low", sample["LOW"], "setLow", "setValid")
  BY <1>6 DEF Publish, TaskGoes, Signals, FrameWhole
<1>7. CASE Publish("valid", TRUE, "setValid", "leave") \/ Publish("valid", FALSE, "setInvalid", "leave")
  BY <1>7 DEF Publish, TaskGoes, Signals
<1>8. CASE LeaveSignal
  BY <1>8 DEF LeaveSignal, TaskGoes
<1>9. CASE BeginFetch
  BY <1>9 DEF BeginFetch, Reads, SignalGranted, Signals
<1>10. CASE Fetch
  BY <1>10 DEF Fetch, FetchValid, FetchHigh, FetchLow, EndFetch, Reads, Signals
<1>11. CASE UNCHANGED vars
  BY <1>11 DEF vars
<1> QED
  BY <1>1, <1>2, <1>3, <1>4, <1>5, <1>6, <1>7, <1>8, <1>9, <1>10, <1>11 DEF Next, Loop

\* What get_latest_cp_signal returns as valid is the high and the low part of
\* one frame, provided that raw_cp_signal.valid happens to start as false
\* (sampler.cpp, lines 159-176 and 199-208).
THEOREM SignalSafe == ~StartsValid /\ Spec => []SignalWhole
<1>1. SignalInv => SignalWhole
  BY DEF SignalInv, Fetched, SignalWhole, WholeSignal
<1>2. Spec => []FrameWhole
  BY SamplerSafe, PTL
<1>3. Spec => [][Next]_vars
  BY PTL DEF Spec
<1> QED
  BY SignalInit, SignalStep, <1>1, <1>2, <1>3, PTL DEF Spec
=============================================================================
