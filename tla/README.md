# TI AM62x EVSE firmware: TLA+ models and proofs

A verification development of the charger in this repository: the firmware of the
M4F microcontroller (`firmware/`) that watches the control pilot (CP) of an electric
car and switches the contactor, and the EVerest driver (`everest-module/`) that
remote-controls it over RPMsg.

## 1. The system

### Components, state and operations

| Component | Source | State it keeps | Operations |
|---|---|---|---|
| State machine `iec61851::FSM` | `firmware/lib/iec61851_fsm.*` | `cur_state`, `prev_state`, PWM flags, `power_on_allowed`, `simplified_mode`, phase latch, two countdowns | `run`, `set_pwm_on/off/f`, `enable`, `disable`, `allow_power_on`, setters |
| HAL and board drivers | `firmware/lib/iec61851_hal.hpp`, `bsp_drivers/power_switch`, `rcd`, `charger_lock` | contactor output, (stub) RCD and lock | `on/off/is_on`, `enable/disable/got_fired/reset`, `lock/unlock` |
| PWM output | `bsp_drivers/control_pilot.*` | timer registers | `set_pwm`, `enable`, `disable`, timer interrupt |
| Sampler | `bsp_drivers/sampler.*` | frame buffers, write-access flag, two mutexes, a semaphore, three averaging rings, the averaged signal | trigger (timer interrupt), `adc_spi_cb` (SPI interrupt), `loop` (sampling task), `get_latest_cp_signal` (main task) |
| RPMsg endpoint | `bsp_drivers/rpmsg.*` | counting semaphore, remote endpoint | `receive_notify_cb` (IPC interrupt), `get_msg`, `send_msg` |
| Main loop | `firmware/main.cpp` | none beyond the above | get a message (at most 50 ms), handle it, `fsm.run()` |
| EVerest driver | `everest-module/.../board_support_ACImpl.*` | RPMsg device, output buffer with mutex | `setup_connection`, `ready`, command handlers, receive thread |
| Messages | `firmware/pb_codec/*.pb.*` | structs, descriptors | filled in by the handlers and `push_event`, read by `handle_incoming_message` and the receive thread |
| Codec (nanopb) | `firmware/pb_codec/nanopb/` | streams, field iterator | `pb_encode_ex`, `pb_decode_ex`, sizing |

### How they interact

    EVerest driver --RPMsg commands--> endpoint --get_msg--> main loop --> FSM methods
    car --CP voltage--> ADC --SPI interrupt--> Sampler --averages--> FSM::run (through the HAL)
    FSM::run --> contactor, RCD, lock, PWM output;  events --send_msg--> EVerest driver

All methods of the FSM run in the main task, which has the highest priority; the sampling
task has the next one. The interrupts share data with the two tasks: the frame buffers
(timer and SPI interrupt, sampling task), the averaged signal (sampling task, main task)
and the message queue (IPC interrupt, main task).

### What is hard

* `run()` looks at two states and two PWM flags, the last recognised ones and the current
  ones, while messages change the current ones between two runs, any number of times.
* Several states leave out a command (B after A, A after F, ...) because some other run
  "must have" issued it. Whether it has depends on the whole history.
* The shedding countdown is started in one run, looked at in others, never stopped, and
  counts on a clock that wraps; unstable readings skip all of it.
* What the state machine reads is an average over ten frames, so a jump of the pilot passes
  through intermediate voltages; and it causes such jumps itself, since what it sets on the pilot
  is what it measures next.
* Frames are announced by one semaphore and protected by another, so the frame announced
  need not be the frame read.
* Message queue and message count are two objects.
* All threads of EVerest encode into one buffer; events can be lost, EVerest can restart under
  another endpoint, and the firmware answers for ever to the endpoint it heard first.
* The two compilers give enums, and so the structs of one message, different layouts. proto3
  leaves out zeros, but a `false` inside a oneof must arrive.
* `set_pwm` writes two registers of a running timer, at any moment of the PWM period.

What makes each component correct is listed with its runs in section 3; `PROJECT.json`
lists every hazard at its line with the properties aimed at it.

## 2. Modules

| Module | Models | Notes |
|---|---|---|
| `CpSignal` | `read_cp_state`, `is_voltage_in_range` | voltages in millivolt |
| `Iec61851Fsm` | the FSM, its countdowns, its HAL | one action per method; `Run(cp)` split by the recognised state |
| `Iec61851Session` | the FSM and a listener that only hears its events | ghost variables, they never influence the FSM |
| `Iec61851Timed` | the FSM in the main loop | bounded iteration time, fairness |
| `ContactorContract` | abstract: what the charger promises about the contactor | six variables |
| `ReportedPower` | abstract: what the link takes the FSM for | permission, contactor and the one event about it |
| `Iec61851Refinement` | the mappings from the FSM to the two | |
| `CpAveraging` | `AveragingRingBuffer`, the trust decision, the voltage conversion | between the pilot circuit and `read_cp_state` |
| `ChargerSystem` | the FSM on the pilot it drives and measures: `Iec61851Fsm` and `CpAveraging` share the output | main task, sampling task and car interleave |
| `Sampler` | the two interrupts, the sampling task and `get_latest_cp_signal` | every access to shared data is a step |
| `ControlPilot` | `set_pwm` and its arithmetic, the timer, `pwm_timer_isr` | the timer is external |
| `RpmsgEndpoint` | `receive_notify_cb`, `get_msg` | queue of the driver as a sequence |
| `BoardLink` | the threads of the driver, the endpoint, main loop, `push_event`, restarts | extends `RpmsgEndpoint`; of the FSM only what `ReportedPower` says |
| `PbWire` | streams, varints, tags, skipping of fields | a byte is a set of bits |
| `PbFields` | descriptors, their four encodings, the field iterator, access to structs | a struct is a function from offsets to values |
| `PbEncode`, `PbDecode` | `pb_encode.c`, `pb_decode.c` | |
| `BoardMessages` | the generated structs and descriptors, and who fills in and reads them | for enums of one and of four bytes |
| `PbCodec` | one message from struct to struct | adds sample messages with every kind of field |
| `Iec61851FsmProofs`, `Iec61851HistoryProofs`, `ChargerProofs`, `SamplerProofs`, `BoardLinkProofs`, `ControlPilotProofs`, `CpAveragingProofs`, `PbFieldsProofs` | theorems | those of `Iec61851Session` and `Iec61851Timed` are in `Iec61851HistoryProofs`, those of `RpmsgEndpoint` are in `BoardLinkProofs`, those of `PbWire` in `PbFieldsProofs` |
| `SampleReadings`, `MC*` | instances for TLC | |

### Correspondence with the code

**`Iec61851Fsm`.** A variable has the name of the member in camel case. `cpOut` is the last
value given to `cp.set_pwm` (constant +12 V, constant -12 V, or a square wave), `power` is
`power_switch.is_on()`. `pushed` holds the events of the last call in the order of the
callbacks. `run()` polls the RCD and the lock countdown first (`PollLockCheck`,
`rcdFired' = FALSE`), then reads the state (`Recognised(cp)`); the operator `Recognise`
states what the end of every recognised run does: events before the contactor command, the
command, events after it, `prev_state`, `prev_pwm_running`. `Contactor(command)` is
`power_on()`/`power_off()` with their early return when the contactor already is where it
should be; `PowerEvents` are their events. A countdown is a running flag and an age modulo
`TickWrap` (the code compares `uint32_t` differences). `simplified_mode` has no initialiser:
`Init` leaves it open. The constants describe the hardware: `RelayCanStick`, `RcdFitted`
(both FALSE for this board) and `Configurable` (whether the setters, which `main.cpp` never
calls, are called).

**`Iec61851Timed`.** A tick is a time that no iteration of the loop exceeds, so between two
ticks `run()` is called at least once (`polled`). `gap` bounds how long readings are
unstable in a row.

**`CpAveraging`.** The rings hold raw 12 bit values with the sizes of the code (ten samples,
deviation 400, one misfit). The car pulls the high part to its level, the diode leaves the
-12 V alone; `Raw` inverts the conversion of `get_latest_cp_signal` and clips at 0 as a
converter does. A change may fall between two frames or between the two halves of one, and
may come before the rings have settled after the one before (`MaxHasty` bounds how many in a
row do; the theorems hold for every bound). A behaviour of the module alone has changes of
the car and of the output that come from nowhere.

**`ChargerSystem`.** The instance `Pilot` of `CpAveraging` takes `cpOut` for its output. Frames
(`Sampling`) and changes of the car (`CarChanges`) leave the state machine alone; a run reads
`Pilot!CpSignal`, the last published averages (`RunOnPilot`), and every step of the state
machine that sets another output is a change for the rings (`PilotFollows`), between two frames
or within one. `served` is a history variable: run() has read the pilot since the rings settled.

**`Sampler`.** `done` is the pair `high_done`/`low_done`, `access` is
`adc_sample_write_access_aquired`. A buffer holds the number of the frame it was filled for
and `Torn` while a transfer fills it. Triggers are not ordered: a late timer interrupt
handles overflow and match out of order. The arithmetic of the averages is in
`CpAveraging`; here an averaged signal is represented by the last frame in it.

**`ControlPilot`.** The timer counts up, reloads at the end of its word and raises a flag at
overflow and match. A triggered output goes high at the overflow and low at the match: that
is how `pwm_timer_isr` reads them. Should the hardware toggle blindly instead, a match passed
over while `TMAR` is rewritten would invert the output, and nothing in the code would notice.
`set_pwm` is three steps (the decision, `TMAR`, `TCLR`) between which the timer runs and
interrupts happen. Duty cycles are thousandths; `Percent` is the truncation of the product in
single precision, which yields 52 and 58 for 0.53 and 0.59.

**`RpmsgEndpoint`.** The RPMessage driver, which is not in the repository, keeps a queue of
bounded size and calls the callback after it has queued a message. `refused` counts gives
that the full semaphore refused; `watched` follows one arbitrary message. The module is
checked as a part of `BoardLink`, which supplies the senders.

**`BoardLink`.** `stage` is where a thread is in `push_message`, `mutex` is `push_mtx`,
`out_buf` the shared buffer. The first heartbeat of `setup_connection` is a push like any other.
`reader` is the receive thread, which returns after a read error and is never started again.
`Die` is the end of the EVerest process at any point; the next one may open another endpoint
(`SetupConnection`). `Stray` is another process that writes to the endpoint of the MCU. On the
MCU an iteration is `Get`, `HandleAndRun` and, if there is something to report, `SendMsg`, which
loses the event when no buffer comes free or no peer is known. Of the state machine the module
keeps `ReportedPower`: power comes on only while it is allowed, may go off at any time, and each
change is one event. `HandleAndRun` is a `Message` of that module followed by its `Run`: the
message sets or clears the permission, or, as those for the PWM, withdraws it as a run may; that
events about the car are sent as well is a matter of `Iec61851Session`. `fate` is a history variable: what became of the last event.

**Codec.** Bytes and words are sets of bit numbers, so that shifting, masking and sign
extension are set operations and keep their width. A stream is a record with the flag `ok`, which
every call looks at as the code looks at the returned `bool`; the buffer of an output stream is
the sequence of bytes written. The iterator `pb_field_iter_t` is the index of a field with the
offsets computed from its descriptor word (`pb_field_iter`), for descriptors of 1, 2, 4 and 8
words. `Undefined` is memory nobody has written. A
string is its characters in front of the terminator. A fixed-count array that is not on the
wire gets no default value from the decoder; `WellFormed` says so.

## 3. Runs

Constants: periods are a few ticks instead of thousands, which keeps every relation between
them (expired, not expired, wrapped); the readings contain one voltage for every outcome of
`read_cp_state` (with PWM and without), so the state machine sees every branch.

| Run | Shows | Bounds |
|---|---|---|
| `fsm` | `PowerNeedsCar`: contactor closed only for a car in C or D; `PwmStopGuard`: never closed without PWM and without the countdown; `RcdGuardsPower`: never with the RCD unarmed; `PhasesFixedUnderLoad`; `NoForbiddenReclose`; `ImplementsContract` | with an RCD that fires and all setters; 1 tick to shed, clock modulo 2 (longer periods are in `timed`) |
| `session` | `PowerReportExact`: a listener knows the contactor (also with relays that stick); `PlugReportExact`, `RequestReportExact`: it knows the car in a session without faults; `ReportsPower`: the FSM implements `ReportedPower` | relays that stick; 2 ticks, clock modulo 3 |
| `timed` | `LoadShedInTime`: a load without PWM is shed at its deadline; `LoadEventuallyShed`: at last also with unstable readings; `DisabledOpens` | at most 2 ticks of unstable readings in a row, clock modulo 5 |
| `averaging` | `SettlesInTime`: ten frames after the last change the state that is there is read; `DoubtIsShort`: after a change of a settled signal a third state is read only while one sample is odd | sizes of the code; one change in a row may come before the rings have settled |
| `charger` | `ContactorFitsCar`: with settled rings and after a run the contactor is closed only for a car that asks for power; `ClosesForCar`: with settled rings it closes for no other | rings of 3; no car, a car in C and a short to PE; one hasty change in a row; a `VIEW` |
| `sampler` | `ExclusiveRead`, `FrameWhole`, `SignalWhole`: nothing torn; `CountedTwiceAtMost`; `FrameCompletes`, `SignalRefreshed`: frames and signals keep coming | 3 frame numbers (neighbouring frames differ), ring of 2 |
| `pilot` | `DutyDelivered`: an undisturbed period has the duty cycle asked for, whatever was set before; `SampledInPart`: the sampler is triggered for the part the output is in; `TriggersComplete` | registers of 7 bits, period 100, interrupts up to 3 ticks late, 3 calls |
| `link` | `RecvNeverFails`, `BacklogExact`, `MessageHandled`: the endpoint; `CommandWhole`: threads do not mix commands; `ViewExact`: a quiet link tells the truth about the contactor; `OffIsHeard`: power off is heard unless the event was lost | 2 threads, 2 endpoints, 2 calls, 1 restart, 1 stray message, 2 pending, 3 queued, 1 buffer to Linux: every overflow happens |
| `codec` | `RoundTrip`: what was filled in is what is read; `SizeExact`: sizes foreseen are exact; `CutRejected`: no shortened message passes for another; `DecodeSound`: whatever is accepted is a sound struct; `MessageMeant`: command and event arrive as what they meant | every command and event of the board, both enum sizes, three framings, samples of every field type, noise of up to 3 pieces |

The runs `fsm`, `sampler` and `link` also check a type invariant (`TypeOK`, `SamplerTypeOK`,
`EndpointTypeOK`); those of the other modules (`SessionTypeOK`, `TimedTypeOK`, `AveragingTypeOK`)
are theorems. Deadlock is checked
everywhere except in `codec`, where a message that has been decoded is the end.

Violation runs, each a disagreement between the code and what its comments say
(`findings` in `PROJECT.json` quotes them):

| Run | What happens |
|---|---|
| `lock_under_load` | one second after closing the contactor `run()` unlocks the connector |
| `f_is_left` | the `run()` after `set_pwm_f()` leaves F, because the measurement is older than the output |
| `valid_at_start` | the signal may be "valid" before anything was measured |

### Why the bounds are enough

* The state machine keeps no counter but the two countdowns, so a run with a clock of two or
  three ticks reaches every combination of its flags; the theorems are for all periods.
* In `charger` a ring of three still holds old samples, new ones and the one misfit the firmware
  tolerates in each of its phases; the three levels are a car that asks, none, and the signal
  that shows nothing. The `VIEW` leaves out what no guard and no property of the run looks at: the
  events, the lock, the configuration, and the voltages of a signal that is not valid.
* In `link` a third thread adds no new conflict (one mutex), a second restart no new endpoint
  that is not heard; queues of two and three fill up, and the semaphore refuses.
* In `pilot` a period of 100 makes a per cent one tick, so truncation and the boundary cases
  0, 1, 99 and 100 per cent fall on different ticks; three calls cover pulse, constant output,
  pulse.
* In `codec` the values of each type are its boundary values; positions of cuts and of unknown
  fields are all positions.

### Fairness

* `Iec61851Timed`: weak fairness of `Poll` (the main loop never blocks for longer than its
  receive timeout) and of the tick. None for messages and for stable readings; instead the
  assumption `MaxUnstableTicks` says that readings are not unstable for ever.
* `Sampler`: the timer always triggers both halves again and transfers end (weak). The
  sampling task gets the processor although the main task has the higher priority, since
  that one waits for messages most of the time; for steps that compete for a mutex this is
  strong fairness, as an interrupt may take the buffer again before the woken task has run.
* `ControlPilot`: the timer counts, a pending interrupt is served, and a `set_pwm` that has
  begun goes on (weak).
* `BoardLink`: the main task runs (it has the highest priority and every wait of it has a
  timeout), Linux runs a thread inside `push_message` and the receive thread, and discards
  what is addressed to nobody (weak). None for calls, restarts and read errors.

## 4. Proofs

| Theorem | Says | Rests on |
|---|---|---|
| `TypeCorrect` | `TypeOK` for all readings, periods and clocks | `FsmAssumption` |
| `PowerOnlyForCar`, `PwmStopGuarded`, `RcdArmedUnderLoad` | the three safety properties of `fsm` | relays do not stick |
| `PhasesFixed`, `RecloseForbidden` | the two action properties of `fsm` | relays do not stick |
| `ImplementsContractor` | the FSM implements `ContactorContract` | relays do not stick |
| `SessionTypeCorrect` | `SessionTypeOK` | `FsmAssumption` |
| `PowerReports` | `PowerReportExact`, also with relays that stick | no RCD that opens the contactor by itself |
| `FsmReportsPower` | `ReportsPower`: the FSM implements `ReportedPower`, also with relays that stick | the same |
| `PlugReports`, `RequestReports` | `PlugReportExact`, `RequestReportExact` | `FsmAssumption` |
| `TimedTypeCorrect` | `TimedTypeOK` | `FsmAssumption`, `TimedAssumption` |
| `LoadsShedInTime` | `LoadShedInTime`, for all periods, clocks and lengths of a disturbance | the same; relays do not stick |
| `EndpointTypesKept`, `BacklogsExact`, `RecvSafe` | `EndpointTypeOK`, `BacklogExact`; the assertion in `get_msg` never fails | `EndpointAssumption` |
| `LinkKeepsEndpoint` | the same two hold inside the link | `EndpointAssumption`, `LinkAssumption` |
| `CommandsWhole`, `ViewsExact` | `CommandWhole`, `ViewExact` for any number of threads, endpoints, calls and restarts | the same |
| `SamplerTypesKept`, `ReadIsExclusive`, `FramesWhole`, `NoFrameThrice` | the invariants of the frame buffers | `SamplerAssumption` |
| `SignalSafe` | `SignalWhole` | the valid flag starts as false |
| `AveragingTypesKept` | `AveragingTypeOK` for rings of every size | `AveragingAssumption` |
| `SettlesInOneRound` | `SettlesInTime` for rings of every size | the same; `LevelsClear` |
| `DoubtOnlyByOneSample` | `DoubtIsShort` | the same; `FirmwareSizes`, `LevelsNominal` |
| `ChargerKeepsPilot` | the charger implements `CpAveraging` | `FsmAssumption`, `ChargerAssumption` |
| `ChargerTypes`, `ChargerKeepsContract` | `TypeOK` and `ImplementsContract` when the FSM reads what the rings hold | the same; for the contract, relays do not stick |
| `ChargerReadsRight` | `SettlesInTime` when the FSM drives the pilot | the same; `LevelsClear` |
| `ContactorFits`, `ClosesForCars` | `ContactorFitsCar`, `ClosesForCar` for rings of every size, any deviation and number of misfits | the same; relays do not stick |
| `DutiesDelivered`, `SamplesInPart` | `DutyDelivered`, `SampledInPart` for every period, register size, latency below one period and sequence of duty cycles | `PilotAssumption` |
| `VarintReadBack`, `SvarintReadBack`, `Varint32ReadBack`, `FixedReadBack`, `TagReadBack`, `StringReadBack` | every word, tag and byte string that is written is read back, and the stream stands right behind it | nothing |
| `CutVarintRefused`, `ShortestVarint` | a varint cut short is refused; the encoder's is the shortest there is | nothing |
| `DescriptorReadBack` | the words `PB_FIELDINFO` packs, in each of the four widths, hold what went into them | the static assertions of the width |
| `FieldFound` | `pb_field_iter_find` finds the field of a tag from anywhere, and nothing only if there is none | fields in the order of their tags |

**State machine.** The conjunction `Safety` of the three safety properties is inductive
together with `TypeOK`: none of the three is by itself. A run in B or A that does not cut
the power relies on `PowerNeedsCar` (the contactor was open already), and the run that first
sees the PWM stopped relies on `PwmStopGuard` for what the run before had seen. The lemmas
`OtherStatesOpen` and `ServeMoves` summarise the nine branches of `run()` in two facts:
states other than C and D end with an open contactor, and C and D move it only for the two
reasons the code gives. The refinement proof uses the same two lemmas and maps `Tick` to
`Elapse` or a stutter. With relays that stick none of this holds.

**Reports.** A call sends a sequence of events, of which the listener believes the last. The
proofs forget the order (`Said`): a call never says two contradicting things of the same matter,
so what it says at all decides (`KnownNews`). `RunTells` gives what a run says of the contactor,
`SaidInA` to `SaidInD` what it says of the car. The reports about the car are inductive
with `PlainStates`: a plain session is in one of these four states, and simplified mode has
ended when the car is back in A.

That a listener may take the last event for the truth does not yet say what the link builds
on. `ReportsPower` is stronger: among the events of one call there is exactly one about the
contactor if it moved, and none if not. `TellsOfCommand` says of every recognised state that
its events are the ones of the switch command between events about other matters (`Quiet`),
and that it commands to close only where power is still allowed at the end of the run;
`NewsOnce` finds the one event among the others, `NoNews` is the case without. It needs
neither `Safety` nor relays that obey, only that no RCD opens the contactor behind the back of
the state machine, since that is reported by the run after.

**Deadline of load shedding.** `TimedInv` adds four facts to `Safety`: while the contactor is
closed without PWM the countdown runs and is below its period plus the ticks since the last
recognised reading (`CountdownKept`); nothing is remembered of a load that is gone (`IdleClock`);
before a run has seen the PWM stopped at most one tick has passed (`StopUnseen`), and since then
the countdown is at most one tick behind the load (`StopSeen`). `CountdownKept` is what excludes
the wrap of the tick counter (`TickAges`), and the only place where `TimedAssumption` is
needed: readings may be unstable for any time shorter than one round of the counter.

**Sampler.** `BufferInv` says who owns the buffers (`BufferOwned`), that a half in `done`
holds the frame in work and that without a frame in work both halves hold the last one
(`FrameKept`), what the task has decoded (`Decoded`), and how many announcements are left
for the frame in the buffers (`ReadsLeft`). `ExclusiveRead` alone is not inductive: the
interrupt's flag and the task's position are tied together only by the mutex. `SignalInv`
does the same for the averaged signal and uses `FrameWhole`.

**Endpoint and link.** `BacklogExact` is inductive with the types, because the message the
task was woken for is still counted while it is between semaphore and queue (`InRecv`).
`LinkInv` adds to it that a thread past `Lock` is the holder of the mutex (`Exclusive`), that
every change of the contactor is under way, heard or lost (`InSight`), and where a peer that is
not the driver comes from (`Alone`). `ViewExact` needs the last two: events overtake nothing, so
the newest one decides, and an event is discarded only for an endpoint somebody else opened.

**Control pilot.** `PilotInv` says that the registers are those of the duty cycle asked for once
`set_pwm` has returned (`Registers`), that an output which pulses undisturbed is high exactly while
the counter is below the match (`Output`), that a period which ended undisturbed was high for
what the match leaves of it (`Delivered`), and where the counter was when a waiting flag was
raised (`Pending`). `DutyOfMatch` then bounds what the two truncations cost. `SampledInPart`
needs `Pending` for two periods: a match of the period before may still be waiting, and only
the length of the low part tells that this cannot be a late one.

**Averages.** A fold over the slots adds in an order of its own (`CHOOSE`), so nothing about a sum
follows without induction. The library's induction theorems cannot be instantiated here;
instead `LeastSubset` takes the least subset of the slots on which a claim is false. It gives the
recursion equation of the fold (`SumStep`), that any slot may be taken out first (`SumTakeOut`) and
the bounds of a sum (`SumBounds`). `SettleInv` then says that the slots written since the last change
hold the new value (`Fresh`, by `Age`), and that what is published are the averages of the
rings; after one round nothing else is left (`Uniform`). `DoubtInv` adds that all other slots hold the
value of before the change (`Passing`), and that either ring may be one frame ahead. `Mixture`
says what follows for a trusted average: one slot is odd, or of either value two or
more fit (`OneFits`), and then the two values are no more than two deviations apart
(`Near`), which is less than two states are (`NearState`). After a level that
is no state a single sample is not seen at all, since it pulls the average by at most a tenth
of the way (`OddPull`). The hypotheses: `LevelsClear` says that no level is so close above an edge of
a range that the converter, which rounds down, takes it to the other side; the nominal
levels are (`NominalLevelsClear`). `FirmwareSizes` is at least ten slots, a deviation of at most 400
and at most one misfit. `LevelsNominal` is what makes the last claim true: a level is 0 V or within
0.5 V of a nominal one. Levels further off may be two states apart and yet within two
deviations (4885 mV), such as 11.4 V and 6.6 V: a ring of half of each is trusted and read as B.

**Charger.** The two parts were proved for inputs that come from nowhere: the state machine for
`Readings`, `CpAveraging` for arbitrary changes. `ChargerProofs` puts them together. `AnyNext` is
`Next` with any measurement, and `TypeStep`, `SafetyStep` and `ContractStep` are about it, so they
serve for the readings of `Pilot` as well. The other way round, each step of the charger is a step
or a stutter of `CpAveraging` (`ChargerKeepsPilot`), because its changes are arbitrary; so
`SettlesInOneRound` holds of the charger, and with it what a settled ring reads (`ChargerSettles`).
`RecognisesShown` says that a run which reads it takes the branch of the state the car shows; by
`OtherStatesOpen` that branch opens the contactor unless it is C or D. `ContactorFitsCar` is then
kept until the next change (`FitsStep`). Three things in it are there for a reason: `since = SampleSize`, as
during a jump the contactor may close for a state that never was there (after -12 V one odd sample
makes 9 V read as C); `served`, as a contactor closed during the jump stays so until run() is called;
and `Unstable`, as a CP shorted to PE while the PWM is off is no state to `read_cp_state`: run() does
nothing then, and a contactor that was closed stays closed, even past the end of the
shedding countdown. `OutputAsTold` in `served` excludes duty cycles of 0 and 1, where the output is constant and
the state machine expects a PWM; `ClosesForCar` holds there too.

**Wire format.** Words are sets of bits, so the round trips are about sets: `GroupsOfLow` and
`GroupsOfHigh` cut a word into its groups of seven the way the two halves of `pb_encode_varint` do,
`EncodeWrites` sums up what comes out (`IsVarint`: the groups up to the highest one in use, all but the
last marked as continued), and `LengthOfVarint` and `PayloadOfVarint` say what a reader makes of
it. Numbers become words and words numbers again by `Bits` and `Num`; that they are inverses
(`NumOfBits`) is an induction over the bits, done by the least bit at which two solutions of the recursion
differ. `LeastIn` gives that bit, and also stands in for the induction in `FieldFound`, where two
walks of the iterator are compared. For descriptors, `HeadIs` says what the sixteen low bits of
every first word hold, `PackedBack` that a part with room for its number gives it back, and
`TagJoined` puts the two halves of a tag together; one lemma for each width does the rest.
The lists in `BoardMessages` are in the order of their tags, as the generator writes them.

Only model-checked: everything under fairness (`LoadEventuallyShed`, `DisabledOpens`,
`FrameCompletes`, `SignalRefreshed`, `MessageHandled`, `OffIsHeard`, `TriggersComplete`), which the
proof system does not reach; and whole messages (`RoundTrip`, `SizeExact`, `CutRejected`, `DecodeSound`,
`MessageMeant`), which nest and need the recursive operators of `PbEncode` and `PbDecode`.

## 5. What is not modelled, and why

* A method of the FSM is one step. Events are sent from inside `run()` and a send may take
  up to 10 ms, so real ticks pass within a step; the tick of `Iec61851Timed` is long enough
  to contain it.
* Of nanopb: fields on the heap and `pb_release` (`PB_ENABLE_MALLOC` is not defined), extensions,
  callbacks set by a user, explicit default values, doubles converted to floats, and the
  validation of UTF-8 (`PB_VALIDATE_UTF8` is not defined). No message of this system has any.
* `wait_for_linux` and the initialisation before it, `entry.cpp`, the module wrapper, the dummy
  RPMsg library and the build files: waiting loops, constants and generated code without state.
* The charging logic in the `#else` of `main.cpp` is not compiled.
* A decision of the operating systems on both sides, such as what becomes of a message without a
  receiver, is modelled from what the code in the repository relies on (marked `external`).
* Things the comments may be read to exclude that do happen in the model and have no run of
  their own: SetPWM F takes a disabled state machine out of Disabled; unstable readings postpone
  load shedding beyond the six seconds (`LoadShedInTime` is about undisturbed loads); a car that
  leaves during F or Disabled is never reported as unplugged (`PlugReportExact` is about plain
  sessions); in simplified mode power may go on without CarRequestedPower
  (`RequestReportExact` excludes it); and one odd sample, which `CP_SAMPLE_MAX_MISFITS` tolerates,
  still enters the average, so a jump between -12 V and +9 V or +12 V is read for a frame or
  two as a state that never was there (`DoubtIsShort` and `ContactorFitsCar` bound what comes of it).

## 6. Plan

Done: all the modules of section 2 with their runs and proofs. The parts meet in three
places, each proved: state machine and pilot in `ChargerProofs`, state machine and link by
`ReportsPower`, endpoint and link by `LinkKeepsEndpoint`.

Left: link, main loop and the full state machine in one module, for the liveness of the whole (a car
that asks for power gets it when EVerest allows it), which only TLC could check; and a run
of `ChargerSystem` with relays that stick, where the contactor outlasts the car.
