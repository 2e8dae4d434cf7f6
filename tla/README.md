# Satellite1-XMOS: specification and verification

The firmware of the Satellite1 voice board runs FreeRTOS on the two tiles of an
XMOS xcore.ai. This directory holds TLA+ models of the parts of it where tasks,
interrupt handlers and the host at the other end of a wire share state: the
firmware update over device control, the I2S driver, the device control library
with its three transports, USB audio with the rate it adapts to, the audio
pipelines that run on the sample clock, and the build script that numbers the
firmware. TLC checks them on small instances; TLAPS proves nearly all of their
safety properties for every value of the constants. Paths below are relative to `src/`.

## 1. Inventory

| part | code | state it keeps | operations | what is hard |
|---|---|---|---|---|
| DFU state machine | `dfu_int/dfu_state_machine.c` | `dfu_data`: state, status, block and fragment numbers, buffer, two notification indices, a semaphore | 8 host commands, one task | two tasks share a struct without a lock; prediction of a state yet to be entered |
| DFU servicer | `dfu_int/dfu_servicer.c` | none | forwards commands | blocks in UPLOAD |
| DFU flash side | `dfu_int/dfu_common.c` | `bytes_avail`, `dn_base_addr`, `total_len`; the flash | write, read, make manifest, reboot | statics that outlive a session; resets in mid-write |
| I2S driver | `modules/fph/i2s_sync/src/rtos_i2s.c` | three ring buffers, wake-up requests, semaphores | rx, tx, tx_1; driver callbacks; interrupt handler | lock-free sharing with a thread that cannot wait |
| device control | `modules/fph/rtos_device_control/src` | resource and servicer tables, queues, last status, status buffer | registration, request, payload transfer, command loop | two tiles, shared queues of length 1, boot order |
| SPI transport and host | `.../transport/spi`, `.../host/device_access_spi_rpi.c` | transfer buffers | transfer callbacks; write and read command with retries | transfers that are ignored and repeated |
| GPIO servicer | `satellite-xmos-firmware/src/gpio` | port table | commands; a task that mirrors an input port | notifications overwritten while they are handled |
| I2C, USB transports and hosts | `.../transport/i2c`, `.../transport/usb`, `.../host` | the request of the last transfer, the last status | callbacks of the stages of a transfer; write and read command | a command takes several transfers, and the host may give up between them |
| LED ring, servicer support | `src/led_ring`, `src/control` | command maps | command callbacks | none of its own |
| USB audio | `src/usb/usb_audio.c` | three stream buffers, flags | USB callbacks, two tasks | resets and refills between notification and use |
| adaptive rate | `src/usb/adaptive_rate_*.c` | event queue, buckets of time and data, PLL setting | transfer and start-of-frame callbacks, task | queue limit, timestamps, a late task |
| audio pipelines | `audio_pipelines/`, `src/main.c` | frame queues | stages; input and output callbacks | pipelines that wait for each other and for a clock that does not wait |
| I2S remote calls | `modules/fph/i2s_sync/src/rtos_i2s_rpc.c` | a mutex | client call, host thread | one more wait in the path of the microphones |
| delay buffer | `audio_pipelines/reference/adec/stage1` | ring of delayed samples, mode | get, set, switch | index arithmetic |
| version derivation | `versioning.py` | one directory for each tracked build, `version.h` | build, install | numbers that must not be given twice |
| watchdog, board support, LED strip | `src/main.c`, `bsp_config`, `rtos_ws2812` | little | boot sequences, conversions | hardware I/O |

How they interact. The host talks SPI to the transport's task, which is the
gateway of a device control instance. The gateway forwards a command to the
queue of the servicer that registered the resource, on its own tile or through
the intertile channel and a client thread, and waits for the answer. The DFU
servicer is one such servicer: its callbacks write into `dfu_data` and notify
the state machine task, which programs the flash through `dfu_common.c`; USB
DFU calls the same functions from USB callbacks. The speaker pipeline takes
frames from the I2S driver, gives them back to it for the DAC, and passes a copy
through a queue to the microphone pipeline, whose second half runs on the other
tile and sends its result to the I2S driver by a remote call. In the USB builds
the speaker pipeline also takes frames from USB and the microphone pipeline
gives it some; the adaptive rate sets the clock of it all from the USB stream.

`PROJECT.json` lists every component with its status, and every hazard of the
code at its line with the properties aimed at it.

What makes each part correct, in a sentence: *DFU*: the factory image survives
everything, a sector is written once, whole and inside its partition, the
diagrams of the comments are followed, every command returns. *I2S*: every
frame that fits is delivered once and in order, and no wake-up is lost.
*Device control*: every command is executed once, by the owner of its resource,
and its answer returns to the instance and host that asked. *USB audio*: no
reader runs with less data than it asserts, no backlog stays, nothing recorded
for one stream reaches the next, and the rate is that of recent transfers.
*Pipelines*: whatever they start with, they come to a steady flow. *Delay line*:
exactly the delay that is set. *Versions*: a number keeps its record, and a binary
is kept under the number it reports.

## 2. Modules

| module | models |
|---|---|
| `DfuCommon` | the window arithmetic and the flash of `dfu_common.c` |
| `DfuStateMachine` | `dfu_state_machine.c`, `dfu_servicer.c`: both tasks, the host, resets; extends `DfuCommon` |
| `DfuProtocol` | abstract: the state diagrams in the comments, with a mailbox for one request; and, apart from them, the one step that the code adds |
| `DfuRefinement` | the mapping of the two tasks onto `DfuProtocol` |
| `I2s` | `rtos_i2s.c` |
| `FrameFifo` | abstract: a bounded queue of frames that may lose one at its end |
| `DeviceControl` | `device_control.c`, `resource_table.c`, servicers on both tiles |
| `ControlCalls` | abstract: every call executed once by the owner of its resource |
| `SpiControl` | SPI transport, its host, `gpio_handler_task`; extends `DeviceControl` |
| `ControlTransports` | the I2C and USB transports and their hosts, `device_control_payload_transfer` |
| `UsbAudio` | the sample paths of `usb_audio.c` |
| `AdaptiveRate` | `adaptive_rate_adjust.c`, and `sof_toggle` |
| `RateWindow` | `determine_USB_audio_rate`: the ring of buckets |
| `AudioFlow` | the callbacks of `main.c`, the two pipelines on both tiles, the remote I2S call |
| `DelayBuffer` | the delay line of the `adec` first stage |
| `Versioning` | `versioning.py` for development builds |
| `MC*` | instances for TLC; `MCImages`, `MCSpi` and `MCAudio` run parts that share nothing side by side |
| `*_proofs` | theorems and proofs |

### DFU

The servicer's commands (`Receive*`) are split where they touch what the other
task writes: length, copy, counter, bits, then the semaphore of UPLOAD. The
state machine's loop is `SmWait` (bits), `SmTakeOne`/`SmTakeStalled` (counter),
one action per case of its switch, and the steps of a sync: `SmStatusSync`,
`SmProgram`, `SmManifest`, `SmFinish`. GETSTATUS reads the state, decides
(`Decide*`, one per branch), and may set the error flag afterwards.

Abstractions: lengths are in fragments (0 or 1), addresses in sectors; the
buffer is the set of slots that hold data, and a flash sector holds the
alternate setting it was programmed for, or `"holed"` when a fragment was
missing. A poll of a busy machine finds the timer anywhere, any time up to `MaxElapsed`
after the last answer, and compares as the code does, modulo the timer's width
(`TooEarly`). The header's timeouts are in milliseconds there and in ticks here. The initial state is the one after the state machine task's
own initialisation; a reset of `dfu_data` is one step. A reboot spins until the
watchdog fires (`WatchdogReset`), and a sector that was being programmed may
then be erased or half written. `transfer_block` is not reset by an ABORT and a
last sector that is not full is dropped by the zero-length DNLOAD, as in the
code. The switch has no case for several bits at once: `OneBitWhenCounterIsOne`,
proved, is why none is needed.

Three disciplines of a host are told apart by the constant `Host`: `"settled"`
sends when the last request was served, `"polling"` also sends GETSTATUS
meanwhile, `"any"` sends at any time the servicer is free.

`DfuProtocol` translates the diagrams in the comments, `Abort` included. The code
leaves them in one step, an ABORT that is refused in dfuIDLE. That step is a
definition of its own (`AbortRefused`): `SpecAsBuilt`, with it, is what the two
tasks implement (`ImplementsProtocol`), and `FollowsDiagrams`, without it, is
finding 4.

### I2S

The unit is a frame. Copies of several frames are made frame by frame, since
the I/O thread can move a frame in between, and the wrap of an index ends a
chunk. `taskIndex`/`driverIndex` and the two totals name the two sides of
`read_index`/`write_index` and `total_read`/`total_written`. The I/O thread
visits the lanes in the order of the callbacks; the byte to the interrupt
handler is sent by the last one (`Flush`). Frames are numbered modulo
`ValueModulus`, which exceeds what a buffer holds, so that a frame lost,
doubled or out of order shows. The sample filters, which the firmware does not
install, are left out; the remote calls are in `AudioFlow`.

### Device control

Queues and channels of length 1 are sets of at most one message. A servicer
registers with the instances in the order of its array (`ArrayIndex`, which may
differ from one servicer to the other), and blocks on the one it is at until that
has room. A registration that takes too
long ends in the transport's assertion, which stops the firmware (`Halted`;
hence `CHECK_DEADLOCK FALSE`). A command's content is its resource, and its
outcome is either status. `Refuse` and `Special` are the calls that are answered
without a servicer. In `SpiControl` a transfer that finds the buffers prepared
is a step of both sides; one that does not reaches the default buffers, and is
a stutter, because the host repeats it. A read may ask for one byte: then the
response has the length that the transport takes for a response without payload
(`OneResponseByte`), and the host gets the transport's byte in place of the
servicer's. The firmware registers one input port.
Its interrupts start with its task; `EarlyChanges` says whether the port may
change before the instance is ready.

`ControlTransports` has the two transports that keep a request between
transfers. A host's command is one to three transfers; an I2C write may be cut
short on the wire, and a host that gives up leaves transfers behind that the
device still handles, in order, before the next ones. `do_command` is a step
here, and `ran` counts what it runs for the host's current command.

### USB audio and the adaptive rate

The callbacks run in the USB task one after the other, and are split only where
another task can step in: `HostPacket`, `HostPacketNotify` and `HostPacketGive` around
the test of the level and the notification, `LoadStarts` and `LoadWrites` around the test for a full buffer.
`usb_audio_out_task` is `Reader*`, `usb_audio_send` is `Send*`, and
`SetSpeaker`/`SetMicrophone` join the two callbacks the stack makes when the host
sets an interface. Buffers are counted in parts of a nominal packet. Three
histories say what the code does not record: which notifications were overtaken
by a reset, or by a read that such a one caused (`surplus`), and which samples are from before one (`oldUnits`,
`oldFrame`). A failed assertion ends the behaviour (`failed`, `queueFailed`).
A reset of a stream buffer during a receive, which FreeRTOS leaves undone when a
task is blocked on it, does not occur: nobody blocks on these buffers.

`AdaptiveRate` counts starts of frame; the task of the highest priority may
handle a transfer up to `MaxLate` of them late. `RateWindow` is the function it
calls: the ring of buckets and its sums. `divided` is what the last call divides,
and the history `since` of `RateWindow` has the time and the data since every transfer of the
measurement, as far back as the ring can reach (`Horizon`). The quotient and the
PLL's numerator are left out.

### Audio paths

One clock fills the receive buffer, empties both send buffers and completes a
frame of microphone samples every `S` ticks; everything else is a task that
blocks. A frame has no content and a buffer is a number of ticks' worth (`I2s`
shows how a buffer works). `Tick` waits until no task can move (`TaskCanRun`, the
guards of the tasks' actions), but for `MostLate` ticks; only the echo canceller takes ticks, up to `MaxWork`. The
pipelines start at any phase and with any backlog in the receive buffer and the
microphones. The two pipeline libraries' tasks are the first and the last stage of
each half, with a queue between.

`DelayBuffer` treats one channel; a sample is its stream and its age. Requests of
ADEC, which is external, are any delay at any end of a frame.

### Versions

A tag is its place in the order, `Prefixes` are the pairs of tags of which one,
as a string, begins the other. What `GitInfo` holds of a source is external
(`GitSees`): `git diff` leaves staged changes and new files out, so that two sources
can have one record, while a binary is of the source it was compiled from. A build, a compilation and an installation are
three invocations, and anything may happen between them; `workflow` remembers
whether anything did.

External, and modelled from its use: FreeRTOS queues, notifications and
semaphores, the SPI slave and intertile libraries, the flash.

## 3. Runs

| run | shows | instance |
|---|---|---|
| `any` | DFU invariants that hold whatever the host does | two fragments to a sector, one upgrade sector, up to 2 piled-up requests |
| `settled` | the content of the flash, GETSTATUS' prediction, refinement of `DfuProtocol` with its fairness; development versions: a number keeps its record, an undisturbed workflow keeps its binary under the number it reports | one factory, two upgrade, one data sector; every command, watchdog resets; two tags, three sources of one, two of which git does not tell apart, one variant, up to 2 tracked builds |
| `polling` | no request stays counted, a poll counts as early exactly within the announced timeout, the buffer holds what was acknowledged since the last whole sector, every command returns | as `settled`, host polls |
| `alternate`, `abortidle` | findings 1, 4 | as `settled` |
| `duplex` | a receiving and a sending lane with time-outs: wake-ups, fit, FIFO refinement, liveness | buffers of 3, frame count 2, totals that wrap at 6 |
| `calls` | two instances, a servicer on each tile, from boot on: accounting, routing, refinement of `ControlCalls`, liveness | five resources; the servicers' arrays in opposite orders |
| `link` | host to servicer and back over SPI, retries, the status buffer; the I2C and USB transports with commands given up | two servicers, binary port, reads of one byte and more; two resources, two transfers at a time |
| `earlystatus` | finding 2 | as `link` |
| `audio` | USB audio: notifications, resets, backlog; the adaptive rate's queue, restarts and ring; the pipelines: no loss in time, steady flow; the delay line | two chunks to a frame, packets of 0 to 2 units; 3 starts of frame to a transfer, one late; 2 buckets; 5 ticks to a frame, buffers of 11 and 6 ticks, two late ticks; a ring of 4 samples, frames of 3 |
| `pace`, `partialread` | findings 3, 5 | as `audio`, the sample paths only (`Parts`) |

Every passing property has a mutant in `PROJECT.json`: a plausible bug in one
definition under which that run finds the property violated.

Bounds, and why they are enough. Two fragments to a sector have a first, a last
and a boundary between them; two upgrade sectors have an inner and an outer
edge, next to a factory and a data sector, so that an address off by one lands
in another partition. `BlockModulus` 4 exceeds the sectors of every partition, so
the room check is met before the block number wraps. `ClockModulus` 12 is above
the longest timeout (10), as 2^32 ticks are, and every start of the timer is tried, so
that each timeout meets the wrap; `MaxElapsed` 14 exceeds the modulus. `MaxCounter` 2 is the first value at which
requests are stalled; the theorems have no such bound in their hypotheses beyond
the guard that names it. I2S buffers of 3 and a count that does not divide them reach every relation of index, wrap and amount; `CounterModulus` is
small enough to wrap within a few calls. Two instances and one servicer on
each tile are the least in which instances compete, both ways of answering are
used, and registrations meet; that they go through the instances in opposite orders
is the worst case for waits in a circle. The buffers of `audio` are the code's 2.2 and 1.2
frames, with 5 ticks to a frame; the queue depths are the code's own. USB: two
chunks are the least frame that a read can find half full, packets of none, the
nominal and twice the nominal size step over every level, `RxBufferSize` keeps its
relation to the largest packet, and stamps wrap after four. A ring of two buckets
goes round within a few transfers, and the clock of the window, as short as
`Horizon` lets it be, wraps at every relation to the ring; there is no bound on
the length of a measurement. The ring of the delay line is
shorter than two frames, so that delays wrap in both directions. Two numbers
before the counter starts again and two tracked builds reach the reuse of a
number and the takeover by a prefix; another variant is to the numbers what another
source is, and the theorems have any number of them.

Fairness. DFU: the servicer, the state machine and the watchdog each keep
making the steps they can (the two tasks are scheduled on cores of their own and
block only where they wait); the host need not send. I2S: weak fairness of the
I/O thread, the interrupt handler and each task that called. Device control:
weak fairness of every task, strong fairness of the two sends into a servicer's
queue, because FreeRTOS gives a free slot to a waiting sender of the highest
priority, and among equals to the longest waiting; nothing obliges a transport to
call. SPI: the host repeats an ignored transfer, so the accepted one happens
once it stays possible. USB audio: the reader's task and half-done callbacks
continue, and the speaker pipeline keeps asking, since its input is a loop; the
host need not send. Audio: the clock does not stop and tasks run.

## 4. Findings

Each is the counterexample of a run that states what the code's own comment,
header or assertion says; quotes are in `PROJECT.json`.

1. `alternate`: an aborted download leaves its window open; the next one is
   written there whatever its alternate setting.
2. `earlystatus`: a port that changes before the last servicer has registered
   meets the assertion on the length of the status buffer.
3. `pace`: after the host has closed the speaker, the packets of the microphone
   keep the size of the last packet received; the comment says nominal.
4. `abortidle`: ABORT in dfuIDLE goes to dfuERROR; the comment and the diagram
   over it say that it does nothing.
5. `partialread`: a notification from before a reset wakes the reader for a part of
   a frame, and its assertion stops the firmware.

Seen while modelling and reproduced with the same modules, but without a run of
their own:

* What an aborted download wrote still counts against the room of the next one.
* DFU, with a host that does not wait as the protocol asks (`Host = "any"`). An
  UPLOAD sent while another request is counted is dropped by a restart of the loop
  that does not give the semaphore (`dfu_state_machine.c:428`), and the servicer
  waits for ever. Two requests that meet in one bit leave the counter one too high
  for good, and the CLRSTATUS that should end dfuERROR is refused. A DNLOAD sent
  before the last GETSTATUS is served lands on the fragment before it (`:94`), and
  the sector is written with a hole as a full one. `settled` and `polling` have the
  hosts the protocol asks for.
* DFU, with a host that polls before the timeout it was told (`Host = "polling"`):
  GETSTATUS tells dfuERROR, and sets the flag for the state machine when that is past
  its test (`:210`): the machine does not go there.
* I2S: a call that follows a time-out and asks for more frames takes and returns
  frames that are not there (`rtos_i2s.c:283`; `FramesFit` with `FrameCounts` {1, 2}).
  The firmware's own calls do not time out, and the run has one frame count.
* SPI: a write returns 1, whatever the servicer answered, and so does a read of one
  byte: the transport overwrites the servicer's status
  (`device_control_spi.c:82`), which the host's comments and the header expect there
  (`device_access_spi_rpi.c:85` and `:127`, `device_control.h:174`). `AnswerIsOwn`
  states the responses as they are.
* USB audio: `NotificationsMatchFill` says that finding 5 needs a notification from
  before a reset, or one that goes back to such a one. A packet longer than nominal is dropped
  when `rx_buffer` is nearly full, where a nominal one still fits
  (`NominalPacketFits`).
* Adaptive rate: one start of frame of latency is the limit. A transfer handled
  two of them late restarts a steady measurement (`MaxLate` 2 in `audio`).
* Audio: a backlog from the start stays for good, and with it one late tick may
  lose samples, after which reference and microphones are shifted against each
  other for good; `NothingLostInTime` and `SteadyFlow` say what holds all the
  same. A delay of exactly the ring's size would be no delay
  (`DelayBufferAssumption`).
* `i2s_rx_rpc_host` allocates for the number of outputs what the client describes
  with the number of inputs (`rtos_i2s_rpc.c:127`); the firmware makes no such
  call.
* Transports: a write without payload has no data stage over USB, is never run,
  and returns the status of an earlier command; an I2C write cut short within
  its header leaves the request before in place, and the read of its status runs
  that one if it was a read (`device_control_i2c.c:50`). The properties name both
  exceptions.
* Versions: a tag that begins another one (v1.2.3, v1.2.30) takes over its numbers
  (`versioning.py:249`). When the counter starts again the number exists, and
  tracked builds of that base version stop. A build that differs only in what
  `git diff` leaves out (`:166`) gets the number of the one before, and its binary
  replaces that one's (`:446`). A variant that was compiled with the `version.h` of
  another one is kept in the folder of a number that it does not report (`:444`).

## 5. Proofs

Each invariant that a passing run checks is proved for every value of the
constants, and so is the safety part of each refinement. The assumptions are the `ASSUME`s
of the modules, which the runs evaluate, and the hypotheses stated in a theorem,
which the configurations of the runs satisfy.

`DfuStateMachine_proofs` proves `TypeCorrect` and seven invariants for every flash
layout, sector size and number of requests, whatever the host does, under
`DfuAssumption` and `LayoutAssumption`:

* `BusyCorrect`, `FaultCorrect`, `SessionCorrect` from the inductive `StateInv`:
  the properties are not inductive alone, since the step that ends a sync has to
  know which state started it (`WorkMatchesState`);
* `FactoryCorrect`, `WindowedCorrect` from `WindowInv`: an open window is a
  partition, the block number never exceeds the total written through the
  window, and the total never exceeds the window. The address comes from the
  block number and the room from the total; this relation is what ties them;
* `OneBitCorrect` from `SignalInv`: the counter is at least the number of
  distinct bits set or about to be set, so a counter of 1 means one bit;
* `UploadCorrect` from `UploadInv`: a semaphore that is given has a servicer in
  UPLOAD and no request in flight.

`DfuRefinement_proofs` is about a host that waits for a request to be served before
it sends the next, as the protocol asks: `Waits` allows polls meanwhile, and
`Host = "settled"` allows none. (Section 4 says what other hosts meet.) From
`WaitingInv`:

* `CountedCorrect`, since `ExchangeInv` knows every unit of the counter and every
  bit as those of the one request under way, from the servicer's first access to
  the state machine's return to its wait;
* `WholeCorrect`: `BufferInv` says that the slots up to `fragNumber` are filled, and
  the one being announced too, and that they stay so until the sector is
  programmed;
* `RestCorrect`: `CleanInv` says that no other slot is filled, because every write
  and every reset empties the buffer, and that the slot in hand is filled only from
  its announcement to its programming. So between two blocks the buffer is exactly
  the rest that the end of the download drops, which is less than a sector;
* `PollCorrect`: the comparison modulo the timer's width agrees with the time gone by
  wherever the timer stood (`EarlyByElapsedTime`), because every timeout is shorter
  than a turn of it; `TimeoutInv` carries the timeout 0 from the poll that begins a
  manifestation to the polls during it.

`PredictionCorrect` and `ProtocolImplemented` need `Host = "settled"`. The first
follows what was told to the host through the state machine's switch
(`PredictionInv`); the second maps every step of the two tasks to `Submit`, to
`Serve`, to `AbortRefused` or to no step of `DfuProtocol`: the diagrams hold but for
that one exception, by name. It is the safety part of
`ImplementsProtocol`; the fairness of `Serve` is left to the run.

`I2s_proofs` proves, under `I2sAssumption`, `WakeCorrect` (a blocked call is
waited for in exactly one place: its request, the byte, or the semaphore) and,
when calls that may time out agree on a frame count, `FitCorrect` (a call moves
frames only when all are there, across the wrap of the totals). The totals are
related to the fill level by `LaneInv`, modulo `CounterModulus`.

Under the same condition, which the firmware's calls satisfy because they wait for
ever, `FifoImplemented` proves that every lane implements `FrameFifo`. `FifoInv` adds
where the indices are: the task's index is behind the frames that its total
accounts for by as many as the call in hand has copied (`IndexOK`), and what those
slots hold are the frames that the next `Publish` puts or takes (`ContentOK`). The
thread's index, which moves with its total, gives the slot of the first frame. So
a frame that is copied in lands in none of the slots that the thread may read, and
each `Publish` and `Move` is one `Put`, `Take` or `Lose`; all else is invisible.

`DeviceControl_proofs` proves all four safety properties of the run `calls`, for
any number of instances and of servicers on either tile, under
`ControlAssumption`: `TypeCorrect`, `BootCorrect`, `RoutedCorrect`,
`AccountedCorrect`. None is inductive alone; `ControlInv` adds

* `TileInv`: what is in `gateway_queue` comes from servicers on the gateway's
  tile, what is in the channel from the others. It rests on `ServedInv`: a
  command says which way its answer goes, and says so rightly;
* `TableInv`: an index of the resource table leads to the entry of the owner, and
  the entry to its tile;
* `RegInv`: a servicer is yet to register, announced, or in the table, and in it
  once. A full table then holds everybody (pigeonhole, `FullTable`), so no
  registration is left over when answers begin to arrive;
* `RouteInv`: a command in transit, served or answered is its gateway's, for the
  servicer its entry names, and in one place of five.

`CallsImplemented` proves `ImplementsCalls` from these and two more facts: a resource
is found exactly if a servicer owns it (`FoundInv`), and a result is there only with
the command it answers (`ResultInv`). `CallFacts` gives each instance at most one
result, in the servicer's hands or on its way back; it is the phase, the servicer
and the status that `ControlCalls` sees. `Execute` makes it, `TakeAnswer` ends it,
and no hop of a command or an answer in between changes it.

`Transports_proofs` goes on from there to the hosts. For the SPI link,
`SpiExecutesOnce` and `SpiAnswerIsOwn` follow from `LinkInv`: while the host fetches
an answer the transport is with that very command, before, in or after its call,
and afterwards what it handles is the fetching transfer alone. `SpiAnswerIsOwn` gives
every response: the servicer's to a longer read, the transport's byte to the others. `StatusFollows` holds
for ports that do not change before the instance is ready (`~EarlyChanges`, without
which finding 2 stops the firmware): whatever the handler has in hand is current
unless a notification is still to come (`PortInv`). For I2C and USB,
`TransportsRunWhatWasAsked` and `TransportsReturnOwnAnswer` follow from `TransportInv`:
transfers of a command given up are all before those of the next one
(`PendingInv`), so a request that the device holds when the host's own transfer is
handled was made by that command or by none (`ProgramInv`, `RunInv`).

`UsbAudio_proofs` proves `NotificationsCorrect`, `OldAudioCorrect` and
`NominalPacketFits` for every frame length, nominal size and set of packet sizes,
under `UsbAudioAssumption`. `NotificationsMatchFill` is an equation between the
pending notifications, the surplus ones and the fill level: a packet raises the
level by one chunk, so it meets the level compared with exactly when the
backlog passes a frame, and the buffer, two frames long, can do so only once
between two reads. A notification that is decided on counts from the test, so a read
before the give changes both sides alike. `OldAudioIsOneFrame` rests on the buffer being empty of old
samples while an old write is under way. `RoomForNominal` is inductive with the
types: whatever is accepted, a nominal chunk is taken out again.

The same module proves three properties of `AdaptiveRate`, for any number of starts of
frame to a transfer and any width of the timestamps. They assume `Prompt`: the
task handles a transfer before the next one in its direction is due, which is a
millisecond for a task of the highest priority. `QueueHasRoom`: each direction has one
entry in the queue at most, which was put there as long ago as its transfer was
(`QueueInv`). `SteadyStreamKept` assumes at most one start of frame of latency, the
limit that Section 4 names: `SteadyInv` keeps the count of quiet starts of frame below
those since the last transfer. `TimeAlwaysAdvances` assumes that the timestamps take
more than two values (they take 2^32): the last transfer handled is one or two
milliseconds back, never a full turn (`TimeInv`).

For `RateWindow` the module proves `RateCorrect`, for any number and length of
buckets, width of the clock and sequence of transfers and resets, under
`RateWindowAssumption`: the clock does not come round while the ring is filled,
which in the code is 16 seconds against 43. Each stored bucket, and the one being
filled, is the stretch between two transfers of the history (`Cuts`), one starting
where the next older one ends, and the sums of the ring reach from the oldest cut
to the last one (`WindowInv`). Replacing the oldest bucket moves that end to the next
cut, whose distance follows from the age of each bucket (`BucketOK`). The sum is a
recursive function. The library's induction theorems cannot be cited, since they
take an operator; that `<` is well founded on the naturals can. It gives every set
of naturals a least element (`LeastNatural`), from which follow that the function of
`sum_array` exists (`AccumulatorExists`) and what a store changes in it (`SumChanges`).

`Audio_proofs` proves `FlowTypeCorrect`, and `FlowInTime` for every length of a frame,
sizes of buffers and depths of queues under `AudioFlowAssumption` and
`BufferAssumption`; the latter says that a frame fits each buffer, that the input
holds no more than an output and the microphones' driver together, and that the
stages have room for the backlog, as the code's 2.2, 1.2 and 2 frames do. The invariant
`InTime` holds while no task was late. It bounds three amounts, each counted in ticks
over everything that can hold a part of it:

* what is on its way to the DAC never exceeds the receive buffer (`ToSpeaker`): a tick
  adds to it only when the DAC's buffer is empty, and then no task waits for that
  buffer, so little is under way (`RoomForInput`). Hence no input is lost;
* the references on their way to the microphone pipeline and the microphones' samples
  that wait for them differ by a bounded amount (`PairInv`), which the flush
  establishes: it goes on without a tick until nothing is left. So when frames pile
  up it is the DAC's buffer that is full, and that leaves a place for the next frame
  (`BacklogAtRest`);
* what waits on the microphones' way, with the ticks for which the output will have
  nothing, is at most that backlog and the longest work (`WayInv`). So the stages always
  have room (`NeverPushing`), and the pipelines do not stop each other.

Each task keeps the amounts, and a tick finds the guards of all tasks false, which
`NothingToSend`, `NeverPushing`, `RoomForInput` and `BacklogAtRest` turn into the
bounds.

The module also proves `DelayCorrect` for every ring, frame and set of
delays shorter than the ring, under `DelayBufferAssumption`. The invariant gives
each cell its content by its distance behind the write index: within the samples
since the last change it is the held stream at that age; beyond them, as far as
the delay reaches, it is silence, which is what `Cleared` has to provide in both of
its cases.

`Versioning_proofs` proves `VersionKept` and `OwnBinaryTracked` for all tags, prefixes,
variants and resets of the counter, whatever git tells of the sources. `VersionKept`
is about the records; the binary beside one can be replaced (Section 4). `VersioningInv` says what a workflow that nothing
disturbed has arrived at: the header holds the number that the build is tracked
under. The key is `NumberStays`: looking up a build that was just tracked gives the
same number, so the second look-up of an installation agrees with the first.

What TLAPS does not reach, and TLC alone checks:

* liveness and fairness: `CommandsReturn`, `EveryoneRegisters`, both `CallsReturn`,
  `HostCallsReturn`, `BacklogDrains`, `SteadyFlow`, and the fairness in
  `ImplementsProtocol`. That late ticks shift the flow but never stop it is part of
  `SteadyFlow`, and stays with it;
* that the property of each finding is violated: the runs' counterexamples.

Type correctness is part of the invariants above.

## 6. What is left

Worth adding: two late starts of frame as a finding, if a document ever states a
limit; runs of their own for the violations that Section 4 lists without one; the
receive direction of the remote I2S calls, if the firmware ever uses it.

Not modelled, and why:

* `usb_dfu.c`: the protocol's state is in the USB library outside the repository;
  what it hands to the flash side is `DfuCommon`'s operations.
* `usb_cdc.c`, the USB descriptors, the class requests of USB audio: tables, text
  and settings that nothing else reads.
* the LED strip, the microphone array's glue, board support, codecs: conversions
  and boot sequences of register writes, without state between calls or a
  decision.
* the watchdog but for its resets (`WatchdogReset`): a counter of the hardware fed
  by one loop.
* the signal processing: numeric code of libraries outside the repository. The
  pipelines without reference or with ADEC have the shape of the one modelled;
  `adec_alt_arch` is in no build.
* `fractions_1000ppm.h` and the other generated tables, vendored libusb, build
  files and workflows.
