---------------------------- MODULE AdaptiveRate ----------------------------
(***************************************************************************)
(* The adaptive sample rate of the USB audio builds:                       *)
(* adaptive_rate_adjust.c, with the flags of adaptive_rate_callback.c.     *)
(*                                                                         *)
(* The USB interrupt reports the transfers of an open audio endpoint, and  *)
(* every start of frame (SOF), of which there are SofsPerMs to a transfer. *)
(* Transfers go through a queue to the task of highest priority, which     *)
(* measures the rate of the stream and sets the PLL with it.  SOFs give    *)
(* the time, and restart a measurement when no transfer was seen for too   *)
(* long.  The measurement itself is RateWindow; what is kept of it here is *)
(* whether it restarts.                                                    *)
(***************************************************************************)
EXTENDS Integers, Sequences

CONSTANTS
  SofsPerMs,        \* 8, in tud_xcore_sof_cb and in sof_toggle
  MaxLate,          \* SOFs that a transfer can wait for the task
  StampModulus      \* 2^32: timestamps wrap; here they count milliseconds

ASSUME AdaptiveRateAssumption ==
  /\ SofsPerMs \in Nat \ {0} /\ MaxLate \in Nat
  /\ StampModulus \in Nat \ {0, 1}

Directions == {"OUT", "IN"}

VARIABLES
  sofs,             \* count, in tud_xcore_sof_cb
  stamp,            \* timestamp_from_sofs
  queue,            \* data_event_queue: transfers, and how long they wait
  queueFailed,      \* the assertion behind xQueueSendFromISR has failed
  dataSeen,         \* data_seen
  sofCount,         \* sof_count, which stands still once it is too high
  firstTime,        \* first_time
  spkrFlag, micFlag,  \* spkr_interface_open, mic_interface_open
  pll,              \* what the PLL was set with: a direction's rate, or nominal
  \* Histories: SOFs since a transfer was queued, whether that one came when
  \* it was due, and the time of the last one that the task handled
  quiet, steady, handled

rateVars == <<sofs, stamp, queue, queueFailed, dataSeen, sofCount, firstTime,
              spkrFlag, micFlag, pll, quiet, steady, handled>>

AdaptiveRateInit ==
  /\ sofs = 0 /\ stamp = 0
  /\ queue = <<>> /\ queueFailed = FALSE
  /\ dataSeen = [d \in Directions |-> FALSE]
  /\ sofCount = [d \in Directions |-> 0]
  /\ firstTime = [d \in Directions |-> TRUE]
  /\ spkrFlag = FALSE /\ micFlag = FALSE
  /\ pll = "nominal"
  /\ quiet = [d \in Directions |-> SofsPerMs]
  /\ steady = [d \in Directions |-> FALSE]
  /\ handled = [d \in Directions |-> 0]

-----------------------------------------------------------------------------
QueueOfOne == 1
QueueSize == 2      \* DATA_EVENT_QUEUE_SIZE

\* Only a direction with an open interface behind it is reported; with the
\* speaker open it is the one that sets the PLL.
Reported(d) == spkrFlag \/ (micFlag /\ d = "IN")
Calculates(d) == d = (IF spkrFlag THEN "OUT" ELSE "IN")

\* tud_xcore_data_cb.  A steady stream has a transfer every SofsPerMs SOFs; a
\* host that paused may start again at any SOF after that.
Transfer(d) ==
  /\ Reported(d)
  /\ quiet[d] >= SofsPerMs
  /\ IF Len(queue) < QueueSize
     THEN /\ queue' = Append(queue, [dir |-> d, time |-> stamp,
                                     calc |-> Calculates(d), late |-> 0])
          /\ UNCHANGED queueFailed
     ELSE queueFailed' = TRUE /\ UNCHANGED queue
  /\ quiet' = [quiet EXCEPT ![d] = 0]
  /\ steady' = [steady EXCEPT ![d] = (quiet[d] = SofsPerMs)]
  /\ UNCHANGED <<sofs, stamp, dataSeen, sofCount, firstTime, spkrFlag, micFlag,
                 pll, handled>>

TooQuietAtEight(count) == count >= SofsPerMs
TooQuiet(count) == count > SofsPerMs

\* count, at which tud_xcore_sof_cb takes the time
StampAfterOneMore == SofsPerMs + 1
StampAfter == SofsPerMs

\* tud_xcore_sof_cb with sof_toggle
StartOfFrame ==
  /\ \A i \in 1 .. Len(queue) : queue[i].late < MaxLate
  /\ sofs' = (sofs + 1) % StampAfter
  /\ stamp' = IF sofs' = 0 THEN (stamp + 1) % StampModulus ELSE stamp
  /\ dataSeen' = [d \in Directions |-> FALSE]
  /\ sofCount' = [d \in Directions |->
                    IF dataSeen[d] THEN 0
                    ELSE IF TooQuiet(sofCount[d]) THEN sofCount[d]
                    ELSE sofCount[d] + 1]
  /\ firstTime' = [d \in Directions |->
                     firstTime[d] \/ (~dataSeen[d] /\ TooQuiet(sofCount'[d]))]
  /\ queue' = [i \in 1 .. Len(queue) |-> [queue[i] EXCEPT !.late = @ + 1]]
  /\ quiet' = [d \in Directions |->
                 IF quiet[d] > SofsPerMs + MaxLate + 1 THEN quiet[d]
                 ELSE quiet[d] + 1]
  /\ UNCHANGED <<queueFailed, spkrFlag, micFlag, pll, steady, handled>>

\* usb_adaptive_clk_manager: the first transfer of a measurement has no rate
\* yet, and counts as nominal
TaskHandles ==
  /\ queue # <<>>
  /\ LET p == Head(queue)
     IN /\ dataSeen' = [dataSeen EXCEPT ![p.dir] = TRUE]
        /\ firstTime' = [firstTime EXCEPT ![p.dir] = FALSE]
        /\ pll' = IF ~p.calc THEN pll
                  ELSE IF firstTime[p.dir] THEN "nominal" ELSE p.dir
        /\ handled' = [handled EXCEPT ![p.dir] = p.time]
  /\ queue' = Tail(queue)
  /\ UNCHANGED <<sofs, stamp, queueFailed, sofCount, spkrFlag, micFlag, quiet,
                 steady>>

\* The USB task opens and closes the interfaces, see UsbAudio
InterfacesChange ==
  /\ spkrFlag' \in BOOLEAN /\ micFlag' \in BOOLEAN
  /\ UNCHANGED <<sofs, stamp, queue, queueFailed, dataSeen, sofCount, firstTime,
                 pll, quiet, steady, handled>>

AdaptiveRateNext ==
  /\ ~queueFailed
  /\ \/ \E d \in Directions : Transfer(d)
     \/ StartOfFrame
     \/ TaskHandles
     \/ InterfacesChange

AdaptiveRateSpec == AdaptiveRateInit /\ [][AdaptiveRateNext]_rateVars

-----------------------------------------------------------------------------
\* The queue of two always has room, so that the assertion behind
\* xQueueSendFromISR in tud_xcore_data_cb never fails.
TransfersFit == ~queueFailed

\* A steady stream is measured without a break: sof_toggle restarts the
\* measurement of a direction only after a pause of the host, never because
\* the task took a transfer from the queue a start of frame late.
SteadyStreamMeasured ==
  [][\A d \in Directions :
       firstTime'[d] /\ ~firstTime[d] => quiet[d] >= SofsPerMs \/ ~steady[d]]_rateVars

\* A measurement that goes on never spans no time at all: the time of a
\* transfer, which counts starts of frame, is another than that of the one
\* before, and determine_USB_audio_rate does not divide by zero.
TimeAdvances ==
  \A i \in 1 .. Len(queue) :
    ~firstTime[queue[i].dir] => queue[i].time # handled[queue[i].dir]
=============================================================================
