--------------------------------- MODULE I2s ---------------------------------
(***************************************************************************)
(* The RTOS I2S driver: rtos_i2s.c.                                        *)
(*                                                                         *)
(* Each direction ("lane") is a ring buffer between one task and the I2S   *)
(* I/O thread, which runs on a core of its own at the sample clock and can *)
(* neither wait nor be made to wait.  The two sides share free-running     *)
(* totals and no lock.  A task that finds too little to do leaves the      *)
(* amount it needs in the buffer, and the thread sends a byte to the       *)
(* interrupt handler of the task's core once there is as much, which gives *)
(* the lane's semaphore.                                                   *)
(*                                                                         *)
(* Unit: one frame on every lane.  The sample filters are not installed.   *)
(***************************************************************************)
EXTENDS Integers, Sequences

CONSTANTS
  Lanes,            \* the directions in use: "recv", "send", "send_1"
  RecvBufSize, SendBufSize,   \* recv_buffer_size, send_buffer_size
  FrameCounts,      \* the frame counts that tasks ask for
  CounterModulus,   \* 2^32 in the code, in words: total_written, total_read
  MayTimeOut,       \* FALSE: every call waits for ever, as the firmware's do
  ValueModulus      \* bound: frames are numbered modulo this

ASSUME I2sAssumption ==
  /\ Lanes \in {{"recv"}, {"send"}, {"recv", "send"}, {"recv", "send_1"},
                {"send", "send_1"}, {"recv", "send", "send_1"}}
  /\ RecvBufSize \in Nat \ {0} /\ SendBufSize \in Nat \ {0}
  /\ FrameCounts \subseteq Nat \ {0}
  /\ \A n \in FrameCounts : n <= RecvBufSize /\ n <= SendBufSize
  /\ CounterModulus \in Nat
  /\ CounterModulus > RecvBufSize /\ CounterModulus > SendBufSize
  /\ MayTimeOut \in BOOLEAN
  /\ ValueModulus \in Nat \ {0}

VARIABLES
  buf,                      \* buf: the numbers of the frames in the slots
  taskIndex, driverIndex,   \* write_index, read_index of a send buffer;
                            \* read_index, write_index of the receive buffer
  taskTotal, driverTotal,   \* total_written, total_read of a send buffer;
                            \* total_read, total_written of the receive buffer
  required,                 \* required_free_count, required_available_count
  blocked,                  \* send_blocked, send_1_blocked, recv_blocked
  sem,                      \* send_sem, send_1_sem, recv_sem: given or not
  isrCmd,                   \* isr_cmd: the lanes to wake
  isrBytes,                 \* the lanes named by the bytes in c_i2s_isr
  pc, count, remaining,     \* the task: frame_count, words_remaining
  got,                      \* the frames copied out by rtos_i2s_rx so far
  turn, step,               \* the I/O thread: place in the order of lanes
  next,                     \* the number of the next frame to be accepted
  lost,                     \* the frames lost on the way in, modulo 2
  delivered                 \* the frames the consumer got last

ringVars == <<buf, taskIndex, driverIndex, taskTotal, driverTotal>>
wakeVars == <<required, blocked, sem, isrCmd, isrBytes>>
taskVars == <<pc, count, remaining, got>>
threadVars == <<turn, step>>
dataVars == <<next, lost, delivered>>
vars == <<ringVars, wakeVars, taskVars, threadVars, dataVars>>

BufSize(l) == IF l = "recv" THEN RecvBufSize ELSE SendBufSize

\* tx_1 wraps its index at the size of the other send buffer
WrapSize(l) == IF l = "send_1" THEN BufSize("send") ELSE BufSize(l)

\* i2s_receive comes before i2s_send, which serves its two buffers in order
LaneOrder == SelectSeq(<<"recv", "send", "send_1">>, LAMBDA l : l \in Lanes)

Available(l) ==
  IF l = "recv" THEN (driverTotal[l] - taskTotal[l]) % CounterModulus
  ELSE (taskTotal[l] - driverTotal[l]) % CounterModulus

Free(l) == BufSize(l) - Available(l)

\* What the task's side waits for: frames to read, or room to write
Ready(l) == IF l = "recv" THEN Available(l) ELSE Free(l)

TypeOK ==
  /\ \A l \in Lanes : buf[l] \in [0 .. BufSize(l) - 1 -> 0 .. ValueModulus - 1]
  /\ \A l \in Lanes : taskIndex[l] \in 0 .. BufSize(l) - 1
                   /\ driverIndex[l] \in 0 .. BufSize(l) - 1
  /\ taskTotal \in [Lanes -> 0 .. CounterModulus - 1]
  /\ driverTotal \in [Lanes -> 0 .. CounterModulus - 1]
  /\ required \in [Lanes -> FrameCounts \cup {0}]
  /\ blocked \in [Lanes -> BOOLEAN]
  /\ sem \in [Lanes -> {0, 1}]
  /\ isrCmd \subseteq Lanes /\ isrBytes \subseteq Lanes
  /\ pc \in [Lanes -> {"idle", "block", "wait", "copy", "publish"}]
  /\ count \in [Lanes -> FrameCounts \cup {0}]
  /\ \A l \in Lanes : remaining[l] \in 0 .. count[l]
  /\ \A l \in Lanes : got[l] \in Seq(0 .. ValueModulus - 1)
  /\ turn \in 1 .. Len(LaneOrder) + 1 /\ step \in {"move", "signal"}
  /\ next \in [Lanes -> 0 .. ValueModulus - 1] /\ lost \in [Lanes -> {0, 1}]
  /\ \A l \in Lanes : delivered[l] \in Seq(0 .. ValueModulus - 1)

\* rtos_i2s_start
Init ==
  /\ buf = [l \in Lanes |-> [i \in 0 .. BufSize(l) - 1 |-> 0]]
  /\ taskIndex = [l \in Lanes |-> 0] /\ driverIndex = [l \in Lanes |-> 0]
  /\ taskTotal = [l \in Lanes |-> 0] /\ driverTotal = [l \in Lanes |-> 0]
  /\ required = [l \in Lanes |-> 0]
  /\ blocked = [l \in Lanes |-> FALSE]
  /\ sem = [l \in Lanes |-> 0]
  /\ isrCmd = {} /\ isrBytes = {}
  /\ pc = [l \in Lanes |-> "idle"]
  /\ count = [l \in Lanes |-> 0] /\ remaining = [l \in Lanes |-> 0]
  /\ got = [l \in Lanes |-> <<>>]
  /\ turn = 1 /\ step = "move"
  /\ next = [l \in Lanes |-> 0] /\ lost = [l \in Lanes |-> 0]
  /\ delivered = [l \in Lanes |-> <<>>]

-----------------------------------------------------------------------------
(***************************************************************************)
(* The task: i2s_local_rx, i2s_local_tx, i2s_local_tx_1                    *)
(***************************************************************************)
\* words_remaining > words_free, words_remaining > words_available
TooFewByOne(l, n) == n > Ready(l) + 1
TooFew(l, n) == n > Ready(l)

\* A call whose predecessor timed out is blocked already and does not look.
Call(l) ==
  /\ pc[l] = "idle"
  /\ \E n \in FrameCounts :
       /\ count' = [count EXCEPT ![l] = n]
       /\ remaining' = [remaining EXCEPT ![l] = n]
       /\ pc' = [pc EXCEPT ![l] = IF blocked[l] THEN "wait"
                                  ELSE IF TooFew(l, n) THEN "block" ELSE "copy"]
  /\ UNCHANGED <<ringVars, wakeVars, got, threadVars, dataVars>>

Block(l) ==
  /\ pc[l] = "block"
  /\ required' = [required EXCEPT ![l] = count[l]]
  /\ blocked' = [blocked EXCEPT ![l] = TRUE]
  /\ pc' = [pc EXCEPT ![l] = "wait"]
  /\ UNCHANGED <<ringVars, sem, isrCmd, isrBytes, count, remaining, got,
                 threadVars, dataVars>>

TakeSemaphore(l) ==
  /\ pc[l] = "wait" /\ sem[l] = 1
  /\ sem' = [sem EXCEPT ![l] = 0]
  /\ blocked' = [blocked EXCEPT ![l] = FALSE]
  /\ pc' = [pc EXCEPT ![l] = "copy"]
  /\ UNCHANGED <<ringVars, required, isrCmd, isrBytes, count, remaining, got,
                 threadVars, dataVars>>

\* The semaphore did not come in time: no frame is moved and the lane stays
\* blocked, the amount it waits for left as it is.
TimeOut(l) ==
  /\ MayTimeOut
  /\ pc[l] = "wait" /\ sem[l] = 0
  /\ pc' = [pc EXCEPT ![l] = "idle"]
  /\ count' = [count EXCEPT ![l] = 0] /\ remaining' = [remaining EXCEPT ![l] = 0]
  /\ UNCHANGED <<ringVars, wakeVars, got, threadVars, dataVars>>

WrappedLate(l, i) == IF i > WrapSize(l) THEN 0 ELSE i
Wrapped(l, i) == IF i >= WrapSize(l) THEN 0 ELSE i

\* One frame of memcpy; a chunk ends where the index wraps.
CopyFrame(l) ==
  /\ pc[l] = "copy"
  /\ IF l = "recv"
     THEN got' = [got EXCEPT ![l] = Append(@, buf[l][taskIndex[l]])] /\ UNCHANGED buf
     ELSE buf' = [buf EXCEPT ![l][taskIndex[l]] =
                    (next[l] + count[l] - remaining[l]) % ValueModulus]
          /\ UNCHANGED got
  /\ taskIndex' = [taskIndex EXCEPT ![l] = Wrapped(l, @ + 1)]
  /\ remaining' = [remaining EXCEPT ![l] = @ - 1]
  /\ pc' = [pc EXCEPT ![l] = IF remaining[l] = 1 THEN "publish" ELSE "copy"]
  /\ UNCHANGED <<driverIndex, taskTotal, driverTotal, wakeVars, count,
                 threadVars, dataVars>>

Publish(l) ==
  /\ pc[l] = "publish"
  /\ taskTotal' = [taskTotal EXCEPT ![l] = (@ + count[l]) % CounterModulus]
  /\ IF l = "recv"
     THEN delivered' = [delivered EXCEPT ![l] = got[l]] /\ UNCHANGED next
     ELSE next' = [next EXCEPT ![l] = (@ + count[l]) % ValueModulus]
          /\ UNCHANGED delivered
  /\ got' = [got EXCEPT ![l] = <<>>]
  /\ count' = [count EXCEPT ![l] = 0]
  /\ pc' = [pc EXCEPT ![l] = "idle"]
  /\ UNCHANGED <<buf, taskIndex, driverIndex, driverTotal, wakeVars, remaining,
                 threadVars, lost>>

-----------------------------------------------------------------------------
(***************************************************************************)
(* The I2S I/O thread calls i2s_receive, then i2s_send, once per frame.    *)
(***************************************************************************)
\* Moves one frame if there is one, or room for one; otherwise a frame is
\* lost on the way in, and none goes out.
MoveIn(l) ==
  IF Free(l) >= 1
  THEN /\ buf' = [buf EXCEPT ![l][driverIndex[l]] = next[l]]
       /\ next' = [next EXCEPT ![l] = (@ + 1) % ValueModulus]
       /\ UNCHANGED <<lost, delivered>>
  ELSE /\ lost' = [lost EXCEPT ![l] = 1 - @]
       /\ UNCHANGED <<buf, next, delivered>>

MoveOut(l) ==
  /\ delivered' = IF Available(l) >= 1
                  THEN [delivered EXCEPT ![l] = <<buf[l][driverIndex[l]]>>]
                  ELSE delivered
  /\ UNCHANGED <<buf, next, lost>>

Moves(l) == IF l = "recv" THEN Free(l) >= 1 ELSE Available(l) >= 1

Move(l) ==
  /\ turn \in DOMAIN LaneOrder /\ l = LaneOrder[turn] /\ step = "move"
  /\ IF l = "recv" THEN MoveIn(l) ELSE MoveOut(l)
  /\ IF Moves(l)
     THEN /\ driverIndex' = [driverIndex EXCEPT ![l] =
                               IF @ + 1 >= BufSize(l) THEN 0 ELSE @ + 1]
          /\ driverTotal' = [driverTotal EXCEPT ![l] = (@ + 1) % CounterModulus]
     ELSE UNCHANGED <<driverIndex, driverTotal>>
  /\ step' = "signal"
  /\ UNCHANGED <<taskIndex, taskTotal, wakeVars, taskVars, turn>>

\* The requirement is looked at on every frame, moved or not.
Satisfied(l) == Ready(l) >= required[l]

RequirementKept(l) == required
RequirementCleared(l) == [required EXCEPT ![l] = 0]

SignalAlone(l) ==
  /\ turn \in DOMAIN LaneOrder /\ l = LaneOrder[turn] /\ step = "signal"
  /\ IF required[l] > 0 /\ Satisfied(l)
     THEN required' = RequirementCleared(l) /\ isrCmd' = {l}
     ELSE UNCHANGED <<required, isrCmd>>
  /\ turn' = turn + 1 /\ step' = "move"
  /\ UNCHANGED <<ringVars, blocked, sem, isrBytes, taskVars, dataVars>>

Signal(l) ==
  /\ turn \in DOMAIN LaneOrder /\ l = LaneOrder[turn] /\ step = "signal"
  /\ IF required[l] > 0 /\ Satisfied(l)
     THEN required' = RequirementCleared(l) /\ isrCmd' = isrCmd \cup {l}
     ELSE UNCHANGED <<required, isrCmd>>
  /\ turn' = turn + 1 /\ step' = "move"
  /\ UNCHANGED <<ringVars, blocked, sem, isrBytes, taskVars, dataVars>>

\* The last callback of a frame sends isr_cmd to the interrupt handler.
Flush ==
  /\ turn = Len(LaneOrder) + 1
  /\ isrBytes' = isrBytes \cup isrCmd
  /\ isrCmd' = {}
  /\ turn' = 1
  /\ UNCHANGED <<ringVars, required, blocked, sem, taskVars, step, dataVars>>

\* rtos_i2s_isr, for one bit of the byte it read
Isr(l) ==
  /\ l \in isrBytes
  /\ isrBytes' = isrBytes \ {l}
  /\ sem' = [sem EXCEPT ![l] = 1]
  /\ UNCHANGED <<ringVars, required, blocked, isrCmd, taskVars, threadVars, dataVars>>

Task(l) == Block(l) \/ TakeSemaphore(l) \/ CopyFrame(l) \/ Publish(l)
Thread == Flush \/ \E l \in Lanes : Move(l) \/ Signal(l)

Next == Thread \/ \E l \in Lanes : Call(l) \/ TimeOut(l) \/ Task(l) \/ Isr(l)

\* The sample clock drives the thread, interrupts are taken, and a task that
\* is not waiting runs; nothing obliges a task to call.
Fairness ==
  WF_vars(Thread) /\ \A l \in Lanes : WF_vars(Task(l)) /\ WF_vars(Isr(l))

Spec == Init /\ [][Next]_vars
FairSpec == Spec /\ Fairness

-----------------------------------------------------------------------------
\* The frames between the consumer's index and the producer's, which stay
\* where they are until the consumer's total says that they were taken.
Queue(l) ==
  LET n == Available(l)
      first == IF l = "recv" THEN (driverIndex[l] - n) % BufSize(l) ELSE driverIndex[l]
  IN  [i \in 1 .. n |-> buf[l][(first + i - 1) % BufSize(l)]]

Fifo(l) ==
  INSTANCE FrameFifo WITH
    Capacity <- BufSize(l), Lossy <- (l = "recv"),
    PutCounts <- IF l = "recv" THEN {1} ELSE FrameCounts,
    TakeCounts <- IF l = "recv" THEN FrameCounts ELSE {1},
    queue <- Queue(l), next <- next[l], lost <- lost[l], delivered <- delivered[l]

\* Every lane is a bounded FIFO: the two sides, who share no lock, never
\* overwrite, skip or repeat a frame, and a frame is lost only when it comes in
\* while the buffer is full.
\* (This is the conjunction of Fifo(l)!Spec over the lanes, in TLC's reach.)
ImplementsFifo ==
  /\ \A l \in Lanes : Fifo(l)!Init
  /\ [][\A l \in Lanes : [Fifo(l)!Next]_(Fifo(l)!vars)]_vars

\* A call moves frames only when all of them are there, or fit.
FramesFit ==
  \A l \in Lanes : pc[l] \in {"copy", "publish"} => count[l] <= Ready(l)

\* What a call that waits for a limited time asks of its caller: the next call
\* on the lane takes up its wait, and has to ask for as many frames.
CallersAgree == ~MayTimeOut \/ \A m, n \in FrameCounts : m = n

\* A blocked lane is waited for in exactly one place, on its way from the
\* amount left in the buffer to the semaphore, and another one in none: no
\* wake-up is lost, and none is left over for a later call.
WakeUps(l) ==
  (IF required[l] > 0 THEN 1 ELSE 0) + (IF l \in isrCmd THEN 1 ELSE 0)
    + (IF l \in isrBytes THEN 1 ELSE 0) + sem[l]

WakeAccountedFor ==
  \A l \in Lanes : WakeUps(l) = IF blocked[l] THEN 1 ELSE 0

\* Every call returns, although the thread never looks at who waits for it.
CallsReturn == \A l \in Lanes : pc[l] # "idle" ~> pc[l] = "idle"
=============================================================================
