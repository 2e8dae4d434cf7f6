------------------------------ MODULE FrameFifo ------------------------------
(***************************************************************************)
(* What one direction of the I2S driver promises: a bounded first-in       *)
(* first-out queue of sample frames, that never drops or repeats a frame   *)
(* it accepted.  A sample clock cannot wait, so that the receive direction *)
(* may lose an incoming frame, and only when the queue is full.            *)
(***************************************************************************)
EXTENDS Integers, Sequences

CONSTANTS
  Capacity,         \* frames the queue can hold
  PutCounts,        \* frames one Put appends
  TakeCounts,       \* frames one Take removes
  Lossy,            \* the producer may lose a frame when the queue is full
  ValueModulus      \* frames are numbered modulo this bound

VARIABLES
  queue,            \* the numbers of the frames accepted and not yet taken
  next,             \* the number of the next frame to be accepted
  lost,             \* the frames lost, modulo 2
  delivered         \* the frames of the last Take

vars == <<queue, next, lost, delivered>>

Frames(n) == [i \in 1 .. n |-> (next + i - 1) % ValueModulus]

Init == queue = <<>> /\ next = 0 /\ lost = 0 /\ delivered = <<>>

Put(n) ==
  /\ Len(queue) + n <= Capacity
  /\ queue' = queue \o Frames(n)
  /\ next' = (next + n) % ValueModulus
  /\ UNCHANGED <<lost, delivered>>

Lose ==
  /\ Lossy /\ Len(queue) = Capacity
  /\ lost' = 1 - lost
  /\ UNCHANGED <<queue, next, delivered>>

Take(n) ==
  /\ n <= Len(queue)
  /\ delivered' = SubSeq(queue, 1, n)
  /\ queue' = SubSeq(queue, n + 1, Len(queue))
  /\ UNCHANGED <<next, lost>>

Next ==
  \/ \E n \in PutCounts : Put(n)
  \/ Lose
  \/ \E n \in TakeCounts : Take(n)

Spec == Init /\ [][Next]_vars
=============================================================================
