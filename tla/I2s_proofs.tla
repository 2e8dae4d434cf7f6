----------------------------- MODULE I2s_proofs -----------------------------
(***************************************************************************)
(* The I2S driver for any lanes, buffer sizes and frame counts: wake-ups,  *)
(* the fill levels, and that each lane implements FrameFifo.               *)
(***************************************************************************)
EXTENDS I2s, TLAPS

(***************************************************************************)
(* What the wake-ups rest on: where a task is while its lane is blocked.   *)
(* A task that has found too little is not yet blocked, one that waits is, *)
(* and one that moves frames is not any more.                              *)
(***************************************************************************)
WakeTypeOK ==
  /\ required \in [Lanes -> FrameCounts \cup {0}]
  /\ blocked \in [Lanes -> BOOLEAN]
  /\ sem \in [Lanes -> {0, 1}]
  /\ isrCmd \subseteq Lanes /\ isrBytes \subseteq Lanes
  /\ pc \in [Lanes -> {"idle", "block", "wait", "copy", "publish"}]
  /\ count \in [Lanes -> FrameCounts \cup {0}]

BlockedWhere ==
  \A l \in Lanes :
    /\ pc[l] \in {"block", "copy", "publish"} => ~blocked[l]
    /\ pc[l] = "wait" => blocked[l]
    /\ pc[l] # "idle" => count[l] \in FrameCounts

WakeInv == WakeTypeOK /\ BlockedWhere /\ WakeAccountedFor

LEMMA CountsPositive == \A n \in FrameCounts : n \in Nat /\ n > 0
  BY I2sAssumption

LEMMA WakeInit == Init => WakeInv
  <1> SUFFICES ASSUME Init PROVE WakeInv
    OBVIOUS
  <1>1. WakeTypeOK
    BY DEF Init, WakeTypeOK
  <1>2. BlockedWhere
    BY DEF Init, BlockedWhere
  <1>3. ASSUME NEW l \in Lanes PROVE WakeUps(l) = IF blocked[l] THEN 1 ELSE 0
    <2>1. /\ required[l] = 0 /\ sem[l] = 0 /\ blocked[l] = FALSE
          /\ l \notin isrCmd /\ l \notin isrBytes
      BY DEF Init
    <2> QED
      BY <2>1 DEF WakeUps
  <1> QED
    BY <1>1, <1>2, <1>3 DEF WakeInv, WakeAccountedFor

LEMMA WakeStep == WakeInv /\ [Next]_vars => WakeInv'
  <1> SUFFICES ASSUME WakeInv, [Next]_vars PROVE WakeInv'
    OBVIOUS
  <1>0. \A n \in FrameCounts : n \in Nat /\ n > 0
    BY CountsPositive
  <1>1. ASSUME NEW l \in Lanes, Call(l) PROVE WakeInv'
    <2>1. WakeTypeOK'
      BY <1>1 DEF WakeInv, WakeTypeOK, Call, wakeVars
    <2>2. BlockedWhere'
      BY <1>1 DEF WakeInv, WakeTypeOK, BlockedWhere, Call, wakeVars
    <2>3. WakeAccountedFor'
      BY <1>1 DEF WakeInv, WakeAccountedFor, WakeUps, Call, wakeVars
    <2> QED
      BY <2>1, <2>2, <2>3 DEF WakeInv
  <1>2. ASSUME NEW l \in Lanes, Block(l) PROVE WakeInv'
    <2>1. WakeTypeOK'
      BY <1>2 DEF WakeInv, WakeTypeOK, Block
    <2>2. BlockedWhere'
      BY <1>2 DEF WakeInv, WakeTypeOK, BlockedWhere, Block
    <2>3. WakeAccountedFor'
      <3> SUFFICES ASSUME NEW m \in Lanes
                   PROVE  WakeUps(m)' = IF blocked'[m] THEN 1 ELSE 0
        BY DEF WakeAccountedFor
      <3>1. WakeUps(m) = IF blocked[m] THEN 1 ELSE 0
        BY DEF WakeInv, WakeAccountedFor
      <3>2. /\ sem[m] \in {0, 1} /\ required[m] \in Nat /\ count[m] \in Nat
            /\ blocked[m] \in BOOLEAN
        BY <1>0 DEF WakeInv, WakeTypeOK
      <3>3. CASE m # l
        BY <1>2, <3>1, <3>3 DEF WakeInv, WakeTypeOK, WakeUps, Block
      <3>4. CASE m = l
        <4>1. ~blocked[l] /\ count[l] > 0
          BY <1>0, <1>2 DEF WakeInv, BlockedWhere, Block
        <4>0. WakeUps(l) = 0
          BY <3>1, <3>4, <4>1
        <4>2. required[l] = 0 /\ l \notin isrCmd /\ l \notin isrBytes /\ sem[l] = 0
          BY <3>2, <3>4, <4>0 DEF WakeUps
        <4>3. /\ required'[l] = count[l] /\ blocked'[l] = TRUE
              /\ UNCHANGED <<isrCmd, isrBytes, sem>>
          BY <1>2 DEF WakeInv, WakeTypeOK, Block
        <4> QED
          BY <3>2, <3>4, <4>1, <4>2, <4>3 DEF WakeUps
      <3> QED
        BY <3>3, <3>4
    <2> QED
      BY <2>1, <2>2, <2>3 DEF WakeInv
  <1>3. ASSUME NEW l \in Lanes, TakeSemaphore(l) PROVE WakeInv'
    <2>1. WakeTypeOK'
      BY <1>3 DEF WakeInv, WakeTypeOK, TakeSemaphore
    <2>2. BlockedWhere'
      BY <1>3 DEF WakeInv, WakeTypeOK, BlockedWhere, TakeSemaphore
    <2>3. WakeAccountedFor'
      BY <1>3 DEF WakeInv, WakeTypeOK, BlockedWhere, WakeAccountedFor, WakeUps,
                  TakeSemaphore
    <2> QED
      BY <2>1, <2>2, <2>3 DEF WakeInv
  <1>4. ASSUME NEW l \in Lanes, TimeOut(l) PROVE WakeInv'
    <2>1. WakeTypeOK'
      BY <1>4 DEF WakeInv, WakeTypeOK, TimeOut, wakeVars
    <2>2. BlockedWhere'
      BY <1>4 DEF WakeInv, WakeTypeOK, BlockedWhere, TimeOut, wakeVars
    <2>3. WakeAccountedFor'
      BY <1>4 DEF WakeInv, WakeAccountedFor, WakeUps, TimeOut, wakeVars
    <2> QED
      BY <2>1, <2>2, <2>3 DEF WakeInv
  <1>5. ASSUME NEW l \in Lanes, CopyFrame(l) \/ Publish(l) PROVE WakeInv'
    <2>1. WakeTypeOK'
      BY <1>5 DEF WakeInv, WakeTypeOK, CopyFrame, Publish, wakeVars
    <2>2. BlockedWhere'
      BY <1>5 DEF WakeInv, WakeTypeOK, BlockedWhere, CopyFrame, Publish, wakeVars
    <2>3. WakeAccountedFor'
      BY <1>5 DEF WakeInv, WakeAccountedFor, WakeUps, CopyFrame, Publish, wakeVars
    <2> QED
      BY <2>1, <2>2, <2>3 DEF WakeInv
  <1>6. ASSUME NEW l \in Lanes, Move(l) PROVE WakeInv'
    <2>1. UNCHANGED <<wakeVars, taskVars>>
      BY <1>6 DEF Move
    <2> QED
      BY <2>1 DEF WakeInv, WakeTypeOK, BlockedWhere, WakeAccountedFor, WakeUps,
                  wakeVars, taskVars
  <1>7. ASSUME NEW l \in Lanes, Signal(l) PROVE WakeInv'
    <2>1. WakeTypeOK'
      <3>1. CASE required[l] > 0 /\ Satisfied(l)
        BY <1>7, <3>1 DEF WakeInv, WakeTypeOK, Signal, RequirementCleared, taskVars
      <3>2. CASE ~(required[l] > 0 /\ Satisfied(l))
        BY <1>7, <3>2 DEF WakeInv, WakeTypeOK, Signal, taskVars
      <3> QED
        BY <3>1, <3>2
    <2>2. BlockedWhere'
      BY <1>7 DEF WakeInv, BlockedWhere, Signal, taskVars
    <2>3. WakeAccountedFor'
      <3> SUFFICES ASSUME NEW m \in Lanes
                   PROVE  WakeUps(m)' = IF blocked'[m] THEN 1 ELSE 0
        BY DEF WakeAccountedFor
      <3>1. WakeUps(m) = IF blocked[m] THEN 1 ELSE 0
        BY DEF WakeInv, WakeAccountedFor
      <3>2. sem[m] \in {0, 1} /\ required[m] \in Nat /\ blocked[m] \in BOOLEAN
        BY <1>0 DEF WakeInv, WakeTypeOK
      <3>3. CASE m = l /\ required[l] > 0 /\ Satisfied(l)
        <4>1. l \notin isrCmd /\ l \notin isrBytes /\ sem[l] = 0 /\ blocked[l]
          BY <3>1, <3>2, <3>3 DEF WakeUps
        <4>2. /\ required'[l] = 0 /\ l \in isrCmd'
              /\ UNCHANGED <<isrBytes, sem, blocked>>
          BY <1>7, <3>3 DEF WakeInv, WakeTypeOK, Signal, RequirementCleared
        <4> QED
          BY <3>3, <4>1, <4>2 DEF WakeUps
      <3>4. CASE ~(m = l /\ required[l] > 0 /\ Satisfied(l))
        <4>1. /\ required'[m] = required[m] /\ (m \in isrCmd' <=> m \in isrCmd)
              /\ UNCHANGED <<isrBytes, sem, blocked>>
          BY <1>7, <3>4 DEF WakeInv, WakeTypeOK, Signal, RequirementCleared
        <4> QED
          BY <3>1, <3>2, <4>1 DEF WakeUps
      <3> QED
        BY <3>3, <3>4
    <2> QED
      BY <2>1, <2>2, <2>3 DEF WakeInv
  <1>8. CASE Flush
    <2>1. WakeTypeOK'
      BY <1>8 DEF WakeInv, WakeTypeOK, Flush, taskVars
    <2>2. BlockedWhere'
      BY <1>8 DEF WakeInv, BlockedWhere, Flush, taskVars
    <2>3. WakeAccountedFor'
      <3> SUFFICES ASSUME NEW m \in Lanes
                   PROVE  WakeUps(m)' = IF blocked'[m] THEN 1 ELSE 0
        BY DEF WakeAccountedFor
      <3>1. WakeUps(m) = IF blocked[m] THEN 1 ELSE 0
        BY DEF WakeInv, WakeAccountedFor
      <3>2. /\ required'[m] = required[m] /\ sem'[m] = sem[m] /\ blocked'[m] = blocked[m]
            /\ m \notin isrCmd' /\ (m \in isrBytes' <=> m \in isrBytes \/ m \in isrCmd)
        BY <1>8 DEF Flush
      <3>3. sem[m] \in {0, 1} /\ required[m] \in Nat /\ blocked[m] \in BOOLEAN
        BY <1>0 DEF WakeInv, WakeTypeOK
      <3> QED
        BY <3>1, <3>2, <3>3 DEF WakeUps
    <2> QED
      BY <2>1, <2>2, <2>3 DEF WakeInv
  <1>9. ASSUME NEW l \in Lanes, Isr(l) PROVE WakeInv'
    <2>1. WakeTypeOK'
      BY <1>9 DEF WakeInv, WakeTypeOK, Isr, taskVars
    <2>2. BlockedWhere'
      BY <1>9 DEF WakeInv, BlockedWhere, Isr, taskVars
    <2>3. WakeAccountedFor'
      <3> SUFFICES ASSUME NEW m \in Lanes
                   PROVE  WakeUps(m)' = IF blocked'[m] THEN 1 ELSE 0
        BY DEF WakeAccountedFor
      <3>1. WakeUps(m) = IF blocked[m] THEN 1 ELSE 0
        BY DEF WakeInv, WakeAccountedFor
      <3>2. sem[m] \in {0, 1} /\ required[m] \in Nat /\ blocked[m] \in BOOLEAN
        BY <1>0 DEF WakeInv, WakeTypeOK
      <3>3. CASE m = l
        <4>1. l \in isrBytes /\ l \notin isrCmd /\ required[l] = 0 /\ sem[l] = 0 /\ blocked[l]
          BY <1>9, <3>1, <3>2, <3>3 DEF WakeUps, Isr
        <4>2. /\ l \notin isrBytes' /\ sem'[l] = 1
              /\ UNCHANGED <<isrCmd, required, blocked>>
          BY <1>9 DEF WakeInv, WakeTypeOK, Isr
        <4> QED
          BY <3>3, <4>1, <4>2 DEF WakeUps
      <3>4. CASE m # l
        <4>1. /\ sem'[m] = sem[m] /\ (m \in isrBytes' <=> m \in isrBytes)
              /\ UNCHANGED <<isrCmd, required, blocked>>
          BY <1>9, <3>4 DEF WakeInv, WakeTypeOK, Isr
        <4> QED
          BY <3>1, <3>2, <4>1 DEF WakeUps
      <3> QED
        BY <3>3, <3>4
    <2> QED
      BY <2>1, <2>2, <2>3 DEF WakeInv
  <1>10. CASE UNCHANGED vars
    BY <1>10 DEF WakeInv, WakeTypeOK, BlockedWhere, WakeAccountedFor, WakeUps,
                 vars, wakeVars, taskVars
  <1> QED
    BY <1>1, <1>2, <1>3, <1>4, <1>5, <1>6, <1>7, <1>8, <1>9, <1>10
    DEF Next, Thread, Task

(***************************************************************************)
(* A blocked lane has exactly one wake-up on its way and no other lane has *)
(* any: for any lanes, sizes and frame counts, calls that time out         *)
(* included.                                                               *)
(***************************************************************************)
THEOREM WakeCorrect == Spec => []WakeAccountedFor
  <1>1. Spec => []WakeInv
    BY WakeInit, WakeStep, PTL DEF Spec
  <1>2. WakeInv => WakeAccountedFor
    BY DEF WakeInv
  <1> QED
    BY <1>1, <1>2, PTL

-----------------------------------------------------------------------------
(***************************************************************************)
(* Differences of the free-running totals: what an addition modulo M does  *)
(* to a difference that is read modulo M.                                  *)
(***************************************************************************)
Turn(x, M) == IF x < 0 THEN x + M ELSE IF x < M THEN x ELSE x - M

LEMMA Wrap ==
  ASSUME NEW M \in Nat \ {0}, NEW x \in Int, -M <= x, x < 2 * M
  PROVE  x % M = Turn(x, M)
  <1>1. CASE x < 0
    BY <1>1 DEF Turn
  <1>2. CASE 0 <= x /\ x < M
    BY <1>2 DEF Turn
  <1>3. CASE M <= x
    BY <1>3 DEF Turn
  <1> QED
    BY <1>1, <1>2, <1>3

LEMMA Ahead ==
  ASSUME NEW M \in Nat \ {0}, NEW a \in 0 .. M - 1, NEW b \in 0 .. M - 1,
         NEW k \in Nat, ((a - b) % M) + k < M
  PROVE  (((a + k) % M) - b) % M = ((a - b) % M) + k
  <1>0. a - b \in Int /\ -M <= a - b /\ a - b < 2 * M
    OBVIOUS
  <1>1. (a - b) % M = Turn(a - b, M)
    BY <1>0, Wrap
  <1>2. k < M /\ a + k \in Int /\ -M <= a + k /\ a + k < 2 * M
    BY <1>1 DEF Turn
  <1>3. (a + k) % M = Turn(a + k, M)
    BY <1>2, Wrap
  <1> DEFINE c == (a + k) % M
  <1>4. c \in 0 .. M - 1 /\ c - b \in Int /\ -M <= c - b /\ c - b < 2 * M
    BY <1>2, <1>3 DEF Turn
  <1>5. c = Turn(a + k, M)
    BY <1>3
  <1> HIDE DEF c
  <1>6. (c - b) % M = Turn(c - b, M)
    BY <1>4, Wrap
  <1>7. Turn(c - b, M) = Turn(a - b, M) + k
    BY <1>1, <1>2, <1>4, <1>5 DEF Turn
  <1> QED
    BY <1>1, <1>6, <1>7 DEF c

LEMMA Behind ==
  ASSUME NEW M \in Nat \ {0}, NEW a \in 0 .. M - 1, NEW b \in 0 .. M - 1,
         NEW k \in Nat, k <= (a - b) % M
  PROVE  (a - ((b + k) % M)) % M = ((a - b) % M) - k
  <1>0. a - b \in Int /\ -M <= a - b /\ a - b < 2 * M
    OBVIOUS
  <1>1. (a - b) % M = Turn(a - b, M)
    BY <1>0, Wrap
  <1>2. k < M /\ b + k \in Int /\ -M <= b + k /\ b + k < 2 * M
    BY <1>1 DEF Turn
  <1>3. (b + k) % M = Turn(b + k, M)
    BY <1>2, Wrap
  <1> DEFINE c == (b + k) % M
  <1>4. c \in 0 .. M - 1 /\ a - c \in Int /\ -M <= a - c /\ a - c < 2 * M
    BY <1>2, <1>3 DEF Turn
  <1>5. c = Turn(b + k, M)
    BY <1>3
  <1> HIDE DEF c
  <1>6. (a - c) % M = Turn(a - c, M)
    BY <1>4, Wrap
  <1>7. Turn(a - c, M) = Turn(a - b, M) - k
    BY <1>1, <1>2, <1>4, <1>5 DEF Turn
  <1> QED
    BY <1>1, <1>6, <1>7 DEF c

-----------------------------------------------------------------------------
(***************************************************************************)
(* Calls move frames only when they are there, or fit.  While a wake-up is *)
(* on its way what it was sent for stays ready, since only the task takes  *)
(* from what is ready and it is blocked; the amount it was sent for is the *)
(* count of the call that waits.                                           *)
(***************************************************************************)
TotalTypeOK ==
  /\ taskTotal \in [Lanes -> 0 .. CounterModulus - 1]
  /\ driverTotal \in [Lanes -> 0 .. CounterModulus - 1]

Pending(l) == l \in isrCmd \/ l \in isrBytes \/ sem[l] = 1

InBuffer(l) == Available(l) \in 0 .. BufSize(l)

Fits(l) == pc[l] \in {"copy", "publish"} => count[l] <= Ready(l)

WaitsFor(l) ==
  /\ ~MayTimeOut /\ blocked[l] => pc[l] = "wait"
  /\ required[l] > 0 /\ pc[l] = "wait" => required[l] = count[l]
  /\ Pending(l) => \E n \in FrameCounts :
                     n <= Ready(l) /\ (pc[l] = "wait" => n = count[l])

LaneInv(l) == InBuffer(l) /\ Fits(l) /\ WaitsFor(l)

FitInv == WakeInv /\ TotalTypeOK /\ \A l \in Lanes : LaneInv(l)

LEMMA FitInit == Init => FitInv
  <1> SUFFICES ASSUME Init PROVE FitInv
    OBVIOUS
  <1>1. WakeInv
    BY WakeInit
  <1>2. TotalTypeOK
    BY I2sAssumption DEF Init, TotalTypeOK
  <1>3. ASSUME NEW l \in Lanes PROVE LaneInv(l)
    <2>1. /\ taskTotal[l] = 0 /\ driverTotal[l] = 0 /\ blocked[l] = FALSE
          /\ required[l] = 0 /\ pc[l] = "idle" /\ ~Pending(l)
      BY DEF Init, Pending
    <2>2. CounterModulus \in Nat \ {0} /\ BufSize(l) \in Nat
      BY I2sAssumption DEF BufSize
    <2>3. Available(l) = 0
      BY <2>1, <2>2 DEF Available
    <2> QED
      BY <2>1, <2>2, <2>3 DEF LaneInv, InBuffer, Fits, WaitsFor
  <1> QED
    BY <1>1, <1>2, <1>3 DEF FitInv

\* A lane whose part of the state does not change keeps its invariant.
LEMMA LaneKept ==
  ASSUME NEW m \in Lanes, LaneInv(m),
         taskTotal'[m] = taskTotal[m], driverTotal'[m] = driverTotal[m],
         pc'[m] = pc[m], count'[m] = count[m],
         blocked'[m] = blocked[m], required'[m] = required[m],
         Pending(m)' => Pending(m)
  PROVE  LaneInv(m)'
  <1>1. Available(m)' = Available(m) /\ Free(m)' = Free(m) /\ Ready(m)' = Ready(m)
    BY DEF Available, Free, Ready
  <1> QED
    BY <1>1 DEF LaneInv, InBuffer, Fits, WaitsFor

\* A lane that is not blocked has no wake-up on its way.
LEMMA NonePending ==
  ASSUME WakeInv, NEW l \in Lanes, ~blocked[l]
  PROVE  required[l] = 0 /\ ~Pending(l)
  <1>1. WakeUps(l) = 0
    BY DEF WakeInv, WakeAccountedFor
  <1>2. required[l] \in Nat /\ sem[l] \in {0, 1}
    BY CountsPositive DEF WakeInv, WakeTypeOK
  <1> QED
    BY <1>1, <1>2 DEF WakeUps, Pending

LEMMA FitTask ==
  ASSUME FitInv, WakeInv', CallersAgree, NEW l \in Lanes,
         Call(l) \/ Block(l) \/ TakeSemaphore(l) \/ TimeOut(l) \/ CopyFrame(l)
  PROVE  FitInv'
  <1> USE DEF FitInv
  <1>1. /\ UNCHANGED <<taskTotal, driverTotal, isrCmd, isrBytes>>
        /\ TotalTypeOK'
    BY DEF Call, Block, TakeSemaphore, TimeOut, CopyFrame, ringVars, wakeVars,
           TotalTypeOK
  <1>2. \A m \in Lanes : /\ Available(m)' = Available(m)
                         /\ Ready(m)' = Ready(m)
    BY <1>1 DEF Available, Free, Ready
  <1>3. ASSUME NEW m \in Lanes, m # l PROVE LaneInv(m)'
    <2>1. /\ pc'[m] = pc[m] /\ count'[m] = count[m] /\ blocked'[m] = blocked[m]
          /\ required'[m] = required[m] /\ sem'[m] = sem[m]
      BY <1>3 DEF WakeInv, WakeTypeOK, Call, Block, TakeSemaphore, TimeOut,
                  CopyFrame, wakeVars
    <2> QED
      BY <1>1, <2>1, LaneKept DEF Pending
  <1>4. InBuffer(l)'
    BY <1>2 DEF LaneInv, InBuffer
  <1>5. Ready(l) \in Int
    BY I2sAssumption DEF LaneInv, InBuffer, Ready, Free, BufSize
  <1>6. \A n \in FrameCounts : n \in Nat /\ n > 0
    BY CountsPositive
  <1>7. CASE Call(l)
    <2>1. /\ pc[l] = "idle" /\ UNCHANGED <<required, blocked, sem>>
          /\ count'[l] \in FrameCounts
          /\ pc'[l] = IF blocked[l] THEN "wait"
                      ELSE IF TooFew(l, count'[l]) THEN "block" ELSE "copy"
      BY <1>7 DEF Call, wakeVars, WakeInv, WakeTypeOK
    <2>2. Fits(l)'
      BY <1>2, <1>5, <1>6, <2>1 DEF Fits, TooFew
    <2>3. ASSUME ~blocked[l] PROVE LaneInv(l)'
      <3>1. required[l] = 0 /\ ~Pending(l)
        BY <2>3, NonePending
      <3>2. ~Pending(l)'
        BY <1>1, <2>1, <3>1 DEF Pending
      <3>3. ~blocked'[l] /\ required'[l] = 0
        BY <2>1, <2>3, <3>1
      <3> QED
        BY <1>4, <2>2, <3>2, <3>3 DEF LaneInv, WaitsFor
    <2>4. ASSUME blocked[l] PROVE LaneInv(l)'
      <3>1. \A m, n \in FrameCounts : m = n
        BY <2>1, <2>4 DEF LaneInv, WaitsFor, CallersAgree
      <3>2. required[l] \in FrameCounts \cup {0}
        BY DEF WakeInv, WakeTypeOK
      <3>3. Pending(l)' <=> Pending(l)
        BY <1>1, <2>1 DEF Pending
      <3>4. WaitsFor(l)'
        BY <1>2, <2>1, <2>4, <3>1, <3>2, <3>3 DEF LaneInv, WaitsFor
      <3> QED
        BY <1>4, <2>2, <3>4 DEF LaneInv
    <2>5. LaneInv(l)'
      BY <2>1, <2>3, <2>4 DEF WakeInv, WakeTypeOK
    <2> QED
      BY <1>1, <1>3, <2>5
  <1>8. CASE Block(l)
    <2>1. required[l] = 0 /\ ~Pending(l)
      BY <1>8, NonePending DEF WakeInv, BlockedWhere, Block
    <2>2. /\ required'[l] = count[l] /\ count'[l] = count[l] /\ pc'[l] = "wait"
          /\ UNCHANGED sem
      BY <1>8 DEF Block, WakeInv, WakeTypeOK
    <2>3. ~Pending(l)'
      BY <1>1, <2>1, <2>2 DEF Pending
    <2>4. LaneInv(l)'
      BY <1>4, <2>2, <2>3 DEF LaneInv, Fits, WaitsFor
    <2> QED
      BY <1>1, <1>3, <2>4
  <1>9. CASE TakeSemaphore(l)
    <2>1. count[l] <= Ready(l)
      BY <1>9 DEF TakeSemaphore, LaneInv, WaitsFor, Pending
    <2>2. /\ ~blocked'[l] /\ pc'[l] = "copy" /\ count'[l] = count[l]
      BY <1>9 DEF TakeSemaphore, WakeInv, WakeTypeOK
    <2>3. ~Pending(l)'
      <3>1. WakeUps(l)' = 0
        BY <2>2 DEF WakeInv, WakeAccountedFor
      <3>2. required'[l] \in Nat /\ sem'[l] \in {0, 1}
        BY <1>6 DEF WakeInv, WakeTypeOK
      <3> QED
        BY <3>1, <3>2 DEF WakeUps, Pending
    <2>4. LaneInv(l)'
      BY <1>2, <1>4, <2>1, <2>2, <2>3 DEF LaneInv, Fits, WaitsFor
    <2> QED
      BY <1>1, <1>3, <2>4
  <1>10. CASE TimeOut(l)
    <2>1. /\ MayTimeOut /\ pc'[l] = "idle" /\ UNCHANGED <<required, blocked, sem>>
      BY <1>10 DEF TimeOut, wakeVars, WakeInv, WakeTypeOK
    <2>2. Pending(l)' <=> Pending(l)
      BY <1>1, <2>1 DEF Pending
    <2>3. LaneInv(l)'
      BY <1>2, <1>4, <2>1, <2>2 DEF LaneInv, Fits, WaitsFor
    <2> QED
      BY <1>1, <1>3, <2>3
  <1>11. CASE CopyFrame(l)
    <2>1. /\ pc[l] = "copy" /\ pc'[l] \in {"copy", "publish"}
          /\ UNCHANGED <<required, blocked, sem, count>>
      BY <1>11 DEF CopyFrame, wakeVars, WakeInv, WakeTypeOK
    <2>2. Pending(l)' <=> Pending(l)
      BY <1>1, <2>1 DEF Pending
    <2>3. ~blocked[l]
      BY <2>1 DEF WakeInv, BlockedWhere
    <2>4. LaneInv(l)'
      BY <1>2, <1>4, <2>1, <2>2, <2>3, NonePending DEF LaneInv, Fits, WaitsFor
    <2> QED
      BY <1>1, <1>3, <2>4
  <1> QED
    BY <1>7, <1>8, <1>9, <1>10, <1>11

\* Publishing takes the frames of the call from those that are available, or
\* adds them.
LEMMA PublishedAvailable ==
  ASSUME FitInv, NEW l \in Lanes, Publish(l)
  PROVE  Available(l)' = IF l = "recv" THEN Available(l) - count[l]
                                       ELSE Available(l) + count[l]
  <1> USE DEF FitInv
  <1>1. /\ pc[l] = "publish" /\ UNCHANGED driverTotal
        /\ taskTotal' = [taskTotal EXCEPT ![l] = (@ + count[l]) % CounterModulus]
    BY DEF Publish
  <1>2. /\ CounterModulus \in Nat \ {0} /\ BufSize(l) \in Nat
        /\ BufSize(l) < CounterModulus
    BY I2sAssumption DEF BufSize
  <1>3. count[l] \in Nat
    BY CountsPositive DEF WakeInv, WakeTypeOK
  <1>6. PICK t \in 0 .. CounterModulus - 1, d \in 0 .. CounterModulus - 1, n \in Nat :
             t = taskTotal[l] /\ d = driverTotal[l] /\ n = count[l]
    BY <1>3 DEF TotalTypeOK
  <1>7. taskTotal'[l] = (t + n) % CounterModulus /\ driverTotal'[l] = d
    BY <1>1, <1>6 DEF TotalTypeOK
  <1>8. n <= Ready(l) /\ Available(l) \in 0 .. BufSize(l)
    BY <1>1, <1>6 DEF LaneInv, Fits, InBuffer
  <1>9. Available(l)' = IF l = "recv" THEN Available(l) - n ELSE Available(l) + n
    <2>1. CASE l = "recv"
      <3>1. Available(l) = (d - t) % CounterModulus /\ Ready(l) = Available(l)
        BY <1>6, <2>1 DEF Available, Ready
      <3>2. Available(l)' = (d - ((t + n) % CounterModulus)) % CounterModulus
        <4>1. Available(l)' = (driverTotal'[l] - taskTotal'[l]) % CounterModulus
          BY <2>1 DEF Available
        <4> QED
          BY <1>7, <4>1
      <3>3. n <= (d - t) % CounterModulus
        BY <1>8, <3>1
      <3>4. (d - ((t + n) % CounterModulus)) % CounterModulus
              = ((d - t) % CounterModulus) - n
        BY <1>2, <3>3, Behind
      <3> QED
        BY <2>1, <3>1, <3>2, <3>4
    <2>2. CASE l # "recv"
      <3>1. /\ Available(l) = (t - d) % CounterModulus
            /\ Ready(l) = BufSize(l) - Available(l)
        BY <1>6, <2>2 DEF Available, Ready, Free
      <3>2. Available(l)' = (((t + n) % CounterModulus) - d) % CounterModulus
        BY <1>7, <2>2 DEF Available
      <3>3. Available(l) + n < CounterModulus
        BY <1>2, <1>8, <3>1
      <3>4. ((t - d) % CounterModulus) + n < CounterModulus
        BY <3>1, <3>3
      <3>5. (((t + n) % CounterModulus) - d) % CounterModulus
              = ((t - d) % CounterModulus) + n
        BY <1>2, <3>4, Ahead
      <3> QED
        BY <2>2, <3>1, <3>2, <3>5
    <2> QED
      BY <2>1, <2>2
  <1> QED
    BY <1>6, <1>9

\* What a published call does to the lane: it stays within the buffer.
LEMMA FitPublish ==
  ASSUME FitInv, WakeInv', NEW l \in Lanes, Publish(l)
  PROVE  FitInv'
  <1> USE DEF FitInv
  <1>1. /\ pc[l] = "publish" /\ pc'[l] = "idle" /\ ~blocked[l]
        /\ UNCHANGED <<driverTotal, wakeVars>>
        /\ taskTotal' = [taskTotal EXCEPT ![l] = (@ + count[l]) % CounterModulus]
    BY DEF Publish, WakeInv, WakeTypeOK, BlockedWhere
  <1>2. /\ CounterModulus \in Nat \ {0} /\ BufSize(l) \in Nat
        /\ BufSize(l) < CounterModulus
    BY I2sAssumption DEF BufSize
  <1>3. count[l] \in Nat
    BY CountsPositive DEF WakeInv, WakeTypeOK
  <1>4. TotalTypeOK'
    BY <1>1, <1>2, <1>3 DEF TotalTypeOK
  <1>5. ASSUME NEW m \in Lanes, m # l PROVE LaneInv(m)'
    <2>1. /\ pc'[m] = pc[m] /\ count'[m] = count[m] /\ taskTotal'[m] = taskTotal[m]
      BY <1>1, <1>5 DEF Publish, WakeInv, WakeTypeOK, TotalTypeOK
    <2> QED
      BY <1>1, <2>1, LaneKept DEF Pending, wakeVars
  <1>6. PICK n \in Nat : n = count[l]
    BY <1>3
  <1>8. n <= Ready(l) /\ Available(l) \in 0 .. BufSize(l)
    BY <1>1, <1>6 DEF LaneInv, Fits, InBuffer
  <1>9. Available(l)' = IF l = "recv" THEN Available(l) - n ELSE Available(l) + n
    BY <1>6, PublishedAvailable
  <1>10. InBuffer(l)'
    BY <1>2, <1>8, <1>9 DEF InBuffer, Ready, Free, BufSize
  <1>11. LaneInv(l)'
    BY <1>1, <1>10, NonePending DEF LaneInv, Fits, WaitsFor, Pending, wakeVars
  <1> QED
    BY <1>4, <1>5, <1>11

\* A frame that the I/O thread moves is one more available, or one less.
LEMMA MovedAvailable ==
  ASSUME FitInv, NEW l \in Lanes, Move(l), Moves(l)
  PROVE  Available(l)' = IF l = "recv" THEN Available(l) + 1 ELSE Available(l) - 1
  <1> USE DEF FitInv
  <1>1. /\ UNCHANGED taskTotal
        /\ driverTotal' = [driverTotal EXCEPT ![l] = (@ + 1) % CounterModulus]
    BY DEF Move
  <1>2. /\ CounterModulus \in Nat \ {0} /\ BufSize(l) \in Nat
        /\ BufSize(l) < CounterModulus
    BY I2sAssumption DEF BufSize
  <1>3. PICK t \in 0 .. CounterModulus - 1, d \in 0 .. CounterModulus - 1 :
             t = taskTotal[l] /\ d = driverTotal[l]
    BY DEF TotalTypeOK
  <1>4. taskTotal'[l] = t /\ driverTotal'[l] = (d + 1) % CounterModulus
    BY <1>1, <1>3 DEF TotalTypeOK
  <1>5. Available(l) \in 0 .. BufSize(l)
    BY DEF LaneInv, InBuffer
  <1>6. CASE l = "recv"
    <2>1. Available(l) = (d - t) % CounterModulus
      BY <1>3, <1>6 DEF Available
    <2>2. Available(l)' = (driverTotal'[l] - taskTotal'[l]) % CounterModulus
      BY <1>6 DEF Available
    <2>3. Available(l) + 1 <= BufSize(l)
      BY <1>2, <1>5, <1>6 DEF Moves, Free
    <2>4. ((d - t) % CounterModulus) + 1 < CounterModulus
      BY <1>2, <1>5, <2>1, <2>3
    <2>5. (((d + 1) % CounterModulus) - t) % CounterModulus
            = ((d - t) % CounterModulus) + 1
      BY <1>2, <2>4, Ahead
    <2> QED
      BY <1>4, <1>6, <2>1, <2>2, <2>5
  <1>7. CASE l # "recv"
    <2>1. Available(l) = (t - d) % CounterModulus
      BY <1>3, <1>7 DEF Available
    <2>2. Available(l)' = (taskTotal'[l] - driverTotal'[l]) % CounterModulus
      BY <1>7 DEF Available
    <2>3. 1 <= (t - d) % CounterModulus
      BY <1>7, <2>1 DEF Moves
    <2>4. (t - ((d + 1) % CounterModulus)) % CounterModulus
            = ((t - d) % CounterModulus) - 1
      BY <1>2, <2>3, Behind
    <2> QED
      BY <1>4, <1>7, <2>1, <2>2, <2>4
  <1> QED
    BY <1>6, <1>7

\* A frame moved by the I/O thread adds one to what is ready.
LEMMA FitMove ==
  ASSUME FitInv, WakeInv', NEW l \in Lanes, Move(l)
  PROVE  FitInv'
  <1> USE DEF FitInv
  <1>1. /\ UNCHANGED <<taskTotal, wakeVars, taskVars>>
        /\ driverTotal' = IF Moves(l)
             THEN [driverTotal EXCEPT ![l] = (@ + 1) % CounterModulus]
             ELSE driverTotal
    BY DEF Move
  <1>2. /\ CounterModulus \in Nat \ {0} /\ BufSize(l) \in Nat
        /\ BufSize(l) < CounterModulus
    BY I2sAssumption DEF BufSize
  <1>3. CASE ~Moves(l)
    <2>1. \A m \in Lanes : LaneInv(m)'
      BY <1>1, <1>3, LaneKept DEF Pending, wakeVars, taskVars
    <2> QED
      BY <1>1, <1>3, <2>1 DEF TotalTypeOK
  <1>4. CASE Moves(l)
    <2>1. TotalTypeOK'
      BY <1>1, <1>2, <1>4 DEF TotalTypeOK
    <2>2. ASSUME NEW m \in Lanes, m # l PROVE LaneInv(m)'
      <3>1. driverTotal'[m] = driverTotal[m]
        BY <1>1, <1>4, <2>2 DEF TotalTypeOK
      <3> QED
        BY <1>1, <3>1, LaneKept DEF Pending, wakeVars, taskVars
    <2>5. Available(l) \in 0 .. BufSize(l)
      BY DEF LaneInv, InBuffer
    <2>6. Available(l)' = IF l = "recv" THEN Available(l) + 1 ELSE Available(l) - 1
      BY <1>4, MovedAvailable
    <2>7. InBuffer(l)'
      BY <1>2, <1>4, <2>5, <2>6 DEF InBuffer, BufSize, Moves, Free
    <2>8. Ready(l) \in Int /\ Ready(l)' = Ready(l) + 1
      BY <1>2, <2>5, <2>6 DEF Ready, Free, BufSize
    <2>9. count[l] \in Nat
      BY CountsPositive DEF WakeInv, WakeTypeOK
    <2>10. Fits(l)'
      BY <1>1, <2>8, <2>9 DEF LaneInv, Fits, taskVars
    <2>11. WaitsFor(l)'
      <3>1. Pending(l)' => Pending(l)
        BY <1>1 DEF Pending, wakeVars
      <3>2. ASSUME NEW n \in FrameCounts, n <= Ready(l) PROVE n <= Ready(l)'
        BY <2>8, <3>2, CountsPositive
      <3> QED
        BY <1>1, <3>1, <3>2 DEF LaneInv, WaitsFor, wakeVars, taskVars
    <2>12. LaneInv(l)'
      BY <2>7, <2>10, <2>11 DEF LaneInv
    <2> QED
      BY <2>1, <2>2, <2>12
  <1> QED
    BY <1>3, <1>4

\* A wake-up is sent for an amount that is there, and carried unchanged.
LEMMA FitWake ==
  ASSUME FitInv, WakeInv', NEW l \in Lanes, Signal(l) \/ Flush \/ Isr(l)
  PROVE  FitInv'
  <1> USE DEF FitInv
  <1>1. /\ UNCHANGED <<ringVars, taskVars, blocked>>
    BY DEF Signal, Flush, Isr
  <1>2. TotalTypeOK'
    BY <1>1 DEF TotalTypeOK, ringVars
  <1>3. ASSUME NEW m \in Lanes, Pending(m)' => Pending(m), required'[m] = required[m]
        PROVE  LaneInv(m)'
    BY <1>1, <1>3, LaneKept DEF ringVars, taskVars
  <1>4. CASE Flush
    <2>1. UNCHANGED required /\ \A m \in Lanes : Pending(m)' => Pending(m)
      BY <1>4 DEF Flush, Pending
    <2> QED
      BY <1>2, <1>3, <2>1
  <1>5. CASE Isr(l)
    <2>1. UNCHANGED required /\ \A m \in Lanes : Pending(m)' => Pending(m)
      BY <1>5 DEF Isr, Pending, WakeInv, WakeTypeOK
    <2> QED
      BY <1>2, <1>3, <2>1
  <1>6. CASE Signal(l)
    <2>1. CASE ~(required[l] > 0 /\ Satisfied(l))
      <3>1. UNCHANGED required /\ \A m \in Lanes : Pending(m)' => Pending(m)
        BY <1>6, <2>1 DEF Signal, Pending
      <3> QED
        BY <1>2, <1>3, <3>1
    <2>2. CASE required[l] > 0 /\ Satisfied(l)
      <3>1. /\ required' = [required EXCEPT ![l] = 0] /\ isrCmd' = isrCmd \cup {l}
            /\ UNCHANGED <<sem, isrBytes>>
        BY <1>6, <2>2 DEF Signal, RequirementCleared
      <3>2. ASSUME NEW m \in Lanes, m # l PROVE LaneInv(m)'
        BY <1>3, <3>1, <3>2 DEF Pending, WakeInv, WakeTypeOK
      <3>3. Available(l)' = Available(l) /\ Ready(l)' = Ready(l)
        BY <1>1 DEF Available, Ready, Free, ringVars
      <3>4. InBuffer(l)' /\ Fits(l)'
        BY <1>1, <3>3 DEF LaneInv, InBuffer, Fits, taskVars
      <3>5. required[l] \in FrameCounts /\ required[l] <= Ready(l) /\ required'[l] = 0
        BY <2>2, <3>1 DEF WakeInv, WakeTypeOK, Satisfied
      <3>6. WaitsFor(l)'
        BY <1>1, <2>2, <3>3, <3>5 DEF LaneInv, WaitsFor, taskVars
      <3>7. LaneInv(l)'
        BY <3>4, <3>6 DEF LaneInv
      <3> QED
        BY <1>2, <3>2, <3>7
    <2> QED
      BY <2>1, <2>2
  <1> QED
    BY <1>4, <1>5, <1>6

LEMMA FitStep == FitInv /\ CallersAgree /\ [Next]_vars => FitInv'
  <1> SUFFICES ASSUME FitInv, CallersAgree, [Next]_vars PROVE FitInv'
    OBVIOUS
  <1>1. WakeInv'
    BY WakeStep DEF FitInv
  <1>2. ASSUME NEW l \in Lanes, Call(l) \/ TimeOut(l) \/ Task(l) PROVE FitInv'
    BY <1>1, <1>2, FitTask, FitPublish DEF Task
  <1>3. ASSUME NEW l \in Lanes, Move(l) PROVE FitInv'
    BY <1>1, <1>3, FitMove
  <1>4. ASSUME NEW l \in Lanes, Signal(l) \/ Isr(l) PROVE FitInv'
    BY <1>1, <1>4, FitWake
  <1>5. CASE Flush
    <2>1. PICK l \in Lanes : TRUE
      BY I2sAssumption
    <2> QED
      BY <1>1, <1>5, <2>1, FitWake
  <1>6. CASE UNCHANGED vars
    <2>1. \A l \in Lanes : LaneInv(l)'
      BY <1>6, LaneKept DEF FitInv, vars, ringVars, wakeVars, taskVars, Pending
    <2> QED
      BY <1>1, <1>6, <2>1 DEF FitInv, TotalTypeOK, vars, ringVars
  <1> QED
    BY <1>2, <1>3, <1>4, <1>5, <1>6 DEF Next, Thread

(***************************************************************************)
(* Calls move frames only when all of them are there, or fit: for any      *)
(* lanes, sizes and frame counts, as long as no call times out or all      *)
(* callers ask for the same number of frames.                              *)
(***************************************************************************)
THEOREM FitCorrect == CallersAgree => (Spec => []FramesFit)
  <1> SUFFICES ASSUME CallersAgree PROVE Spec => []FramesFit
    OBVIOUS
  <1>1. FitInv /\ [Next]_vars => FitInv'
    BY FitStep
  <1>2. FitInv => FramesFit
    BY DEF FitInv, LaneInv, Fits, FramesFit
  <1> QED
    BY FitInit, <1>1, <1>2, PTL DEF Spec

-----------------------------------------------------------------------------
(***************************************************************************)
(* A lane is a bounded FIFO.  The slots are counted from the frame that    *)
(* the consumer takes next; the producer's index is behind the frames that *)
(* are available and the task's moves on with every frame of a call, while *)
(* the totals, which the other side reads, move when the call is complete. *)
(***************************************************************************)
First(l) ==
  IF l = "recv" THEN Turn(driverIndex[l] - Available(l), BufSize(l))
  ELSE driverIndex[l]

\* The slot of the i-th frame from one in slot f on, in a ring of B
Slot(f, i, B) == Turn(f + i - 1, B)

\* The frames of the call in hand that have been copied
Copied(l) == IF pc[l] \in {"copy", "publish"} THEN count[l] - remaining[l] ELSE 0

Frame == 0 .. ValueModulus - 1

RingTypeOK ==
  /\ buf = [l \in Lanes |-> buf[l]]
  /\ taskIndex \in [Lanes -> Nat] /\ driverIndex \in [Lanes -> Nat]
  /\ remaining \in [Lanes -> Nat]
  /\ got \in [Lanes -> Seq(Frame)] /\ delivered \in [Lanes -> Seq(Frame)]
  /\ next \in [Lanes -> Frame] /\ lost \in [Lanes -> {0, 1}]

SlotsOK(l) ==
  /\ buf[l] \in [0 .. BufSize(l) - 1 -> Frame]
  /\ taskIndex[l] < BufSize(l) /\ driverIndex[l] < BufSize(l)

\* A call is complete when it has moved as many frames as it was asked for.
RemainingOK(l) ==
  /\ pc[l] \in {"block", "wait"} => remaining[l] = count[l]
  /\ pc[l] = "copy" => remaining[l] \in 1 .. count[l]
  /\ pc[l] = "publish" => remaining[l] = 0

\* The indices are where the totals and the call in hand say.
IndexOK(l) ==
  taskIndex[l] =
    Slot(First(l), (IF l = "recv" THEN 0 ELSE Available(l)) + Copied(l) + 1, BufSize(l))

\* What a call has copied: the first frames of the queue, or the next ones
\* behind those that are in it.
ContentOK(l) ==
  IF l = "recv"
  THEN got[l] = [i \in 1 .. Copied(l) |-> buf[l][Slot(First(l), i, BufSize(l))]]
  ELSE /\ \A i \in 1 .. Copied(l) :
            buf[l][Slot(First(l), Available(l) + i, BufSize(l))]
              = (next[l] + i - 1) % ValueModulus
       /\ got[l] = <<>>

RingInv(l) == SlotsOK(l) /\ RemainingOK(l) /\ IndexOK(l) /\ ContentOK(l)
FifoInv == FitInv /\ RingTypeOK /\ \A l \in Lanes : RingInv(l)

LEMMA SlotFacts ==
  ASSUME NEW B \in Nat \ {0}, NEW f \in 0 .. B - 1
  PROVE  /\ \A i \in 1 .. B + 1 : Slot(f, i, B) \in 0 .. B - 1
         /\ \A i, j \in 1 .. B : Slot(f, i, B) = Slot(f, j, B) => i = j
         /\ \A i \in 1 .. B :
              Slot(f, i + 1, B) = IF Slot(f, i, B) + 1 >= B THEN 0 ELSE Slot(f, i, B) + 1
         /\ \A k \in 0 .. B, i \in 1 .. B + 1 :
              k + i <= B + 1 => Slot(Slot(f, k + 1, B), i, B) = Slot(f, k + i, B)
         /\ Slot(f, 1, B) = f
  BY DEF Slot, Turn

\* Where a lane stands, in numbers
LEMMA LaneFacts ==
  FifoInv => \A l \in Lanes :
    /\ BufSize(l) \in Nat \ {0} /\ WrapSize(l) = BufSize(l)
    /\ Available(l) \in 0 .. BufSize(l)
    /\ First(l) \in 0 .. BufSize(l) - 1
    /\ taskIndex[l] \in 0 .. BufSize(l) - 1 /\ driverIndex[l] \in 0 .. BufSize(l) - 1
    /\ count[l] \in Nat /\ Copied(l) \in Nat /\ Copied(l) <= Ready(l)
    /\ Ready(l) = IF l = "recv" THEN Available(l) ELSE BufSize(l) - Available(l)
    /\ pc[l] = "copy" => /\ Copied(l) = count[l] - remaining[l]
                         /\ remaining[l] \in 1 .. count[l] /\ count[l] <= Ready(l)
    /\ pc[l] = "publish" => /\ Copied(l) = count[l] /\ count[l] \in FrameCounts
                            /\ count[l] <= Ready(l)
    /\ driverIndex[l] = Slot(First(l), IF l = "recv" THEN Available(l) + 1 ELSE 1,
                             BufSize(l))
<1> SUFFICES ASSUME FifoInv, NEW l \in Lanes
             PROVE  /\ BufSize(l) \in Nat \ {0} /\ WrapSize(l) = BufSize(l)
                    /\ Available(l) \in 0 .. BufSize(l)
                    /\ First(l) \in 0 .. BufSize(l) - 1
                    /\ taskIndex[l] \in 0 .. BufSize(l) - 1
                    /\ driverIndex[l] \in 0 .. BufSize(l) - 1
                    /\ count[l] \in Nat /\ Copied(l) \in Nat /\ Copied(l) <= Ready(l)
                    /\ Ready(l) = IF l = "recv" THEN Available(l)
                                  ELSE BufSize(l) - Available(l)
                    /\ pc[l] = "copy" =>
                         /\ Copied(l) = count[l] - remaining[l]
                         /\ remaining[l] \in 1 .. count[l] /\ count[l] <= Ready(l)
                    /\ pc[l] = "publish" =>
                         /\ Copied(l) = count[l] /\ count[l] \in FrameCounts
                         /\ count[l] <= Ready(l)
                    /\ driverIndex[l] =
                         Slot(First(l), IF l = "recv" THEN Available(l) + 1 ELSE 1,
                              BufSize(l))
  OBVIOUS
<1>1. BufSize(l) \in Nat \ {0}
  BY I2sAssumption DEF BufSize
<1>2. WrapSize(l) = BufSize(l)
  BY DEF WrapSize, BufSize
<1>3. FitInv /\ RingTypeOK /\ SlotsOK(l) /\ RemainingOK(l) /\ LaneInv(l)
  BY DEF FifoInv, RingInv, FitInv
<1>4. Available(l) \in 0 .. BufSize(l)
  BY <1>3 DEF LaneInv, InBuffer
<1>5. taskIndex[l] \in 0 .. BufSize(l) - 1 /\ driverIndex[l] \in 0 .. BufSize(l) - 1
  BY <1>1, <1>3 DEF SlotsOK, RingTypeOK
<1>6. First(l) \in 0 .. BufSize(l) - 1
  BY <1>1, <1>4, <1>5 DEF First, Turn
<1>7. count[l] \in Nat
  BY <1>3, CountsPositive DEF FitInv, WakeInv, WakeTypeOK
<1>8. Ready(l) = IF l = "recv" THEN Available(l) ELSE BufSize(l) - Available(l)
  BY DEF Ready, Free
<1>9. Ready(l) \in Nat
  BY <1>1, <1>4, <1>8
<1>10. pc[l] = "copy" => /\ Copied(l) = count[l] - remaining[l]
                         /\ remaining[l] \in 1 .. count[l] /\ count[l] <= Ready(l)
  BY <1>3 DEF Copied, RemainingOK, LaneInv, Fits
<1>11. pc[l] = "publish" => /\ Copied(l) = count[l] /\ count[l] \in FrameCounts
                            /\ count[l] <= Ready(l)
  <2> SUFFICES ASSUME pc[l] = "publish"
               PROVE  Copied(l) = count[l] /\ count[l] \in FrameCounts /\ count[l] <= Ready(l)
    OBVIOUS
  <2>1. remaining[l] = 0 /\ count[l] <= Ready(l)
    BY <1>3 DEF RemainingOK, LaneInv, Fits
  <2>2. count[l] \in FrameCounts
    BY <1>3 DEF FitInv, WakeInv, BlockedWhere
  <2>3. Copied(l) = count[l]
    BY <1>7, <2>1 DEF Copied
  <2> QED BY <2>1, <2>2, <2>3
<1>12. Copied(l) \in Nat /\ Copied(l) <= Ready(l)
  <2>1. CASE pc[l] \in {"copy", "publish"}
    BY <1>7, <1>9, <1>10, <1>11, <2>1
  <2>2. CASE pc[l] \notin {"copy", "publish"}
    BY <1>9, <2>2 DEF Copied
  <2> QED BY <2>1, <2>2
<1>13. driverIndex[l] = Slot(First(l), IF l = "recv" THEN Available(l) + 1 ELSE 1,
                             BufSize(l))
  <2>1. CASE l = "recv"
    BY <1>1, <1>4, <1>5, <2>1 DEF First, Slot, Turn
  <2>2. CASE l # "recv"
    BY <1>1, <1>5, <2>2 DEF First, Slot, Turn
  <2> QED BY <2>1, <2>2
<1> QED BY <1>1, <1>2, <1>4, <1>5, <1>6, <1>7, <1>8, <1>10, <1>11, <1>12, <1>13

\* The queue of the specification, slot by slot
LEMMA QueueIs ==
  ASSUME NEW l \in Lanes, BufSize(l) \in Nat \ {0}, Available(l) \in 0 .. BufSize(l),
         driverIndex[l] \in 0 .. BufSize(l) - 1
  PROVE  Queue(l) = [i \in 1 .. Available(l) |-> buf[l][Slot(First(l), i, BufSize(l))]]
<1>0. PICK B \in Nat \ {0} : B = BufSize(l)
  OBVIOUS
<1>1. PICK n \in 0 .. B, d \in 0 .. B - 1 : n = Available(l) /\ d = driverIndex[l]
  BY <1>0
<1>2. (d - n) % B = Turn(d - n, B)
  <2>1. d - n \in Int /\ -B <= d - n /\ d - n < 2 * B
    OBVIOUS
  <2> QED BY <2>1, Wrap
<1>3. First(l) = (IF l = "recv" THEN (d - n) % B ELSE d) /\ First(l) \in 0 .. B - 1
  BY <1>0, <1>1, <1>2 DEF First, Turn
<1>4. PICK f \in 0 .. B - 1 : f = First(l)
  BY <1>3
<1>5. ASSUME NEW i \in 1 .. n PROVE (f + i - 1) % B = Slot(f, i, B)
  <2>1. f + i - 1 \in Int /\ -B <= f + i - 1 /\ f + i - 1 < 2 * B
    OBVIOUS
  <2> QED BY <2>1, Wrap DEF Slot
<1>6. Queue(l) = [i \in 1 .. n |-> buf[l][(f + i - 1) % B]]
  BY <1>0, <1>1, <1>3, <1>4 DEF Queue
<1> QED BY <1>0, <1>1, <1>4, <1>5, <1>6

\* The queue of a lane after a step
LEMMA QueueNext ==
  \A l \in Lanes :
    Available(l)' \in 0 .. BufSize(l) /\ driverIndex'[l] \in 0 .. BufSize(l) - 1 =>
      Queue(l)' = [i \in 1 .. Available(l)' |-> buf'[l][Slot(First(l)', i, BufSize(l))]]
<1>1. \A l \in Lanes :
        Available(l) \in 0 .. BufSize(l) /\ driverIndex[l] \in 0 .. BufSize(l) - 1 =>
          Queue(l) = [i \in 1 .. Available(l) |-> buf[l][Slot(First(l), i, BufSize(l))]]
  <2>1. \A l \in Lanes : BufSize(l) \in Nat \ {0}
    BY I2sAssumption DEF BufSize
  <2> QED BY <2>1, QueueIs
<1>2. (\A l \in Lanes :
        Available(l) \in 0 .. BufSize(l) /\ driverIndex[l] \in 0 .. BufSize(l) - 1 =>
          Queue(l) = [i \in 1 .. Available(l) |-> buf[l][Slot(First(l), i, BufSize(l))]])'
  BY <1>1, PTL
<1>3. \A l \in Lanes : BufSize(l)' = BufSize(l)
  BY DEF BufSize
<1> QED BY <1>2, <1>3

\* What the FIFO of a lane is made of
LaneVars(l) ==
  <<buf[l], taskIndex[l], driverIndex[l], taskTotal[l], driverTotal[l], next[l],
    lost[l], delivered[l], got[l]>>

\* A lane whose frames, indices and totals stay as they are
LEMMA LaneQuiet ==
  ASSUME FifoInv, NEW m \in Lanes, UNCHANGED LaneVars(m), Copied(m)' = Copied(m)
  PROVE  /\ SlotsOK(m)' /\ IndexOK(m)' /\ ContentOK(m)'
         /\ UNCHANGED Fifo(m)!vars
<1>1. UNCHANGED <<buf[m], taskIndex[m], driverIndex[m], taskTotal[m], driverTotal[m],
                  next[m], lost[m], delivered[m], got[m]>>
  BY DEF LaneVars
<1>2. SlotsOK(m) /\ IndexOK(m) /\ ContentOK(m)
  BY DEF FifoInv, RingInv
<1>3. Available(m)' = Available(m)
  BY <1>1 DEF Available
<1>4. First(m)' = First(m) /\ BufSize(m)' = BufSize(m)
  BY <1>1, <1>3 DEF First, BufSize
<1>5. Queue(m)' = Queue(m)
  BY <1>1, <1>3, <1>4 DEF Queue
<1>6. SlotsOK(m)'
  BY <1>1, <1>2, <1>4 DEF SlotsOK
<1>7. IndexOK(m)'
  BY <1>1, <1>2, <1>3, <1>4 DEF IndexOK
<1>8. ContentOK(m)'
  BY <1>1, <1>2, <1>3, <1>4 DEF ContentOK
<1> QED BY <1>1, <1>5, <1>6, <1>7, <1>8 DEF Fifo!vars

LEMMA FifoInit == Init => FifoInv /\ \A l \in Lanes : Fifo(l)!Init
<1> SUFFICES ASSUME Init PROVE FifoInv /\ \A l \in Lanes : Fifo(l)!Init
  OBVIOUS
<1>1. FitInv
  BY FitInit
<1>2. RingTypeOK
  BY I2sAssumption DEF Init, RingTypeOK, Frame
<1>3. ASSUME NEW l \in Lanes PROVE RingInv(l) /\ Fifo(l)!Init
  <2>1. BufSize(l) \in Nat \ {0} /\ CounterModulus \in Nat \ {0}
    BY I2sAssumption DEF BufSize
  <2>2. /\ taskTotal[l] = 0 /\ driverTotal[l] = 0 /\ pc[l] = "idle" /\ got[l] = <<>>
        /\ taskIndex[l] = 0 /\ driverIndex[l] = 0
        /\ buf[l] = [i \in 0 .. BufSize(l) - 1 |-> 0]
        /\ next[l] = 0 /\ lost[l] = 0 /\ delivered[l] = <<>>
    BY DEF Init
  <2>3. Available(l) = 0
    BY <2>1, <2>2 DEF Available
  <2>4. Copied(l) = 0 /\ First(l) = 0
    BY <2>1, <2>2, <2>3 DEF Copied, First, Turn
  <2>5. SlotsOK(l)
    BY <2>1, <2>2, I2sAssumption DEF SlotsOK, Frame
  <2>6. RemainingOK(l)
    BY <2>2 DEF RemainingOK
  <2>7. IndexOK(l)
    BY <2>1, <2>2, <2>3, <2>4 DEF IndexOK, Slot, Turn
  <2>8. ContentOK(l)
    BY <2>2, <2>3, <2>4 DEF ContentOK
  <2>9. Queue(l) = <<>>
    <3>1. Queue(l) = [i \in 1 .. 0 |-> buf[l][Slot(0, i, BufSize(l))]]
      BY <2>1, <2>2, <2>3, <2>4, QueueIs
    <3> QED BY <3>1
  <2> QED BY <2>2, <2>5, <2>6, <2>7, <2>8, <2>9 DEF RingInv, Fifo!Init
<1> QED BY <1>1, <1>2, <1>3 DEF FifoInv

LEMMA RingTypeStep ==
  ASSUME FifoInv, FitInv', [Next]_vars
  PROVE  RingTypeOK'
<1>1. RingTypeOK /\ \A l \in Lanes : RemainingOK(l) /\ SlotsOK(l)
  BY DEF FifoInv, RingInv
<1>2. /\ count \in [Lanes -> Nat] /\ ValueModulus \in Nat \ {0}
      /\ pc \in [Lanes -> {"idle", "block", "wait", "copy", "publish"}]
  <2>1. WakeTypeOK
    BY DEF FifoInv, FitInv, WakeInv
  <2>2. FrameCounts \cup {0} \subseteq Nat
    BY CountsPositive
  <2>3. count \in [Lanes -> Nat]
    BY <2>1, <2>2 DEF WakeTypeOK
  <2> QED BY <2>1, <2>3, I2sAssumption DEF WakeTypeOK
<1>3. ASSUME NEW l \in Lanes, Call(l) \/ Block(l) \/ TakeSemaphore(l) \/ TimeOut(l)
      PROVE  RingTypeOK'
  <2>1. UNCHANGED <<buf, taskIndex, driverIndex, got, next, lost, delivered>>
    BY <1>3 DEF Call, Block, TakeSemaphore, TimeOut, ringVars, dataVars
  <2>2. remaining' \in [Lanes -> Nat]
    BY <1>1, <1>3, CountsPositive DEF Call, Block, TakeSemaphore, TimeOut, RingTypeOK
  <2> QED BY <1>1, <2>1, <2>2 DEF RingTypeOK
<1>4. ASSUME NEW l \in Lanes, CopyFrame(l) PROVE RingTypeOK'
  <2>1. UNCHANGED <<driverIndex, next, lost, delivered>>
    BY <1>4 DEF CopyFrame, dataVars
  <2>2. taskIndex' \in [Lanes -> Nat]
    BY <1>1, <1>4 DEF CopyFrame, RingTypeOK, Wrapped
  <2>3. remaining' \in [Lanes -> Nat]
    BY <1>1, <1>4 DEF CopyFrame, RingTypeOK, RemainingOK
  <2>4. buf' = [m \in Lanes |-> buf'[m]]
    BY <1>1, <1>4 DEF CopyFrame, RingTypeOK
  <2>5. got' \in [Lanes -> Seq(Frame)]
    <3>1. buf[l][taskIndex[l]] \in Frame
      BY <1>1, LaneFacts DEF SlotsOK
    <3>2. Append(got[l], buf[l][taskIndex[l]]) \in Seq(Frame)
      BY <1>1, <3>1 DEF RingTypeOK
    <3> QED BY <1>1, <1>4, <3>2 DEF CopyFrame, RingTypeOK
  <2> QED BY <1>1, <2>1, <2>2, <2>3, <2>4, <2>5 DEF RingTypeOK
<1>5. ASSUME NEW l \in Lanes, Publish(l) PROVE RingTypeOK'
  <2>1. UNCHANGED <<buf, taskIndex, driverIndex, remaining, lost>>
    BY <1>5 DEF Publish
  <2>2. got' \in [Lanes -> Seq(Frame)] /\ delivered' \in [Lanes -> Seq(Frame)]
    <3>1. <<>> \in Seq(Frame) /\ got[l] \in Seq(Frame)
      BY <1>1 DEF RingTypeOK
    <3>2. got' = [got EXCEPT ![l] = <<>>]
      BY <1>5 DEF Publish
    <3>3. delivered' = delivered \/ delivered' = [delivered EXCEPT ![l] = got[l]]
      BY <1>5 DEF Publish
    <3> QED BY <1>1, <3>1, <3>2, <3>3 DEF RingTypeOK
  <2>3. (next[l] + count[l]) % ValueModulus \in Frame
    BY <1>1, <1>2 DEF RingTypeOK, Frame
  <2>4. next' \in [Lanes -> Frame]
    BY <1>1, <1>5, <2>3 DEF Publish, RingTypeOK
  <2> QED BY <1>1, <2>1, <2>2, <2>4 DEF RingTypeOK
<1>6. ASSUME NEW l \in Lanes, Move(l) PROVE RingTypeOK'
  <2>1. UNCHANGED <<taskIndex, remaining, got>>
    BY <1>6 DEF Move, taskVars
  <2>2. driverIndex' \in [Lanes -> Nat]
    <3>1. driverIndex[l] \in Nat
      BY <1>1 DEF RingTypeOK
    <3>2. \E i \in Nat : driverIndex' = [driverIndex EXCEPT ![l] = i]
      <4>1. driverIndex = [driverIndex EXCEPT ![l] = driverIndex[l]]
        BY <1>1 DEF RingTypeOK
      <4>2. driverIndex' = [driverIndex EXCEPT ![l] =
              IF ~Moves(l) THEN driverIndex[l]
              ELSE IF driverIndex[l] + 1 >= BufSize(l) THEN 0 ELSE driverIndex[l] + 1]
        BY <1>6, <4>1 DEF Move
      <4>3. (IF ~Moves(l) THEN driverIndex[l]
             ELSE IF driverIndex[l] + 1 >= BufSize(l) THEN 0 ELSE driverIndex[l] + 1) \in Nat
        BY <3>1
      <4> QED BY <4>2, <4>3
    <3> QED BY <1>1, <3>2 DEF RingTypeOK
  <2>3. CASE l = "recv"
    <3>1. MoveIn(l)
      BY <1>6, <2>3 DEF Move
    <3>2. UNCHANGED delivered /\ buf' = [m \in Lanes |-> buf'[m]]
      BY <1>1, <3>1 DEF MoveIn, RingTypeOK
    <3>3. (next[l] + 1) % ValueModulus \in Frame
      BY <1>1, <1>2 DEF RingTypeOK, Frame
    <3>4. next' \in [Lanes -> Frame]
      BY <1>1, <3>1, <3>3 DEF MoveIn, RingTypeOK
    <3>5. lost' \in [Lanes -> {0, 1}]
      <4>1. lost' = lost \/ lost' = [lost EXCEPT ![l] = 1 - lost[l]]
        BY <3>1 DEF MoveIn
      <4>2. lost[l] \in {0, 1} /\ 1 - lost[l] \in {0, 1}
        BY <1>1 DEF RingTypeOK
      <4> QED BY <1>1, <4>1, <4>2 DEF RingTypeOK
    <3> QED BY <1>1, <2>1, <2>2, <3>2, <3>4, <3>5 DEF RingTypeOK
  <2>4. CASE l # "recv"
    <3>1. MoveOut(l)
      BY <1>6, <2>4 DEF Move
    <3>2. UNCHANGED <<buf, next, lost>>
      BY <3>1 DEF MoveOut
    <3>3. buf[l][driverIndex[l]] \in Frame
      BY <1>1, LaneFacts DEF SlotsOK
    <3>4. delivered' \in [Lanes -> Seq(Frame)]
      BY <1>1, <3>1, <3>3 DEF MoveOut, RingTypeOK
    <3> QED BY <1>1, <2>1, <2>2, <3>2, <3>4 DEF RingTypeOK
  <2> QED BY <2>3, <2>4
<1>7. CASE (\E l \in Lanes : Signal(l) \/ Isr(l)) \/ Flush \/ UNCHANGED vars
  <2>1. UNCHANGED <<ringVars, taskVars, dataVars>>
    BY <1>7 DEF Signal, Isr, Flush, vars
  <2> QED BY <1>1, <2>1 DEF RingTypeOK, ringVars, taskVars, dataVars
<1> QED BY <1>3, <1>4, <1>5, <1>6, <1>7 DEF Next, Thread, Task

\* What a step does to a lane: its indices and frames stay consistent, and it
\* is a step of the FIFO or none.
FifoStep(l) == RingInv(l)' /\ (Fifo(l)!Next \/ UNCHANGED Fifo(l)!vars)

LEMMA StillLane ==
  ASSUME FifoInv, NEW m \in Lanes,
         UNCHANGED <<LaneVars(m), pc[m], count[m], remaining[m]>>
  PROVE  FifoStep(m)
<1>1. UNCHANGED LaneVars(m) /\ Copied(m)' = Copied(m)
  BY DEF Copied
<1>2. RemainingOK(m)'
  BY DEF FifoInv, RingInv, RemainingOK
<1> QED BY <1>1, <1>2, LaneQuiet DEF FifoStep, RingInv

\* The steps of a lane leave the others alone.
LEMMA OtherLane ==
  ASSUME FifoInv, NEW l \in Lanes, NEW m \in Lanes, m # l,
         Call(l) \/ TimeOut(l) \/ Task(l) \/ Move(l)
  PROVE  FifoStep(m)
<1>1. /\ RingTypeOK /\ TotalTypeOK /\ WakeTypeOK
  BY DEF FifoInv, FitInv, WakeInv
<1>2. CASE Call(l) \/ TimeOut(l) \/ Block(l) \/ TakeSemaphore(l)
  <2>1. UNCHANGED LaneVars(m)
    BY <1>2 DEF Call, TimeOut, Block, TakeSemaphore, LaneVars, ringVars, dataVars
  <2>2. UNCHANGED <<pc[m], count[m], remaining[m]>>
    BY <1>1, <1>2 DEF Call, TimeOut, Block, TakeSemaphore, RingTypeOK, WakeTypeOK
  <2> QED BY <2>1, <2>2, StillLane
<1>3. CASE CopyFrame(l)
  <2>1. UNCHANGED <<driverIndex, taskTotal, driverTotal, dataVars, count>>
    BY <1>3 DEF CopyFrame
  <2>2. UNCHANGED <<taskIndex[m], remaining[m], pc[m]>>
    BY <1>1, <1>3 DEF CopyFrame, RingTypeOK, WakeTypeOK
  <2>3. UNCHANGED <<buf[m], got[m]>>
    BY <1>1, <1>3 DEF CopyFrame, RingTypeOK
  <2> QED BY <2>1, <2>2, <2>3, StillLane DEF LaneVars, dataVars
<1>4. CASE Publish(l)
  <2>1. UNCHANGED <<buf, taskIndex, driverIndex, driverTotal, remaining, lost>>
    BY <1>4 DEF Publish
  <2>2. UNCHANGED <<taskTotal[m], pc[m], count[m]>>
    BY <1>1, <1>4 DEF Publish, TotalTypeOK, WakeTypeOK
  <2>3. UNCHANGED <<next[m], delivered[m], got[m]>>
    BY <1>1, <1>4 DEF Publish, RingTypeOK
  <2> QED BY <2>1, <2>2, <2>3, StillLane DEF LaneVars
<1>5. CASE Move(l)
  <2>1. UNCHANGED <<taskIndex, taskTotal, taskVars>>
    BY <1>5 DEF Move
  <2>2. UNCHANGED <<driverIndex[m], driverTotal[m]>>
    BY <1>1, <1>5 DEF Move, RingTypeOK, TotalTypeOK
  <2>3. UNCHANGED <<buf[m], next[m], lost[m], delivered[m]>>
    <3>1. CASE l = "recv"
      BY <1>1, <1>5, <3>1 DEF Move, MoveIn, RingTypeOK
    <3>2. CASE l # "recv"
      BY <1>1, <1>5, <3>2 DEF Move, MoveOut, RingTypeOK
    <3> QED BY <3>1, <3>2
  <2> QED BY <2>1, <2>2, <2>3, StillLane DEF LaneVars, taskVars
<1> QED BY <1>2, <1>3, <1>4, <1>5 DEF Task

\* A call that begins, waits or gives up moves nothing.
LEMMA WaitingStep ==
  ASSUME FifoInv, NEW l \in Lanes,
         Call(l) \/ TimeOut(l) \/ Block(l) \/ TakeSemaphore(l)
  PROVE  FifoStep(l)
<1>1. RingTypeOK /\ WakeTypeOK /\ RemainingOK(l)
  BY DEF FifoInv, FitInv, WakeInv, RingInv
<1>2. UNCHANGED LaneVars(l)
  BY DEF Call, TimeOut, Block, TakeSemaphore, LaneVars, ringVars, dataVars
<1>3. /\ pc[l] \notin {"copy", "publish"} /\ pc'[l] # "publish"
      /\ pc'[l] \in {"block", "wait", "copy"} => remaining'[l] = count'[l]
  BY <1>1 DEF Call, TimeOut, Block, TakeSemaphore, RingTypeOK, WakeTypeOK, RemainingOK
<1>4. pc'[l] = "copy" => count'[l] \in Nat \ {0}
  <2>1. ASSUME pc'[l] = "copy" PROVE count'[l] \in FrameCounts
    BY <1>1, <2>1 DEF Call, TimeOut, Block, TakeSemaphore, WakeTypeOK,
                      FifoInv, FitInv, WakeInv, BlockedWhere
  <2> QED BY <2>1, CountsPositive
<1>5. Copied(l) = 0 /\ Copied(l)' = 0
  BY <1>3, <1>4 DEF Copied
<1>6. RemainingOK(l)'
  BY <1>3, <1>4 DEF RemainingOK
<1> QED BY <1>2, <1>5, <1>6, LaneQuiet DEF FifoStep, RingInv

\* Frames are numbered modulo the bound.
LEMMA FrameNumber == \A x \in Int : x % ValueModulus \in Frame
  BY I2sAssumption DEF Frame

LEMMA NextNumber ==
  FifoInv => \A l \in Lanes : next[l] \in Nat /\ next[l] < ValueModulus
<1> SUFFICES ASSUME FifoInv, NEW l \in Lanes PROVE next[l] \in Nat /\ next[l] < ValueModulus
  OBVIOUS
<1>1. next[l] \in 0 .. ValueModulus - 1
  BY DEF FifoInv, RingTypeOK, Frame
<1>2. ValueModulus \in Nat
  BY I2sAssumption
<1> QED BY <1>1, <1>2

\* A copied frame is one more of the call's; the queue is as it was.
LEMMA CopyStep ==
  ASSUME FifoInv, RingTypeOK', NEW l \in Lanes, CopyFrame(l)
  PROVE  FifoStep(l)
<1>1. RingTypeOK /\ WakeTypeOK /\ SlotsOK(l) /\ IndexOK(l) /\ ContentOK(l)
  BY DEF FifoInv, FitInv, WakeInv, RingInv
<1>2. PICK B \in Nat \ {0} : B = BufSize(l)
  BY LaneFacts
<1>3. PICK f \in 0 .. B - 1, n \in 0 .. B, c \in Nat :
        f = First(l) /\ n = Available(l) /\ c = Copied(l)
  BY <1>2, LaneFacts
<1>4. /\ pc[l] = "copy" /\ count'[l] = count[l] /\ c = count[l] - remaining[l]
      /\ count[l] \in Nat /\ remaining[l] \in 1 .. count[l]
      /\ c < IF l = "recv" THEN n ELSE B - n
      /\ remaining'[l] = remaining[l] - 1
      /\ pc'[l] = IF remaining[l] = 1 THEN "publish" ELSE "copy"
  <2>1. /\ pc[l] = "copy" /\ count'[l] = count[l] /\ remaining'[l] = remaining[l] - 1
        /\ pc'[l] = IF remaining[l] = 1 THEN "publish" ELSE "copy"
    BY <1>1 DEF CopyFrame, RingTypeOK, WakeTypeOK
  <2>2. /\ c = count[l] - remaining[l]
        /\ count[l] \in Nat /\ remaining[l] \in 1 .. count[l]
        /\ count[l] <= IF l = "recv" THEN n ELSE B - n
    BY <1>2, <1>3, <2>1, LaneFacts
  <2> QED BY <2>1, <2>2
<1>5. UNCHANGED <<driverIndex[l], taskTotal[l], driverTotal[l], next[l], lost[l], delivered[l]>>
  BY DEF CopyFrame, dataVars
<1>6. Available(l)' = n /\ First(l)' = f /\ BufSize(l)' = B
  BY <1>2, <1>3, <1>5 DEF Available, First, BufSize
<1>7. Copied(l)' = c + 1 /\ RemainingOK(l)'
  BY <1>4 DEF Copied, RemainingOK
<1>8. PICK k \in 1 .. B : k = (IF l = "recv" THEN 0 ELSE n) + c + 1
  BY <1>3, <1>4
<1>9. taskIndex[l] = Slot(f, k, B)
  BY <1>1, <1>2, <1>3, <1>8 DEF IndexOK
<1>10. taskIndex'[l] = Slot(f, k + 1, B)
  <2>1. taskIndex'[l] = IF Slot(f, k, B) + 1 >= B THEN 0 ELSE Slot(f, k, B) + 1
    BY <1>1, <1>2, <1>9, LaneFacts DEF CopyFrame, RingTypeOK, Wrapped
  <2> QED BY <2>1, <1>2, SlotFacts
<1>11. taskIndex'[l] < B /\ Slot(f, k, B) \in 0 .. B - 1
  BY <1>10, SlotFacts
<1>12. IndexOK(l)'
  <2>1. k + 1 = (IF l = "recv" THEN 0 ELSE n) + (c + 1) + 1
    BY <1>8
  <2> QED BY <1>6, <1>7, <1>10, <2>1 DEF IndexOK
<1>13. CASE l = "recv"
  <2>1. buf'[l] = buf[l] /\ got'[l] = Append(got[l], buf[l][Slot(f, k, B)])
    BY <1>1, <1>9, <1>13 DEF CopyFrame, RingTypeOK
  <2>2. k = c + 1 /\ got[l] = [i \in 1 .. c |-> buf[l][Slot(f, i, B)]]
    BY <1>1, <1>2, <1>3, <1>8, <1>13 DEF ContentOK
  <2>3. got'[l] = [i \in 1 .. c + 1 |-> buf[l][Slot(f, i, B)]]
    BY <2>1, <2>2
  <2>4. ContentOK(l)'
    BY <1>6, <1>7, <1>13, <2>1, <2>3 DEF ContentOK
  <2>5. SlotsOK(l)'
    BY <1>1, <1>2, <1>5, <1>6, <1>11, <2>1 DEF SlotsOK
  <2>6. Queue(l)' = Queue(l)
    BY <1>5, <1>6, <1>2, <1>3, <2>1 DEF Queue
  <2> QED BY <1>5, <1>7, <1>12, <2>4, <2>5, <2>6 DEF FifoStep, RingInv, Fifo!vars
<1>14. CASE l # "recv"
  <2>1. got'[l] = got[l] /\ got[l] = <<>>
    BY <1>1, <1>14 DEF CopyFrame, RingTypeOK, ContentOK
  <2>2. PICK v : v = (next[l] + c) % ValueModulus
    OBVIOUS
  <2>3. buf'[l] = [buf[l] EXCEPT ![Slot(f, k, B)] = v]
    <3>1. next[l] + count[l] - remaining[l] = next[l] + c
      BY <1>4, NextNumber
    <3> QED BY <1>1, <1>9, <1>14, <2>2, <3>1 DEF CopyFrame, RingTypeOK
  <2>4. v \in Frame
    BY <2>2, NextNumber, FrameNumber
  <2>5. SlotsOK(l)'
    BY <1>1, <1>2, <1>5, <1>6, <1>11, <2>3, <2>4 DEF SlotsOK
  <2>6. \A i \in 1 .. k - 1 : buf'[l][Slot(f, i, B)] = buf[l][Slot(f, i, B)]
    <3>1. ASSUME NEW i \in 1 .. k - 1
          PROVE  Slot(f, i, B) # Slot(f, k, B) /\ Slot(f, i, B) \in 0 .. B - 1
      <4>1. i \in 1 .. B /\ i # k
        OBVIOUS
      <4> QED BY <4>1, SlotFacts
    <3> QED BY <1>1, <1>2, <2>3, <3>1 DEF SlotsOK
  <2>7. buf'[l][Slot(f, k, B)] = v
    BY <1>1, <1>2, <1>11, <2>3 DEF SlotsOK
  <2>8. ContentOK(l)'
    <3>1. ASSUME NEW i \in 1 .. c + 1
          PROVE  buf'[l][Slot(f, n + i, B)] = (next[l] + i - 1) % ValueModulus
      <4>1. CASE i = c + 1
        <5>1. n + i = k /\ next[l] + i - 1 = next[l] + c
          BY <1>8, <1>14, <4>1, NextNumber
        <5> QED BY <2>2, <2>7, <5>1
      <4>2. CASE i # c + 1
        <5>1. i \in 1 .. c /\ n + i \in 1 .. k - 1
          BY <1>8, <1>14, <4>2
        <5> QED BY <1>1, <1>2, <1>3, <1>14, <2>6, <5>1 DEF ContentOK
      <4> QED BY <4>1, <4>2
    <3> QED BY <1>5, <1>6, <1>7, <1>14, <2>1, <3>1 DEF ContentOK
  <2>9. Queue(l)' = Queue(l)
    <3>1. Queue(l) = [i \in 1 .. n |-> buf[l][Slot(f, i, B)]]
      BY <1>2, <1>3, LaneFacts, QueueIs
    <3>2. Queue(l)' = [i \in 1 .. n |-> buf'[l][Slot(f, i, B)]]
      BY <1>2, <1>3, <1>5, <1>6, LaneFacts, QueueNext
    <3>3. \A i \in 1 .. n : i \in 1 .. k - 1
      BY <1>8, <1>14
    <3> QED BY <2>6, <3>1, <3>2, <3>3
  <2> QED BY <1>5, <1>7, <1>12, <2>5, <2>8, <2>9 DEF FifoStep, RingInv, Fifo!vars
<1> QED BY <1>13, <1>14

\* A published call takes the first frames of the queue, or puts its own
\* behind the last.
LEMMA PublishStep ==
  ASSUME FifoInv, FitInv', RingTypeOK', NEW l \in Lanes, Publish(l)
  PROVE  FifoStep(l)
<1>1. /\ RingTypeOK /\ WakeTypeOK /\ TotalTypeOK /\ SlotsOK(l) /\ IndexOK(l)
      /\ ContentOK(l) /\ FitInv
  BY DEF FifoInv, FitInv, WakeInv, RingInv
<1>2. PICK B \in Nat \ {0} : B = BufSize(l)
  BY LaneFacts
<1>3. PICK f \in 0 .. B - 1, n \in 0 .. B, c \in Nat :
        f = First(l) /\ n = Available(l) /\ c = count[l]
  BY <1>2, LaneFacts
<1>4. pc[l] = "publish" /\ pc'[l] = "idle"
  BY <1>1 DEF Publish, WakeTypeOK
<1>5. Copied(l) = c /\ Copied(l)' = 0 /\ c \in FrameCounts /\ c <= IF l = "recv" THEN n ELSE B - n
  BY <1>2, <1>3, <1>4, LaneFacts DEF Copied
<1>6. UNCHANGED <<buf[l], taskIndex[l], driverIndex[l], driverTotal[l], lost[l]>>
  BY DEF Publish
<1>7. /\ BufSize(l)' = B
      /\ Available(l)' = IF l = "recv" THEN n - c ELSE n + c
  BY <1>1, <1>2, <1>3, PublishedAvailable DEF BufSize
<1>8. RemainingOK(l)' /\ SlotsOK(l)'
  BY <1>1, <1>4, <1>6, <1>2, <1>7 DEF RemainingOK, SlotsOK
<1>9. got'[l] = <<>>
  BY <1>1 DEF Publish, RingTypeOK
<1>10. taskIndex[l] = Slot(f, (IF l = "recv" THEN 0 ELSE n) + c + 1, B)
  BY <1>1, <1>2, <1>3, <1>5 DEF IndexOK
<1>11. Available(l)' \in 0 .. B
  BY <1>3, <1>5, <1>7
<1>12. driverIndex[l] \in 0 .. B - 1
  BY <1>2, LaneFacts
<1>13. Queue(l) = [i \in 1 .. n |-> buf[l][Slot(f, i, B)]]
  BY <1>2, <1>3, LaneFacts, QueueIs
<1>14. Queue(l)' = [i \in 1 .. Available(l)' |-> buf[l][Slot(First(l)', i, B)]]
  BY <1>2, <1>6, <1>11, <1>12, QueueNext
<1>15. CASE l = "recv"
  <2>1. First(l)' = Slot(f, c + 1, B)
    <3>1. f = Turn(driverIndex[l] - n, B)
      BY <1>2, <1>3, <1>15 DEF First
    <3>2. First(l)' = Turn(driverIndex[l] - (n - c), B)
      BY <1>6, <1>7, <1>15 DEF First
    <3>3. c <= n
      BY <1>5, <1>15
    <3> QED BY <1>12, <3>1, <3>2, <3>3 DEF Slot, Turn
  <2>2. taskIndex'[l] = First(l)' /\ First(l)' \in 0 .. B - 1
    <3>1. c + 1 \in 1 .. B + 1 /\ 0 + c + 1 = c + 1
      BY <1>5, <1>15
    <3>2. Slot(f, c + 1, B) \in 0 .. B - 1
      BY <3>1, SlotFacts
    <3> QED BY <1>6, <1>10, <1>15, <2>1, <3>1, <3>2
  <2>3. IndexOK(l)'
    BY <1>5, <1>7, <1>15, <2>2, SlotFacts DEF IndexOK
  <2>4. ContentOK(l)'
    BY <1>5, <1>9, <1>15 DEF ContentOK
  <2>5. next'[l] = next[l] /\ delivered'[l] = got[l]
    BY <1>1, <1>15 DEF Publish, RingTypeOK
  <2>6. got[l] = [i \in 1 .. c |-> buf[l][Slot(f, i, B)]]
    BY <1>1, <1>2, <1>3, <1>5, <1>15 DEF ContentOK
  <2>7. PICK q : q = Queue(l)
    OBVIOUS
  <2>8. PICK b : b = [i \in 1 .. n |-> buf[l][Slot(f, i, B)]]
    OBVIOUS
  <2>9. q = b /\ Len(q) = n /\ c <= n
    <3>1. DOMAIN b = 1 .. n /\ b \in Seq({b[i] : i \in 1 .. n})
      BY <2>8
    <3>2. Len(b) = n
      BY <2>8, <3>1
    <3> QED BY <1>5, <1>13, <1>15, <2>7, <2>8, <3>2
  <2>10. delivered'[l] = SubSeq(q, 1, c)
    <3>1. SubSeq(q, 1, c) = [i \in 1 .. c |-> q[i]]
      BY <2>8, <2>9
    <3>2. \A i \in 1 .. c : q[i] = buf[l][Slot(f, i, B)]
      BY <2>8, <2>9
    <3> QED BY <2>5, <2>6, <3>1, <3>2
  <2>11. Queue(l)' = SubSeq(q, c + 1, Len(q))
    <3>1. SubSeq(q, c + 1, Len(q)) = [i \in 1 .. n - c |-> q[c + i]]
      BY <2>8, <2>9
    <3>2. ASSUME NEW i \in 1 .. n - c
          PROVE  q[c + i] = buf[l][Slot(Slot(f, c + 1, B), i, B)]
      <4>1. c \in 0 .. B /\ i \in 1 .. B + 1 /\ c + i <= B + 1 /\ c + i \in 1 .. n
        BY <2>9
      <4>2. Slot(Slot(f, c + 1, B), i, B) = Slot(f, c + i, B)
        BY <4>1, SlotFacts
      <4>3. q[c + i] = buf[l][Slot(f, c + i, B)]
        BY <2>8, <2>9, <4>1
      <4> QED BY <4>2, <4>3
    <3> QED BY <1>7, <1>14, <1>15, <2>1, <3>1, <3>2
  <2>12. Fifo(l)!Take(c)
    BY <1>6, <2>5, <2>7, <2>9, <2>10, <2>11 DEF Fifo!Take
  <2> QED BY <1>5, <1>8, <1>15, <2>3, <2>4, <2>12 DEF FifoStep, RingInv, Fifo!Next
<1>16. CASE l # "recv"
  <2>1. First(l)' = f /\ Available(l)' = n + c /\ n + c <= B
    BY <1>3, <1>5, <1>6, <1>7, <1>16 DEF First
  <2>2. IndexOK(l)'
    <3>1. (n + c) + 0 + 1 = n + c + 1
      OBVIOUS
    <3> QED BY <1>5, <1>6, <1>7, <1>10, <1>16, <2>1, <3>1 DEF IndexOK
  <2>3. ContentOK(l)'
    BY <1>5, <1>9, <1>16 DEF ContentOK
  <2>4. next'[l] = (next[l] + c) % ValueModulus /\ delivered'[l] = delivered[l]
    BY <1>1, <1>3, <1>16 DEF Publish, RingTypeOK
  <2>5. PICK b : b = [i \in 1 .. n |-> buf[l][Slot(f, i, B)]]
    OBVIOUS
  <2>6. PICK e : e = [i \in 1 .. c |-> (next[l] + i - 1) % ValueModulus]
    OBVIOUS
  <2>7. Len(b) = n /\ Len(e) = c
    BY <2>5, <2>6
  <2>8. b \o e = [i \in 1 .. n + c |-> IF i <= n THEN b[i] ELSE e[i - n]]
    BY <2>5, <2>6, <2>7
  <2>9. ASSUME NEW i \in 1 .. n + c
        PROVE  buf[l][Slot(f, i, B)] = IF i <= n THEN b[i] ELSE e[i - n]
    <3>1. CASE i <= n
      BY <2>5, <3>1
    <3>2. CASE ~(i <= n)
      <4>1. i - n \in 1 .. c /\ n + (i - n) = i
        BY <3>2
      <4>2. buf[l][Slot(f, n + (i - n), B)] = (next[l] + (i - n) - 1) % ValueModulus
        BY <1>1, <1>2, <1>3, <1>5, <1>16, <4>1 DEF ContentOK
      <4> QED BY <2>6, <3>2, <4>1, <4>2
    <3> QED BY <3>1, <3>2
  <2>10. Queue(l)' = b \o e
    BY <1>14, <2>1, <2>8, <2>9
  <2>11. Queue(l) = b /\ Fifo(l)!Frames(c) = e
    BY <1>13, <2>5, <2>6 DEF Fifo!Frames
  <2>12. Fifo(l)!Put(c)
    BY <1>2, <1>6, <2>1, <2>4, <2>7, <2>10, <2>11 DEF Fifo!Put
  <2> QED BY <1>5, <1>8, <1>16, <2>2, <2>3, <2>12 DEF FifoStep, RingInv, Fifo!Next
<1> QED BY <1>15, <1>16

\* The I/O thread puts the frame that comes in, or loses it when the queue is
\* full; it takes the frame that goes out, if there is one.
LEMMA MoveStep ==
  ASSUME FifoInv, FitInv', RingTypeOK', NEW l \in Lanes, Move(l)
  PROVE  FifoStep(l)
<1>1. /\ RingTypeOK /\ TotalTypeOK /\ SlotsOK(l) /\ IndexOK(l) /\ ContentOK(l) /\ FitInv
  BY DEF FifoInv, FitInv, RingInv
<1>2. PICK B \in Nat \ {0} : B = BufSize(l)
  BY LaneFacts
<1>3. PICK f \in 0 .. B - 1, n \in 0 .. B, c \in Nat :
        f = First(l) /\ n = Available(l) /\ c = Copied(l)
  BY <1>2, LaneFacts
<1>4. c <= IF l = "recv" THEN n ELSE B - n
  BY <1>2, <1>3, LaneFacts
<1>5. UNCHANGED <<taskIndex[l], taskTotal[l], pc[l], count[l], remaining[l], got[l]>>
  BY DEF Move, taskVars
<1>6. Copied(l)' = c /\ RemainingOK(l)' /\ BufSize(l)' = B
  BY <1>2, <1>3, <1>5 DEF Copied, RemainingOK, BufSize, FifoInv, RingInv
<1>7. taskIndex[l] = Slot(f, (IF l = "recv" THEN 0 ELSE n) + c + 1, B)
  BY <1>1, <1>2, <1>3 DEF IndexOK
<1>8. driverIndex[l] = Slot(f, IF l = "recv" THEN n + 1 ELSE 1, B)
  BY <1>2, <1>3, LaneFacts
<1>9. driverIndex[l] \in 0 .. B - 1 /\ taskIndex[l] \in 0 .. B - 1
  BY <1>2, LaneFacts
<1>10. Queue(l) = [i \in 1 .. n |-> buf[l][Slot(f, i, B)]]
  BY <1>2, <1>3, LaneFacts, QueueIs
<1>11. PICK b : b = [i \in 1 .. n |-> buf[l][Slot(f, i, B)]]
  OBVIOUS
<1>12. Queue(l) = b /\ Len(b) = n
  <2>1. Len(b) = n
    BY <1>11
  <2> QED BY <1>10, <1>11, <2>1
<1>13. ASSUME Moves(l)
       PROVE  /\ driverIndex'[l] = IF driverIndex[l] + 1 >= B THEN 0 ELSE driverIndex[l] + 1
              /\ driverIndex'[l] \in 0 .. B - 1
              /\ Available(l)' = IF l = "recv" THEN n + 1 ELSE n - 1
  <2>1. driverIndex'[l] = IF driverIndex[l] + 1 >= B THEN 0 ELSE driverIndex[l] + 1
    BY <1>1, <1>2, <1>13 DEF Move, RingTypeOK
  <2> QED BY <1>1, <1>3, <1>9, <1>13, <2>1, MovedAvailable
<1>14. CASE l = "recv" /\ Moves(l)
  <2>1. n < B
    BY <1>2, <1>3, <1>14 DEF Moves, Free
  <2>2. Available(l)' = n + 1 /\ n + 1 \in 0 .. B /\ n + 1 \in 1 .. B
    BY <1>13, <1>14, <2>1
  <2>3. First(l)' = f
    <3>1. f = Turn(driverIndex[l] - n, B)
      BY <1>2, <1>3, <1>14 DEF First
    <3>2. First(l)' = Turn(driverIndex'[l] - (n + 1), B)
      BY <1>6, <1>14, <2>2 DEF First
    <3> QED BY <1>9, <1>13, <1>14, <2>1, <3>1, <3>2 DEF Turn
  <2>4. driverIndex[l] = Slot(f, n + 1, B)
    BY <1>8, <1>14
  <2>5. /\ buf'[l] = [buf[l] EXCEPT ![Slot(f, n + 1, B)] = next[l]]
        /\ next'[l] = (next[l] + 1) % ValueModulus
        /\ UNCHANGED <<lost[l], delivered[l]>>
    BY <1>1, <1>14, <2>4 DEF Move, MoveIn, Moves, RingTypeOK
  <2>6. next[l] \in Frame
    BY <1>1 DEF RingTypeOK
  <2>7. SlotsOK(l)'
    <3>1. buf'[l] \in [0 .. B - 1 -> Frame]
      BY <1>1, <1>2, <2>5, <2>6 DEF SlotsOK
    <3>2. taskIndex'[l] < B /\ driverIndex'[l] < B
      BY <1>5, <1>9, <1>13, <1>14
    <3> QED BY <1>6, <3>1, <3>2 DEF SlotsOK
  <2>8. IndexOK(l)'
    BY <1>5, <1>6, <1>7, <1>14, <2>3 DEF IndexOK
  <2>9. \A i \in 1 .. n : buf'[l][Slot(f, i, B)] = buf[l][Slot(f, i, B)]
    <3>1. ASSUME NEW i \in 1 .. n
          PROVE  Slot(f, i, B) # Slot(f, n + 1, B) /\ Slot(f, i, B) \in 0 .. B - 1
      <4>1. i \in 1 .. B /\ i \in 1 .. B + 1 /\ i # n + 1
        OBVIOUS
      <4> QED BY <4>1, <2>2, SlotFacts
    <3> QED BY <1>1, <1>2, <2>5, <3>1 DEF SlotsOK
  <2>10. buf'[l][Slot(f, n + 1, B)] = next[l]
    BY <1>1, <1>2, <1>9, <2>4, <2>5 DEF SlotsOK
  <2>11. ContentOK(l)'
    <3>1. got[l] = [i \in 1 .. c |-> buf[l][Slot(f, i, B)]]
      BY <1>1, <1>2, <1>3, <1>14 DEF ContentOK
    <3>2. \A i \in 1 .. c : i \in 1 .. n
      BY <1>4, <1>14
    <3>3. got[l] = [i \in 1 .. c |-> buf'[l][Slot(f, i, B)]]
      BY <2>9, <3>1, <3>2
    <3> QED BY <1>5, <1>6, <1>14, <2>3, <3>3 DEF ContentOK
  <2>12. Queue(l)' = [i \in 1 .. n + 1 |-> buf'[l][Slot(f, i, B)]]
    BY <1>2, <1>13, <1>14, <2>2, <2>3, QueueNext
  <2>13. PICK e : e = <<next[l]>>
    OBVIOUS
  <2>14. b \o e = [i \in 1 .. n + 1 |-> IF i <= n THEN b[i] ELSE next[l]]
    <3>1. Len(e) = 1 /\ e[1] = next[l]
      BY <2>13
    <3>2. b \o e = [i \in 1 .. n + 1 |-> IF i <= n THEN b[i] ELSE e[i - n]]
      BY <1>11, <1>12, <2>13, <3>1
    <3>3. \A i \in 1 .. n + 1 : ~(i <= n) => i - n = 1
      OBVIOUS
    <3> QED BY <3>1, <3>2, <3>3
  <2>15. Queue(l)' = b \o e
    <3>1. ASSUME NEW i \in 1 .. n + 1
          PROVE  buf'[l][Slot(f, i, B)] = IF i <= n THEN b[i] ELSE next[l]
      <4>1. CASE i <= n
        BY <1>11, <2>9, <4>1
      <4>2. CASE ~(i <= n)
        <5>1. i = n + 1
          BY <4>2
        <5> QED BY <2>10, <4>2, <5>1
      <4> QED BY <4>1, <4>2
    <3> QED BY <2>12, <2>14, <3>1
  <2>16. Fifo(l)!Frames(1) = e
    <3>1. next[l] % ValueModulus = next[l] /\ next[l] + 1 - 1 = next[l]
      BY NextNumber, I2sAssumption
    <3>2. Fifo(l)!Frames(1) = [i \in 1 .. 1 |-> next[l]]
      BY <3>1 DEF Fifo!Frames
    <3> QED BY <2>13, <3>2
  <2>17. Fifo(l)!Put(1)
    BY <1>2, <1>12, <2>1, <2>5, <2>15, <2>16 DEF Fifo!Put
  <2> QED BY <1>6, <1>14, <2>7, <2>8, <2>11, <2>17 DEF FifoStep, RingInv, Fifo!Next
<1>15. CASE l = "recv" /\ ~Moves(l)
  <2>1. n = B
    BY <1>2, <1>3, <1>15 DEF Moves, Free
  <2>2. /\ UNCHANGED <<buf[l], driverIndex[l], driverTotal[l], next[l], delivered[l]>>
        /\ lost'[l] = 1 - lost[l]
    BY <1>1, <1>15 DEF Move, MoveIn, Moves, RingTypeOK
  <2>3. Available(l)' = n /\ First(l)' = f
    BY <1>2, <1>3, <1>5, <1>6, <2>2 DEF Available, First
  <2>4. Queue(l)' = Queue(l)
    BY <1>2, <1>3, <1>6, <2>2, <2>3 DEF Queue
  <2>5. SlotsOK(l)' /\ IndexOK(l)' /\ ContentOK(l)'
    BY <1>1, <1>2, <1>3, <1>5, <1>6, <2>2, <2>3 DEF SlotsOK, IndexOK, ContentOK
  <2>6. Fifo(l)!Lose
    BY <1>2, <1>12, <1>15, <2>1, <2>2, <2>4 DEF Fifo!Lose
  <2> QED BY <1>6, <2>5, <2>6 DEF FifoStep, RingInv, Fifo!Next
<1>16. CASE l # "recv" /\ Moves(l)
  <2>1. n >= 1 /\ Available(l)' = n - 1 /\ n - 1 \in 0 .. B
    BY <1>3, <1>13, <1>16 DEF Moves
  <2>2. driverIndex[l] = f
    BY <1>8, <1>16, SlotFacts
  <2>3. First(l)' = Slot(f, 2, B) /\ Slot(f, 2, B) \in 0 .. B - 1
    BY <1>13, <1>16, <2>2 DEF First, Slot, Turn
  <2>4. /\ UNCHANGED <<buf[l], next[l], lost[l]>>
        /\ delivered'[l] = <<buf[l][f]>>
    BY <1>1, <1>3, <1>16, <2>1, <2>2 DEF Move, MoveOut, RingTypeOK
  <2>5. SlotsOK(l)'
    BY <1>1, <1>2, <1>5, <1>6, <1>9, <1>13, <1>16, <2>4 DEF SlotsOK
  <2>6. \A i \in 1 .. B : Slot(Slot(f, 2, B), i, B) = Slot(f, i + 1, B)
    BY DEF Slot, Turn
  <2>7. IndexOK(l)'
    <3>1. n + c \in 1 .. B /\ n + c = (n - 1) + c + 1
      BY <1>4, <1>16, <2>1
    <3>2. taskIndex'[l] = Slot(Slot(f, 2, B), n + c, B)
      BY <1>5, <1>7, <1>16, <2>6, <3>1
    <3> QED BY <1>6, <1>16, <2>1, <2>3, <3>1, <3>2 DEF IndexOK
  <2>8. ContentOK(l)'
    <3>1. ASSUME NEW i \in 1 .. c
          PROVE  buf[l][Slot(Slot(f, 2, B), (n - 1) + i, B)]
                   = (next[l] + i - 1) % ValueModulus
      <4>1. (n - 1) + i \in 1 .. B /\ ((n - 1) + i) + 1 = n + i
        BY <1>4, <1>16, <2>1
      <4>2. Slot(Slot(f, 2, B), (n - 1) + i, B) = Slot(f, n + i, B)
        BY <2>6, <4>1
      <4>3. buf[l][Slot(f, n + i, B)] = (next[l] + i - 1) % ValueModulus
        BY <1>1, <1>2, <1>3, <1>16 DEF ContentOK
      <4> QED BY <4>2, <4>3
    <3>2. got'[l] = <<>>
      BY <1>1, <1>5, <1>16 DEF ContentOK
    <3> QED BY <1>6, <1>16, <2>1, <2>3, <2>4, <3>1, <3>2 DEF ContentOK
  <2>9. Queue(l)' = [i \in 1 .. n - 1 |-> buf[l][Slot(Slot(f, 2, B), i, B)]]
    BY <1>2, <1>13, <1>16, <2>1, <2>3, <2>4, QueueNext
  <2>10. Queue(l)' = SubSeq(b, 2, Len(b))
    <3>1. SubSeq(b, 2, Len(b)) = [i \in 1 .. n - 1 |-> b[i + 1]]
      BY <1>11, <1>12, <2>1
    <3>2. ASSUME NEW i \in 1 .. n - 1
          PROVE  b[i + 1] = buf[l][Slot(Slot(f, 2, B), i, B)]
      <4>1. i \in 1 .. B /\ i + 1 \in 1 .. n
        BY <2>1
      <4> QED BY <1>11, <2>6, <4>1
    <3> QED BY <2>9, <3>1, <3>2
  <2>11. delivered'[l] = SubSeq(b, 1, 1)
    <3>1. 1 \in 1 .. n /\ Slot(f, 1, B) = f
      BY <2>1, SlotFacts
    <3>2. b[1] = buf[l][f]
      BY <1>11, <3>1
    <3>3. SubSeq(b, 1, 1) = [i \in 1 .. 1 |-> b[i]]
      BY <1>11, <1>12, <2>1
    <3>4. [i \in 1 .. 1 |-> b[i]] = <<b[1]>>
      OBVIOUS
    <3> QED BY <2>4, <3>2, <3>3, <3>4
  <2>12. Fifo(l)!Take(1)
    BY <1>12, <2>1, <2>4, <2>10, <2>11 DEF Fifo!Take
  <2> QED BY <1>6, <1>16, <2>5, <2>7, <2>8, <2>12 DEF FifoStep, RingInv, Fifo!Next
<1>17. CASE l # "recv" /\ ~Moves(l)
  <2>1. UNCHANGED <<driverIndex, driverTotal, buf, next, lost>>
    BY <1>17 DEF Move, MoveOut
  <2>2. delivered' = delivered
    BY <1>17 DEF Move, MoveOut, Moves
  <2> QED BY <1>5, <2>1, <2>2, StillLane DEF LaneVars
<1> QED BY <1>14, <1>15, <1>16, <1>17

LEMMA EveryLaneSteps ==
  CallersAgree => (FifoInv /\ [Next]_vars => FifoInv' /\ \A l \in Lanes : FifoStep(l))
<1> SUFFICES ASSUME CallersAgree, FifoInv, [Next]_vars
             PROVE  FifoInv' /\ \A l \in Lanes : FifoStep(l)
  OBVIOUS
<1>1. FitInv'
  BY FitStep DEF FifoInv
<1>2. RingTypeOK'
  BY <1>1, RingTypeStep
<1>3. ASSUME NEW l \in Lanes, Call(l) \/ TimeOut(l) \/ Task(l) \/ Move(l)
      PROVE  \A m \in Lanes : FifoStep(m)
  <2>1. FifoStep(l)
    BY <1>1, <1>2, <1>3, WaitingStep, CopyStep, PublishStep, MoveStep DEF Task
  <2>2. ASSUME NEW m \in Lanes, m # l PROVE FifoStep(m)
    BY <1>3, <2>2, OtherLane
  <2> QED BY <2>1, <2>2
<1>4. ASSUME UNCHANGED <<ringVars, taskVars, dataVars>> PROVE \A m \in Lanes : FifoStep(m)
  BY <1>4, StillLane DEF LaneVars, ringVars, taskVars, dataVars
<1>5. \A m \in Lanes : FifoStep(m)
  <2>1. CASE (\E l \in Lanes : Signal(l) \/ Isr(l)) \/ Flush \/ UNCHANGED vars
    BY <1>4, <2>1 DEF Signal, Isr, Flush, vars
  <2> QED BY <1>3, <2>1 DEF Next, Thread
<1>6. FifoInv'
  BY <1>1, <1>2, <1>5 DEF FifoInv, FifoStep
<1> QED BY <1>5, <1>6

(***************************************************************************)
(* Each direction of the driver is a bounded FIFO: for any lanes, buffer   *)
(* sizes and frame counts no frame is overwritten, skipped or repeated,    *)
(* and one is lost only when it comes in while the buffer is full, as long *)
(* as no call times out or all callers ask for the same number of frames.  *)
(***************************************************************************)
THEOREM FifoImplemented == CallersAgree => (Spec => ImplementsFifo)
<1> SUFFICES ASSUME CallersAgree PROVE Spec => ImplementsFifo
  OBVIOUS
<1>1. Init => FifoInv
  BY FifoInit
<1>2. Init => \A l \in Lanes : Fifo(l)!Init
  BY FifoInit
<1>3. FifoInv /\ [Next]_vars => FifoInv'
  BY EveryLaneSteps
<1>4. FifoInv /\ [Next]_vars => \A l \in Lanes : [Fifo(l)!Next]_(Fifo(l)!vars)
  BY EveryLaneSteps DEF FifoStep
<1> QED BY <1>1, <1>2, <1>3, <1>4, PTL DEF Spec, ImplementsFifo
=============================================================================
