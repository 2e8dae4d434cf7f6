----------------------- MODULE DfuStateMachine_proofs -----------------------
(***************************************************************************)
(* Theorems about DfuStateMachine, for every flash layout, every number of *)
(* fragments and whatever the host does: types, busy states and sessions,  *)
(* the window that is written to, the signals between the two tasks and    *)
(* the semaphore of UPLOAD.                                                *)
(***************************************************************************)
EXTENDS DfuStateMachine, FiniteSetTheorems, TLAPS

-----------------------------------------------------------------------------
(***************************************************************************)
(* Type correctness                                                        *)
(***************************************************************************)
LEMMA ModBound ==
  ASSUME NEW n \in Nat, NEW m \in Nat \ {0}
  PROVE  n % m \in 0 .. m - 1
  OBVIOUS

LEMMA FlashTypes ==
  ASSUME FlashTypeOK, NEW alt, NEW block, NEW content \in SectorContent,
         \/ WriteToFlash(alt, block, content)
         \/ MakeManifest
         \/ UNCHANGED flashVars
         \/ \E lost : FlashReset(lost)
  PROVE  FlashTypeOK'
<1> USE LayoutAssumption DEF FlashTypeOK
<1>1. CASE WriteToFlash(alt, block, content)
  <2>1. WindowBase(alt) \in Nat /\ WindowSize(alt) \in Nat /\ WindowUsed \in Nat
    BY DEF WindowBase, WindowSize, WindowUsed
  <2>2. QED BY <1>1, <2>1 DEF WriteToFlash, flashVars
<1>2. CASE MakeManifest
  BY <1>2 DEF MakeManifest
<1>3. CASE UNCHANGED flashVars
  BY <1>3 DEF flashVars
<1>4. CASE \E lost : FlashReset(lost)
  BY <1>4 DEF FlashReset, SectorContent
<1>5. QED BY <1>1, <1>2, <1>3, <1>4

LEMMA TypeInit == Init => TypeOK
<1> SUFFICES ASSUME Init PROVE TypeOK
  OBVIOUS
<1> USE DfuAssumption, LayoutAssumption DEF Init
<1>0. FlagTypeOK
  BY DEF FlagTypeOK
<1>1. SessionTypeOK
  BY DEF SessionTypeOK, States, Busy, Resting, Statuses, AltSettings, Slots
<1>2. TaskTypeOK
  BY DEF TaskTypeOK, Statuses
<1>3. ServicerTypeOK
  BY DEF ServicerTypeOK, AllRequests, Slots, States, Busy, Resting, Timeouts, LongestTimeout
<1>4. FlashTypeOK
  BY DEF FlashInit, WindowInit, FlashTypeOK, SectorContent
<1>5. QED BY <1>0, <1>1, <1>2, <1>3, <1>4 DEF TypeOK

LEMMA TypeStep == TypeOK /\ [Next]_vars => TypeOK'
<1> SUFFICES ASSUME TypeOK, [Next]_vars PROVE TypeOK'
  OBVIOUS
<1> USE DfuAssumption
    DEF TypeOK, sessionVars, signalVars, smVars, svVars
<1> USE DEF FlagTypeOK, SessionTypeOK, TaskTypeOK, ServicerTypeOK, States, Busy, Resting,
        Statuses, Signals, AllRequests, Slots, SectorContent
<1>1. CASE HostSends
  <2> USE DEF Receive
  <2>1. CASE ReceiveDownload
    <3>0. FlagTypeOK'
      BY <2>1 DEF ReceiveDownload, NextSlot
    <3>1. SessionTypeOK'
      BY <2>1 DEF ReceiveDownload, NextSlot
    <3>2. TaskTypeOK'
      BY <2>1 DEF ReceiveDownload, NextSlot
    <3>3. ServicerTypeOK'
      BY <2>1 DEF ReceiveDownload, NextSlot
    <3>4. FlashTypeOK'
      BY <2>1, FlashTypes DEF ReceiveDownload, NextSlot
    <3>5. QED BY <3>0, <3>1, <3>2, <3>3, <3>4
  <2>2. CASE ReceiveUpload \/ ReceiveClrStatus \/ ReceiveAbort
    <3>0. FlagTypeOK'
      BY <2>2 DEF ReceiveUpload, ReceiveClrStatus,
           ReceiveAbort, ReceiveSignal
    <3>1. SessionTypeOK'
      BY <2>2 DEF ReceiveUpload, ReceiveClrStatus,
           ReceiveAbort, ReceiveSignal
    <3>2. TaskTypeOK'
      BY <2>2 DEF ReceiveUpload, ReceiveClrStatus,
           ReceiveAbort, ReceiveSignal
    <3>3. ServicerTypeOK'
      BY <2>2 DEF ReceiveUpload, ReceiveClrStatus,
           ReceiveAbort, ReceiveSignal
    <3>4. FlashTypeOK'
      BY <2>2, FlashTypes DEF ReceiveUpload, ReceiveClrStatus,
           ReceiveAbort, ReceiveSignal
    <3>5. QED BY <3>0, <3>1, <3>2, <3>3, <3>4
  <2>3. CASE ReceiveSetAlternate
    <3>0. FlagTypeOK'
      BY <2>3 DEF ReceiveSetAlternate, ReceiveSignal
    <3>1. SessionTypeOK'
      BY <2>3 DEF ReceiveSetAlternate, ReceiveSignal
    <3>2. TaskTypeOK'
      BY <2>3 DEF ReceiveSetAlternate, ReceiveSignal
    <3>3. ServicerTypeOK'
      BY <2>3 DEF ReceiveSetAlternate, ReceiveSignal
    <3>4. FlashTypeOK'
      BY <2>3, FlashTypes DEF ReceiveSetAlternate, ReceiveSignal
    <3>5. QED BY <3>0, <3>1, <3>2, <3>3, <3>4
  <2>4. CASE ReceiveGetStatus
    <3>0. FlagTypeOK'
      BY <2>4 DEF ReceiveGetStatus
    <3>1. SessionTypeOK'
      BY <2>4 DEF ReceiveGetStatus
    <3>2. TaskTypeOK'
      BY <2>4 DEF ReceiveGetStatus
    <3>3. ServicerTypeOK'
      BY <2>4 DEF ReceiveGetStatus
    <3>4. FlashTypeOK'
      BY <2>4, FlashTypes DEF ReceiveGetStatus
    <3>5. QED BY <3>0, <3>1, <3>2, <3>3, <3>4
  <2>5. CASE ReceiveTransferBlock
    <3>0. FlagTypeOK'
      BY <2>5 DEF ReceiveTransferBlock
    <3>1. SessionTypeOK'
      BY <2>5 DEF ReceiveTransferBlock
    <3>2. TaskTypeOK'
      BY <2>5 DEF ReceiveTransferBlock
    <3>3. ServicerTypeOK'
      BY <2>5 DEF ReceiveTransferBlock
    <3>4. FlashTypeOK'
      BY <2>5, FlashTypes DEF ReceiveTransferBlock
    <3>5. QED BY <3>0, <3>1, <3>2, <3>3, <3>4
  <2>6. CASE ReceiveDetach
    <3>0. FlagTypeOK'
      BY <2>6 DEF ReceiveDetach
    <3>1. SessionTypeOK'
      BY <2>6 DEF ReceiveDetach
    <3>2. TaskTypeOK'
      BY <2>6 DEF ReceiveDetach
    <3>3. ServicerTypeOK'
      BY <2>6 DEF ReceiveDetach
    <3>4. FlashTypeOK'
      BY <2>6, FlashTypes DEF ReceiveDetach
    <3>5. QED BY <3>0, <3>1, <3>2, <3>3, <3>4
  <2>7. QED BY <1>1, <2>1, <2>2, <2>3, <2>4, <2>5, <2>6 DEF HostSends
<1>2. CASE Servicer
  <2> USE DEF Reply, Timeouts, LongestTimeout
  <2>1. CASE StoreLength
    <3>0. FlagTypeOK'
      BY <2>1 DEF StoreLength
    <3>1. SessionTypeOK'
      BY <2>1 DEF StoreLength
    <3>2. TaskTypeOK'
      BY <2>1 DEF StoreLength
    <3>3. ServicerTypeOK'
      BY <2>1 DEF StoreLength
    <3>4. FlashTypeOK'
      BY <2>1, FlashTypes DEF StoreLength
    <3>5. QED BY <3>0, <3>1, <3>2, <3>3, <3>4
  <2>2. CASE CopyFragment
    <3>0. FlagTypeOK'
      BY <2>2 DEF CopyFragment
    <3>1. SessionTypeOK'
      BY <2>2 DEF CopyFragment
    <3>2. TaskTypeOK'
      BY <2>2 DEF CopyFragment
    <3>3. ServicerTypeOK'
      BY <2>2 DEF CopyFragment
    <3>4. FlashTypeOK'
      BY <2>2, FlashTypes DEF CopyFragment
    <3>5. QED BY <3>0, <3>1, <3>2, <3>3, <3>4
  <2>3. CASE Give
    <3>0. FlagTypeOK'
      BY <2>3 DEF Give
    <3>1. SessionTypeOK'
      BY <2>3 DEF Give
    <3>2. TaskTypeOK'
      BY <2>3 DEF Give
    <3>3. ServicerTypeOK'
      BY <2>3 DEF Give
    <3>4. FlashTypeOK'
      BY <2>3, FlashTypes DEF Give
    <3>5. QED BY <3>0, <3>1, <3>2, <3>3, <3>4
  <2>4. CASE Notify
    <3>0. FlagTypeOK'
      BY <2>4 DEF Notify
    <3>1. SessionTypeOK'
      BY <2>4 DEF Notify
    <3>2. TaskTypeOK'
      BY <2>4 DEF Notify
    <3>3. ServicerTypeOK'
      BY <2>4 DEF Notify
    <3>4. FlashTypeOK'
      BY <2>4, FlashTypes DEF Notify
    <3>5. QED BY <3>0, <3>1, <3>2, <3>3, <3>4
  <2>5. CASE TakeUpload
    <3>0. FlagTypeOK'
      BY <2>5 DEF TakeUpload, SemaphoreTaken
    <3>1. SessionTypeOK'
      BY <2>5 DEF TakeUpload, SemaphoreTaken
    <3>2. TaskTypeOK'
      BY <2>5 DEF TakeUpload, SemaphoreTaken
    <3>3. ServicerTypeOK'
      BY <2>5 DEF TakeUpload, SemaphoreTaken
    <3>4. FlashTypeOK'
      BY <2>5, FlashTypes DEF TakeUpload, SemaphoreTaken
    <3>5. QED BY <3>0, <3>1, <3>2, <3>3, <3>4
  <2>6. CASE DecideResting
    <3>0. FlagTypeOK'
      BY <2>6 DEF DecideResting
    <3>1. SessionTypeOK'
      BY <2>6 DEF DecideResting
    <3>2. TaskTypeOK'
      BY <2>6 DEF DecideResting
    <3>3. ServicerTypeOK'
      BY <2>6 DEF DecideResting
    <3>4. FlashTypeOK'
      BY <2>6, FlashTypes DEF DecideResting
    <3>5. QED BY <3>0, <3>1, <3>2, <3>3, <3>4
  <2>7. CASE DecideDownloadSync
    <3>0. FlagTypeOK'
      BY <2>7 DEF DecideDownloadSync, DownloadTimeout
    <3>1. SessionTypeOK'
      BY <2>7 DEF DecideDownloadSync, DownloadTimeout
    <3>2. TaskTypeOK'
      BY <2>7 DEF DecideDownloadSync, DownloadTimeout
    <3>3. ServicerTypeOK'
      BY <2>7 DEF DecideDownloadSync, DownloadTimeout
    <3>4. FlashTypeOK'
      BY <2>7, FlashTypes DEF DecideDownloadSync, DownloadTimeout
    <3>5. QED BY <3>0, <3>1, <3>2, <3>3, <3>4
  <2>8. CASE DecideManifestSync
    <3>0. FlagTypeOK'
      BY <2>8 DEF DecideManifestSync
    <3>1. SessionTypeOK'
      BY <2>8 DEF DecideManifestSync
    <3>2. TaskTypeOK'
      BY <2>8 DEF DecideManifestSync
    <3>3. ServicerTypeOK'
      BY <2>8 DEF DecideManifestSync
    <3>4. FlashTypeOK'
      BY <2>8, FlashTypes DEF DecideManifestSync
    <3>5. QED BY <3>0, <3>1, <3>2, <3>3, <3>4
  <2>9. CASE DecideStillBusy
    <3>0. FlagTypeOK'
      BY <2>9 DEF DecideStillBusy
    <3>1. SessionTypeOK'
      BY <2>9 DEF DecideStillBusy
    <3>2. TaskTypeOK'
      BY <2>9 DEF DecideStillBusy
    <3>3. ServicerTypeOK'
      BY <2>9 DEF DecideStillBusy
    <3>4. FlashTypeOK'
      BY <2>9, FlashTypes DEF DecideStillBusy
    <3>5. QED BY <3>0, <3>1, <3>2, <3>3, <3>4
  <2>10. CASE DecideTooEarly
    <3>0. FlagTypeOK'
      BY <2>10 DEF DecideTooEarly
    <3>1. SessionTypeOK'
      BY <2>10 DEF DecideTooEarly
    <3>2. TaskTypeOK'
      BY <2>10 DEF DecideTooEarly
    <3>3. ServicerTypeOK'
      BY <2>10 DEF DecideTooEarly
    <3>4. FlashTypeOK'
      BY <2>10, FlashTypes DEF DecideTooEarly
    <3>5. QED BY <3>0, <3>1, <3>2, <3>3, <3>4
  <2>11. CASE SetMoveToError \/ SetMoveToErrorStatus
    <3>0. FlagTypeOK'
      BY <2>11 DEF SetMoveToError, SetMoveToErrorStatus
    <3>1. SessionTypeOK'
      BY <2>11 DEF SetMoveToError, SetMoveToErrorStatus
    <3>2. TaskTypeOK'
      BY <2>11 DEF SetMoveToError, SetMoveToErrorStatus
    <3>3. ServicerTypeOK'
      BY <2>11 DEF SetMoveToError, SetMoveToErrorStatus
    <3>4. FlashTypeOK'
      BY <2>11, FlashTypes DEF SetMoveToError, SetMoveToErrorStatus
    <3>5. QED BY <3>0, <3>1, <3>2, <3>3, <3>4
  <2>12. QED BY <1>2, <2>1, <2>2, <2>3, <2>4, <2>5, <2>6, <2>7, <2>8, <2>9, <2>10, <2>11 DEF Servicer
<1>3. CASE StateMachine
  <2> USE DEF Done, KeepBuffer, KeepSignals, ResetDownloadBuffer, ResetStateTo
  <2>1. CASE SmWait
    <3>0. FlagTypeOK'
      BY <2>1 DEF SmWait, BitsCleared
    <3>1. SessionTypeOK'
      BY <2>1 DEF SmWait, BitsCleared
    <3>2. TaskTypeOK'
      BY <2>1 DEF SmWait, BitsCleared
    <3>3. ServicerTypeOK'
      BY <2>1 DEF SmWait, BitsCleared
    <3>4. FlashTypeOK'
      BY <2>1, FlashTypes DEF SmWait, BitsCleared
    <3>5. QED BY <3>0, <3>1, <3>2, <3>3, <3>4
  <2>2. CASE SmTakeOne
    <3>0. FlagTypeOK'
      BY <2>2 DEF SmTakeOne, CounterTaken
    <3>1. SessionTypeOK'
      BY <2>2 DEF SmTakeOne, CounterTaken
    <3>2. TaskTypeOK'
      BY <2>2 DEF SmTakeOne, CounterTaken
    <3>3. ServicerTypeOK'
      BY <2>2 DEF SmTakeOne, CounterTaken
    <3>4. FlashTypeOK'
      BY <2>2, FlashTypes DEF SmTakeOne, CounterTaken
    <3>5. QED BY <3>0, <3>1, <3>2, <3>3, <3>4
  <2>3. CASE SmTakeStalled
    <3>0. FlagTypeOK'
      BY <2>3 DEF SmTakeStalled, CounterTaken, Error
    <3>1. SessionTypeOK'
      BY <2>3 DEF SmTakeStalled, CounterTaken, Error
    <3>2. TaskTypeOK'
      BY <2>3 DEF SmTakeStalled, CounterTaken, Error
    <3>3. ServicerTypeOK'
      BY <2>3 DEF SmTakeStalled, CounterTaken, Error
    <3>4. FlashTypeOK'
      BY <2>3, FlashTypes DEF SmTakeStalled, CounterTaken, Error
    <3>5. QED BY <3>0, <3>1, <3>2, <3>3, <3>4
  <2>4. CASE SmRefuse
    <3>0. FlagTypeOK'
      BY <2>4 DEF SmRefuse, Error
    <3>1. SessionTypeOK'
      BY <2>4 DEF SmRefuse, Error
    <3>2. TaskTypeOK'
      BY <2>4 DEF SmRefuse, Error
    <3>3. ServicerTypeOK'
      BY <2>4 DEF SmRefuse, Error
    <3>4. FlashTypeOK'
      BY <2>4, FlashTypes DEF SmRefuse, Error
    <3>5. QED BY <3>0, <3>1, <3>2, <3>3, <3>4
  <2>5. CASE SmReset
    <3>0. FlagTypeOK'
      BY <2>5 DEF SmReset, ResetState
    <3>1. SessionTypeOK'
      BY <2>5 DEF SmReset, ResetState
    <3>2. TaskTypeOK'
      BY <2>5 DEF SmReset, ResetState
    <3>3. ServicerTypeOK'
      BY <2>5 DEF SmReset, ResetState
    <3>4. FlashTypeOK'
      BY <2>5, FlashTypes DEF SmReset, ResetState
    <3>5. QED BY <3>0, <3>1, <3>2, <3>3, <3>4
  <2>6. CASE SmDownload
    <3>0. FlagTypeOK'
      BY <2>6 DEF SmDownload
    <3>1. SessionTypeOK'
      <4>1. CASE xferLength # 0
        BY <2>6, <4>1 DEF SmDownload
      <4>2. CASE xferLength = 0
        BY <2>6, <4>2 DEF SmDownload
      <4>3. QED BY <4>1, <4>2
    <3>2. TaskTypeOK'
      BY <2>6 DEF SmDownload
    <3>3. ServicerTypeOK'
      BY <2>6 DEF SmDownload
    <3>4. FlashTypeOK'
      BY <2>6, FlashTypes DEF SmDownload
    <3>5. QED BY <3>0, <3>1, <3>2, <3>3, <3>4
  <2>7. CASE SmUpload
    <3>m. (transferBlock + 1) % BlockModulus \in 0 .. BlockModulus - 1
      BY ModBound
    <3>0. FlagTypeOK'
      BY <2>7, <3>m DEF SmUpload, Error, SemaphoreGiven
    <3>1. SessionTypeOK'
      BY <2>7, <3>m DEF SmUpload, Error, SemaphoreGiven
    <3>2. TaskTypeOK'
      BY <2>7, <3>m DEF SmUpload, Error, SemaphoreGiven
    <3>3. ServicerTypeOK'
      BY <2>7, <3>m DEF SmUpload, Error, SemaphoreGiven
    <3>4. FlashTypeOK'
      BY <2>7, FlashTypes DEF SmUpload, Error, SemaphoreGiven
    <3>5. QED BY <3>0, <3>1, <3>2, <3>3, <3>4
  <2>8. CASE SmStatusResting
    <3>0. FlagTypeOK'
      BY <2>8 DEF SmStatusResting
    <3>1. SessionTypeOK'
      BY <2>8 DEF SmStatusResting
    <3>2. TaskTypeOK'
      BY <2>8 DEF SmStatusResting
    <3>3. ServicerTypeOK'
      BY <2>8 DEF SmStatusResting
    <3>4. FlashTypeOK'
      BY <2>8, FlashTypes DEF SmStatusResting
    <3>5. QED BY <3>0, <3>1, <3>2, <3>3, <3>4
  <2>9. CASE SmStatusSync
    <3>0. FlagTypeOK'
      BY <2>9 DEF SmStatusSync, Acknowledged
    <3>1. SessionTypeOK'
      BY <2>9 DEF SmStatusSync, Acknowledged
    <3>2. TaskTypeOK'
      BY <2>9 DEF SmStatusSync, Acknowledged
    <3>3. ServicerTypeOK'
      BY <2>9 DEF SmStatusSync, Acknowledged
    <3>4. FlashTypeOK'
      BY <2>9, FlashTypes DEF SmStatusSync, Acknowledged
    <3>5. QED BY <3>0, <3>1, <3>2, <3>3, <3>4
  <2>10. CASE SmProgram
    <3>m. (blockNumber + 1) % BlockModulus \in 0 .. BlockModulus - 1
      BY ModBound
    <3>s. WriteStatus(altSetting) \in Statuses
      BY DEF WriteStatus
    <3>0. FlagTypeOK'
      BY <2>10, <3>s DEF SmProgram, LastFragment
    <3>1. SessionTypeOK'
      <4>1. CASE LastFragment
        BY <2>10, <4>1, <3>m, <3>s DEF SmProgram, LastFragment
      <4>2. CASE ~LastFragment
        <5>1. fragNumber + 1 \in Slots
          BY <4>2 DEF LastFragment
        <5>2. QED BY <2>10, <4>2, <5>1 DEF SmProgram
      <4>3. QED BY <4>1, <4>2
    <3>2. TaskTypeOK'
      BY <2>10, <3>m, <3>s DEF SmProgram, LastFragment
    <3>3. ServicerTypeOK'
      BY <2>10, <3>m, <3>s DEF SmProgram, LastFragment
    <3>4. FlashTypeOK'
      <4>1. CASE LastFragment /\ WriteStatus(altSetting) # "errWRITE"
        BY <2>10, <4>1, FlashTypes DEF SmProgram, WriteStatus, Writable
      <4>2. CASE LastFragment /\ WriteStatus(altSetting) = "errWRITE"
        BY <2>10, <4>2, FlashTypes DEF SmProgram, WriteStatus, WriteToFlash
      <4>3. CASE ~LastFragment
        BY <2>10, <4>3, FlashTypes DEF SmProgram
      <4>4. QED BY <4>1, <4>2, <4>3
    <3>5. QED BY <3>0, <3>1, <3>2, <3>3, <3>4
  <2>11. CASE SmManifest
    <3>0. FlagTypeOK'
      BY <2>11 DEF SmManifest
    <3>1. SessionTypeOK'
      BY <2>11 DEF SmManifest
    <3>2. TaskTypeOK'
      BY <2>11 DEF SmManifest
    <3>3. ServicerTypeOK'
      BY <2>11 DEF SmManifest
    <3>4. FlashTypeOK'
      BY <2>11, FlashTypes DEF SmManifest
    <3>5. QED BY <3>0, <3>1, <3>2, <3>3, <3>4
  <2>12. CASE SmFinish
    <3>0. FlagTypeOK'
      BY <2>12 DEF SmFinish, Error, AfterWork
    <3>1. SessionTypeOK'
      <4>1. CASE moveToError
        BY <2>12, <4>1 DEF SmFinish, Error
      <4>2. CASE ~moveToError /\ retval # "OK"
        BY <2>12, <4>2 DEF SmFinish, Error
      <4>3. CASE ~moveToError /\ retval = "OK"
        BY <2>12, <4>3 DEF SmFinish, AfterWork
      <4>4. QED BY <4>1, <4>2, <4>3
    <3>2. TaskTypeOK'
      BY <2>12 DEF SmFinish, Error, AfterWork
    <3>3. ServicerTypeOK'
      BY <2>12 DEF SmFinish, Error, AfterWork
    <3>4. FlashTypeOK'
      BY <2>12, FlashTypes DEF SmFinish, Error, AfterWork
    <3>5. QED BY <3>0, <3>1, <3>2, <3>3, <3>4
  <2>13. QED BY <1>3, <2>1, <2>2, <2>3, <2>4, <2>5, <2>6, <2>7, <2>8, <2>9, <2>10, <2>11, <2>12 DEF StateMachine
<1>4. CASE WatchdogReset
  <2> USE DEF WatchdogReset, ResetState, ResetStateTo, ResetDownloadBuffer, Done
  <2>0. FlagTypeOK'
    BY <1>4
  <2>1. SessionTypeOK'
    BY <1>4 DEF AltSettings
  <2>2. TaskTypeOK'
    BY <1>4
  <2>3. ServicerTypeOK'
    BY <1>4 DEF Timeouts, LongestTimeout
  <2>4. FlashTypeOK'
    BY <1>4, FlashTypes
  <2>5. QED BY <2>0, <2>1, <2>2, <2>3, <2>4
<1>5. CASE UNCHANGED vars
  BY <1>5, FlashTypes DEF vars
<1>6. QED BY <1>1, <1>2, <1>3, <1>4, <1>5 DEF Next

\* Every variable keeps its type: no slot, block or counter leaves its range.
THEOREM TypeCorrect == Spec => []TypeOK
  BY TypeInit, TypeStep, PTL DEF Spec

-----------------------------------------------------------------------------
(***************************************************************************)
(* Frames: what one task leaves to the other one                           *)
(***************************************************************************)
LEMMA HostKeeps ==
  ASSUME HostSends
  PROVE  /\ UNCHANGED <<sessionVars, signalVars, smVars, flashVars>>
         /\ svPc = "idle"
         /\ svPc' \in {"give", "length", "decide", "idle", "reboot"}
<1> USE DEF HostSends, Receive, ReceiveSignal, signalVars
<1>1. CASE ReceiveDownload
  BY <1>1 DEF ReceiveDownload
<1>2. CASE ReceiveUpload
  BY <1>2 DEF ReceiveUpload
<1>3. CASE ReceiveGetStatus
  BY <1>3 DEF ReceiveGetStatus
<1>4. CASE ReceiveClrStatus
  BY <1>4 DEF ReceiveClrStatus
<1>5. CASE ReceiveAbort
  BY <1>5 DEF ReceiveAbort
<1>6. CASE ReceiveSetAlternate
  BY <1>6 DEF ReceiveSetAlternate
<1>7. CASE ReceiveTransferBlock
  BY <1>7 DEF ReceiveTransferBlock
<1>8. CASE ReceiveDetach
  BY <1>8 DEF ReceiveDetach
<1>9. QED
  BY <1>1, <1>2, <1>3, <1>4, <1>5, <1>6, <1>7, <1>8

Deciding ==
  DecideResting \/ DecideDownloadSync \/ DecideManifestSync
  \/ DecideStillBusy \/ DecideTooEarly

LEMMA DecidingKeeps ==
  ASSUME Deciding
  PROVE  /\ UNCHANGED <<sessionVars, signalVars, smVars, flashVars>>
         /\ svPc = "decide" /\ svPc' \in {"give", "idle", "flag"}
<1> USE DEF Reply
<1>1. CASE DecideResting
  BY <1>1 DEF DecideResting
<1>2. CASE DecideDownloadSync
  BY <1>2 DEF DecideDownloadSync
<1>3. CASE DecideManifestSync
  BY <1>3 DEF DecideManifestSync
<1>4. CASE DecideStillBusy
  BY <1>4 DEF DecideStillBusy
<1>5. CASE DecideTooEarly
  BY <1>5 DEF DecideTooEarly
<1>6. QED
  BY <1>1, <1>2, <1>3, <1>4, <1>5 DEF Deciding

\* The servicer never touches the state, the position or the flash.
SmOwned == <<state, status, inProgress, blockNumber, fragNumber, smVars, flashVars>>

LEMMA ServicerKeeps ==
  ASSUME HostSends \/ Servicer
  PROVE  UNCHANGED SmOwned
<1> USE DEF SmOwned
<1>1. CASE HostSends
  BY <1>1, HostKeeps DEF sessionVars
<1>2. CASE Servicer
  <2>1. CASE StoreLength \/ CopyFragment \/ SetMoveToError \/ SetMoveToErrorStatus
    BY <2>1 DEF StoreLength, CopyFragment, SetMoveToError, SetMoveToErrorStatus
  <2>2. CASE Give \/ Notify \/ TakeUpload
    BY <2>2 DEF Give, Notify, TakeUpload, sessionVars
  <2>3. CASE Deciding
    BY <2>3, DecidingKeeps DEF sessionVars
  <2>4. QED BY <1>2, <2>1, <2>2, <2>3 DEF Servicer, Deciding
<1>3. QED BY <1>1, <1>2

-----------------------------------------------------------------------------
(***************************************************************************)
(* The states of the machine                                               *)
(***************************************************************************)
\* The state the task works in, at each of its labels
WorkMatchesState ==
  /\ smPc = "program" => state = "DNBUSY"
  /\ smPc = "manifest" => state = "MANIFEST"

StateInv ==
  /\ BusyOnlyWhileWorking /\ WorkMatchesState
  /\ FaultOnlyInError /\ SessionStartsAtZero

LEMMA StateInit == Init => StateInv
  BY DEF Init, StateInv, BusyOnlyWhileWorking, WorkMatchesState, FaultOnlyInError,
         SessionStartsAtZero, Busy, Resting

LEMMA StateStep == TypeOK /\ StateInv /\ [Next]_vars => StateInv'
<1> SUFFICES ASSUME TypeOK, StateInv, [Next]_vars PROVE StateInv'
  OBVIOUS
<1> USE DEF StateInv, BusyOnlyWhileWorking, WorkMatchesState, FaultOnlyInError,
            SessionStartsAtZero, Busy, Resting
<1>1. CASE HostSends \/ Servicer \/ UNCHANGED vars
  <2>1. UNCHANGED SmOwned
    BY <1>1, ServicerKeeps DEF SmOwned, vars, sessionVars
  <2>2. QED BY <2>1 DEF SmOwned, smVars
<1>2. CASE StateMachine
  <2> USE DEF Done, KeepBuffer, ResetDownloadBuffer, ResetStateTo, Error, ResetState,
              Serves, sessionVars
  <2>1. CASE SmWait
    BY <1>2, <2>1 DEF SmWait
  <2>2. CASE SmTakeOne
    BY <2>2 DEF SmTakeOne
  <2>3. CASE SmTakeStalled
    BY <2>3 DEF SmTakeStalled
  <2>4. CASE SmRefuse
    BY <2>4 DEF SmRefuse
  <2>5. CASE SmReset
    BY <2>5 DEF SmReset
  <2>6. CASE SmDownload
    <3>1. CASE xferLength # 0
      BY <2>6, <3>1 DEF SmDownload, Accepts
    <3>2. CASE xferLength = 0
      BY <2>6, <3>2 DEF SmDownload, Accepts
    <3>3. QED BY <3>1, <3>2
  <2>7. CASE SmUpload
    <3>1. CASE state \in {"IDLE", "UPLOAD_IDLE"}
      BY <2>7, <3>1 DEF SmUpload
    <3>2. CASE state \notin {"IDLE", "UPLOAD_IDLE"}
      BY <2>7, <3>2 DEF SmUpload
    <3>3. QED BY <3>1, <3>2
  <2>8. CASE SmStatusResting
    BY <2>8 DEF SmStatusResting
  <2>9. CASE SmStatusSync
    BY <2>9 DEF SmStatusSync, Acknowledged
  <2>10. CASE SmProgram
    BY <2>10 DEF SmProgram
  <2>11. CASE SmManifest
    BY <2>11 DEF SmManifest
  <2>12. CASE SmFinish
    <3>1. CASE moveToError \/ retval # "OK"
      BY <2>12, <3>1 DEF SmFinish
    <3>2. CASE ~moveToError /\ retval = "OK"
      BY <2>12, <3>2 DEF SmFinish, AfterWork
    <3>3. QED BY <3>1, <3>2
  <2>13. QED BY <1>2, <2>1, <2>2, <2>3, <2>4, <2>5, <2>6, <2>7, <2>8, <2>9, <2>10,
                <2>11, <2>12 DEF StateMachine
<1>3. CASE WatchdogReset
  BY <1>3 DEF WatchdogReset, ResetState, ResetStateTo, ResetDownloadBuffer, Done
<1>4. QED BY <1>1, <1>2, <1>3 DEF Next

LEMMA StateCorrect == Spec => []StateInv
<1>1. Spec => []TypeOK
  BY TypeCorrect
<1>2. QED BY <1>1, StateInit, StateStep, PTL DEF Spec

\* Only a task at work leaves the machine in dfuDNBUSY or dfuMANIFEST.
THEOREM BusyCorrect == Spec => []BusyOnlyWhileWorking
<1>1. StateInv => BusyOnlyWhileWorking
  BY DEF StateInv
<1>2. QED BY <1>1, StateCorrect, PTL

\* A fault is reported in dfuERROR only, whatever the host interleaves.
THEOREM FaultCorrect == Spec => []FaultOnlyInError
<1>1. StateInv => FaultOnlyInError
  BY DEF StateInv
<1>2. QED BY <1>1, StateCorrect, PTL

\* Every download starts at the first fragment of the first sector.
THEOREM SessionCorrect == Spec => []SessionStartsAtZero
<1>1. StateInv => SessionStartsAtZero
  BY DEF StateInv
<1>2. QED BY <1>1, StateCorrect, PTL

-----------------------------------------------------------------------------
(***************************************************************************)
(* The window of a download.  The address of a sector is computed from the *)
(* block number, the room left from the total written: a reset sets one to *)
(* zero and not the other.  A write stays inside because the block number  *)
(* never overtakes the total.  A block that was refused is counted all the *)
(* same, until dfu_int_error resets the count in the next step.            *)
(***************************************************************************)
WindowIsPartition ==
  dnBaseAddr # 0 =>
    \/ dnBaseAddr = UpgradeAddr /\ bytesAvail = DataAddr - UpgradeAddr
    \/ dnBaseAddr = DataAddr /\ bytesAvail = FlashSize - DataAddr

BlockBehindTotal ==
  (smPc = "finish" => retval = "OK") =>
     IF dnBaseAddr = 0 THEN blockNumber = 0 ELSE blockNumber <= totalLen

TotalInWindow == dnBaseAddr # 0 => totalLen <= bytesAvail

WindowInv ==
  WindowIsPartition /\ BlockBehindTotal /\ TotalInWindow /\ FactoryUntouched

\* The address and the room of the next write, in every state of the invariant
LEMMA TargetInWindow ==
  ASSUME TypeOK, WindowInv, smPc = "program", WriteStatus(altSetting) = "OK"
  PROVE  /\ WriteTarget(altSetting, blockNumber) \in Nat
         /\ WriteTarget(altSetting, blockNumber) - WindowBase(altSetting)
              \in 0 .. WindowSize(altSetting) - 1
         /\ \/ WindowBase(altSetting) = UpgradeAddr
               /\ WindowSize(altSetting) = DataAddr - UpgradeAddr
            \/ WindowBase(altSetting) = DataAddr
               /\ WindowSize(altSetting) = FlashSize - DataAddr
         /\ blockNumber <= WindowUsed
         /\ WindowUsed + 1 <= WindowSize(altSetting)
         /\ altSetting \in Writable
<1> USE LayoutAssumption
    DEF WindowInv, WindowIsPartition, BlockBehindTotal, TotalInWindow, WindowBase,
        WindowSize, WindowUsed, WindowIsOpen, Writable
<1>1. altSetting \in Writable /\ HasRoom(altSetting)
  BY DEF WriteStatus
<1>2. blockNumber \in Nat /\ totalLen \in Nat /\ bytesAvail \in Nat /\ dnBaseAddr \in Nat
  BY DfuAssumption DEF TypeOK, SessionTypeOK, FlashTypeOK
<1>3. blockNumber <= WindowUsed
  BY <1>2
<1>4. WindowUsed + 1 <= WindowSize(altSetting)
  BY <1>1, <1>2 DEF HasRoom
<1>5. \/ WindowBase(altSetting) = UpgradeAddr
         /\ WindowSize(altSetting) = DataAddr - UpgradeAddr
      \/ WindowBase(altSetting) = DataAddr
         /\ WindowSize(altSetting) = FlashSize - DataAddr
  BY <1>1
<1>6. WindowUsed \in Nat
  BY <1>2
<1>7. QED
  <2> HIDE DEF WindowBase, WindowSize, WindowUsed
  <2>1. QED BY <1>1, <1>2, <1>3, <1>4, <1>5, <1>6 DEF WriteTarget

LEMMA WindowImplies ==
  ASSUME TypeOK, WindowInv
  PROVE  WritesInsideWindow
<1> SUFFICES ASSUME smPc = "program", WriteStatus(altSetting) = "OK"
             PROVE  /\ WriteTarget(altSetting, blockNumber) - WindowBase(altSetting)
                         \in 0 .. WindowSize(altSetting) - 1
                    /\ WriteTarget(altSetting, blockNumber)
                         \in Partition("upgrade") \cup Partition("data")
  BY DEF WritesInsideWindow
<1>1. QED
  BY TargetInWindow, LayoutAssumption DEF Partition

LEMMA WindowInitOK == Init => WindowInv
  BY DEF Init, FlashInit, WindowInit, WindowInv, WindowIsPartition, BlockBehindTotal,
         TotalInWindow, FactoryUntouched

LEMMA ModNeverMore ==
  ASSUME NEW n \in Nat, NEW m \in Nat \ {0}
  PROVE  n % m \in Nat /\ n % m <= n
  OBVIOUS

LEMMA WindowStep == TypeOK /\ StateInv /\ WindowInv /\ [Next]_vars => WindowInv'
<1> SUFFICES ASSUME TypeOK, StateInv, WindowInv, [Next]_vars PROVE WindowInv'
  OBVIOUS
<1> USE DEF WindowInv, WindowIsPartition, BlockBehindTotal, TotalInWindow,
            FactoryUntouched
<1>1. CASE HostSends \/ Servicer \/ UNCHANGED vars
  <2>1. UNCHANGED SmOwned
    BY <1>1, ServicerKeeps DEF SmOwned, vars, sessionVars
  <2>2. QED BY <2>1 DEF SmOwned, smVars, flashVars
<1>2. CASE StateMachine
  <2> USE DEF Done, KeepBuffer, ResetDownloadBuffer, ResetStateTo, flashVars
  <2>1. CASE SmWait
    BY <2>1 DEF SmWait, sessionVars
  <2>2. CASE SmTakeOne
    BY <2>2 DEF SmTakeOne, sessionVars
  <2>3. CASE SmTakeStalled \/ SmRefuse \/ SmReset
    <3>1. UNCHANGED flashVars /\ blockNumber' = 0 /\ smPc' = "wait"
      BY <2>3 DEF SmTakeStalled, SmRefuse, SmReset, Error, ResetState
    <3>2. totalLen \in Nat
      BY DEF TypeOK, FlashTypeOK
    <3>3. QED BY <3>1, <3>2
  <2>4. CASE SmDownload \/ SmUpload \/ SmStatusResting \/ SmStatusSync
    <3>1. UNCHANGED flashVars /\ blockNumber' \in {0, blockNumber} /\ smPc = "handle"
          /\ smPc' \in {"wait", "program", "manifest"}
      BY <2>4 DEF SmDownload, SmUpload, SmStatusResting, SmStatusSync, Serves,
                  sessionVars, Error
    <3>2. totalLen \in Nat
      BY DEF TypeOK, FlashTypeOK
    <3>3. QED BY <3>1, <3>2
  <2>5. CASE SmProgram
    <3>1. CASE ~LastFragment
      BY <2>5, <3>1 DEF SmProgram
    <3>2. CASE LastFragment /\ WriteStatus(altSetting) # "OK"
      <4>1. retval' # "OK" /\ smPc' = "finish" /\ UNCHANGED flash
        BY <2>5, <3>2 DEF SmProgram, WriteToFlash, WriteStatus
      <4>2. \/ UNCHANGED windowVars
            \/ dnBaseAddr' = WindowBase(altSetting)
               /\ bytesAvail' = WindowSize(altSetting)
               /\ totalLen' = WindowUsed
        BY <2>5, <3>2 DEF SmProgram, WriteToFlash, WriteStatus, windowVars
      <4>3. dnBaseAddr \in Nat /\ totalLen \in Nat /\ bytesAvail \in Nat
        BY DEF TypeOK, FlashTypeOK
      <4>4. QED
        BY <4>1, <4>2, <4>3, LayoutAssumption
        DEF windowVars, WindowBase, WindowSize, WindowUsed, WindowIsOpen
    <3>3. CASE LastFragment /\ WriteStatus(altSetting) = "OK"
      <4> DEFINE target == WriteTarget(altSetting, blockNumber)
      <4>0. smPc = "program"
        BY <2>5 DEF SmProgram
      <4>1. HasRoom(altSetting) /\ altSetting \in Writable
        BY <3>3 DEF WriteStatus
      <4>2. /\ dnBaseAddr' = WindowBase(altSetting)
            /\ bytesAvail' = WindowSize(altSetting)
            /\ totalLen' = WindowUsed + 1
            /\ \E content : flash' = [flash EXCEPT ![target] = content]
            /\ blockNumber' = (blockNumber + 1) % BlockModulus
        BY <2>5, <3>3, <4>1 DEF SmProgram, WriteToFlash
      <4>3. WindowUsed \in Nat /\ blockNumber \in Nat
        BY DfuAssumption DEF TypeOK, FlashTypeOK, SessionTypeOK, WindowUsed
      <4>4. blockNumber' <= totalLen'
        <5>1. blockNumber' <= blockNumber + 1 /\ blockNumber' \in Nat
          BY <4>2, <4>3, ModNeverMore, DfuAssumption
        <5>2. blockNumber <= WindowUsed
          BY <3>3, <4>0, TargetInWindow
        <5>3. QED BY <4>2, <4>3, <5>1, <5>2
      <4>5. WindowIsPartition' /\ TotalInWindow' /\ dnBaseAddr' # 0
        BY <3>3, <4>0, <4>2, TargetInWindow, LayoutAssumption
      <4>6. FactoryUntouched'
        <5>1. target \in Nat /\ target >= UpgradeAddr
          BY <3>3, <4>0, TargetInWindow, LayoutAssumption DEF WriteTarget
        <5>2. flash \in [Sectors -> SectorContent]
          BY DEF TypeOK, FlashTypeOK
        <5>3. QED
          BY <4>2, <5>1, <5>2, LayoutAssumption DEF FactorySectors, Sectors
      <4>7. QED BY <4>4, <4>5, <4>6
    <3>4. QED BY <3>1, <3>2, <3>3
  <2>6. CASE SmManifest
    <3>1. blockNumber = 0
      BY <2>6 DEF SmManifest, StateInv, WorkMatchesState, SessionStartsAtZero
    <3>2. QED BY <2>6, <3>1 DEF SmManifest, MakeManifest
  <2>7. CASE SmFinish
    <3>1. UNCHANGED flashVars /\ smPc = "finish" /\ smPc' = "wait"
          /\ (blockNumber' = 0 \/ (retval = "OK" /\ UNCHANGED blockNumber))
      BY <2>7 DEF SmFinish, Error
    <3>2. totalLen \in Nat
      BY DEF TypeOK, FlashTypeOK
    <3>3. QED BY <3>1, <3>2
  <2>8. QED BY <1>2, <2>1, <2>2, <2>3, <2>4, <2>5, <2>6, <2>7 DEF StateMachine
<1>3. CASE WatchdogReset
  <2>1. PICK lost \in {{}, SectorInFlight} : FlashReset(lost)
    BY <1>3 DEF WatchdogReset
  <2>2. blockNumber' = 0 /\ smPc' = "wait"
    BY <1>3 DEF WatchdogReset, ResetState, ResetStateTo, ResetDownloadBuffer, Done
  <2>3. \A s \in FactorySectors : s \notin SectorInFlight
    BY TargetInWindow, LayoutAssumption DEF SectorInFlight, FactorySectors, WriteTarget
  <2>4. FactoryUntouched'
    BY <2>1, <2>3, LayoutAssumption DEF FlashReset, Sectors
  <2>5. QED BY <2>1, <2>2, <2>4 DEF FlashReset
<1>4. QED BY <1>1, <1>2, <1>3 DEF Next

LEMMA WindowCorrect == Spec => [](TypeOK /\ WindowInv)
<1>1. Spec => [](TypeOK /\ StateInv)
  BY TypeCorrect, StateCorrect, PTL
<1>2. QED BY <1>1, WindowInitOK, WindowStep, PTL DEF Spec

\* No sequence of commands and resets reaches the factory image, whatever the
\* layout, the alternate settings and the order of the requests.
THEOREM FactoryCorrect == Spec => []FactoryUntouched
<1>1. WindowInv => FactoryUntouched
  BY DEF WindowInv
<1>2. QED BY <1>1, WindowCorrect, PTL

\* A sector is programmed inside the window that its room was counted in.
THEOREM WindowedCorrect == Spec => []WritesInsideWindow
<1>1. TypeOK /\ WindowInv => WritesInsideWindow
  BY WindowImplies
<1>2. QED BY <1>1, WindowCorrect, PTL

-----------------------------------------------------------------------------
(***************************************************************************)
(* The two notifications.  The counter covers every bit, in the            *)
(* notification or in the hand of a task that has not taken its count yet, *)
(* and the request whose bit is still to come.                             *)
(***************************************************************************)
BitsInHand == IF smPc = "take" THEN smBits ELSE {}
OnTheWay == IF svPc = "notify" THEN 1 ELSE 0

CountCoversBits ==
  Cardinality(bits) + Cardinality(BitsInHand) + OnTheWay <= counter

SignalInv ==
  /\ CountCoversBits
  /\ smPc = "take" => smBits # {}
  /\ smPc = "handle" => \E r \in Signals : smBits = {r}

LEMMA SignalSets ==
  ASSUME NEW S \in SUBSET Signals
  PROVE  IsFiniteSet(S) /\ Cardinality(S) \in Nat
<1>1. IsFiniteSet(Signals)
  <2> DEFINE Add(T, x) == T \cup {x}
             Three == Add(Add(Add({}, "DNLOAD"), "UPLOAD"), "GETSTATUS")
  <2>1. \A T, x : IsFiniteSet(T) => IsFiniteSet(Add(T, x))
    BY FS_AddElement
  <2>2. IsFiniteSet(Three)
    <3> HIDE DEF Add
    <3>1. QED BY <2>1, FS_EmptySet
  <2>3. IsFiniteSet(Add(Add(Add(Three, "CLRSTATUS"), "ABORT"), "SETALTERNATE"))
    <3> HIDE DEF Add, Three
    <3>1. QED BY <2>1, <2>2
  <2>4. Signals = Add(Add(Add(Three, "CLRSTATUS"), "ABORT"), "SETALTERNATE")
    BY DEF Signals
  <2>5. QED BY <2>3, <2>4
<1>2. QED BY <1>1, FS_Subset, FS_CardinalityType

LEMMA SignalInit == Init => SignalInv
  BY FS_EmptySet DEF Init, SignalInv, CountCoversBits, BitsInHand, OnTheWay

LEMMA OneBitFromCount == TypeOK /\ SignalInv => OneBitWhenCounterIsOne
<1> SUFFICES ASSUME TypeOK, SignalInv, smPc = "take", counter = 1
             PROVE  \E r \in Signals : smBits = {r}
  BY DEF OneBitWhenCounterIsOne, SignalInv
<1>1. smBits \in SUBSET Signals /\ bits \in SUBSET Signals
  BY DEF TypeOK, TaskTypeOK
<1>2. /\ IsFiniteSet(smBits) /\ Cardinality(smBits) \in Nat
      /\ Cardinality(bits) \in Nat
  BY <1>1, SignalSets
<1>3. Cardinality(smBits) <= 1
  BY <1>2 DEF SignalInv, CountCoversBits, BitsInHand, OnTheWay
<1>4. Cardinality(smBits) # 0
  BY <1>2, FS_EmptySet DEF SignalInv
<1>5. Cardinality(smBits) = 1
  BY <1>2, <1>3, <1>4
<1>6. PICK r : smBits = {r}
  BY <1>2, <1>5, FS_Singleton
<1>7. QED BY <1>1, <1>6

LEMMA SignalStep == TypeOK /\ SignalInv /\ [Next]_vars => SignalInv'
<1> SUFFICES ASSUME TypeOK, SignalInv, [Next]_vars PROVE SignalInv'
  OBVIOUS
<1>t. /\ bits \in SUBSET Signals /\ smBits \in SUBSET Signals
      /\ counter \in Nat
  BY DEF TypeOK, TaskTypeOK
<1>c. Cardinality(bits) \in Nat /\ Cardinality(smBits) \in Nat
  BY <1>t, SignalSets
<1>e. Cardinality({}) = 0
  BY FS_EmptySet
<1> USE <1>t, <1>c, <1>e DEF SignalInv, CountCoversBits, BitsInHand, OnTheWay
<1>1. CASE HostSends
  BY <1>1, HostKeeps DEF signalVars, smVars
<1>2. CASE Servicer
  <2>1. CASE StoreLength \/ CopyFragment \/ SetMoveToError \/ SetMoveToErrorStatus
    BY <2>1 DEF StoreLength, CopyFragment, SetMoveToError, SetMoveToErrorStatus,
                signalVars, smVars
  <2>2. CASE Give
    BY <2>2 DEF Give, smVars
  <2>3. CASE Notify
    <3>1. Cardinality(bits \cup {svRequest}) <= Cardinality(bits) + 1
          /\ Cardinality(bits \cup {svRequest}) \in Nat
      <4> HIDE DEF SignalInv, CountCoversBits, BitsInHand, OnTheWay
      <4>1. IsFiniteSet(bits)
        BY SignalSets
      <4>2. Cardinality(bits \cup {svRequest}) =
              IF svRequest \in bits THEN Cardinality(bits) ELSE Cardinality(bits) + 1
        BY <4>1, FS_AddElement
      <4>3. QED BY <4>2
    <3>2. /\ svPc = "notify" /\ svPc' # "notify"
          /\ bits' = bits \cup {svRequest}
          /\ UNCHANGED <<counter, smVars>>
      BY <2>3 DEF Notify
    <3>3. UNCHANGED BitsInHand
      BY <3>2 DEF smVars
    <3>4. Cardinality(BitsInHand) \in Nat
      OBVIOUS
    <3>5. CountCoversBits'
      <4> HIDE DEF BitsInHand
      <4>1. QED BY <3>1, <3>2, <3>3, <3>4
    <3>6. QED BY <3>2, <3>5 DEF smVars
  <2>4. CASE TakeUpload
    BY <2>4 DEF TakeUpload, smVars
  <2>5. CASE Deciding
    BY <2>5, DecidingKeeps DEF signalVars, smVars
  <2>6. QED BY <1>2, <2>1, <2>2, <2>3, <2>4, <2>5 DEF Servicer, Deciding
<1>3. CASE StateMachine
  <2> USE DEF Done, KeepSignals, signalVars, svVars
  <2>1. CASE SmWait
    BY <2>1 DEF SmWait, BitsCleared
  <2>2. CASE SmTakeOne
    <3>1. \E r \in Signals : smBits = {r}
      BY <2>2, OneBitFromCount DEF SmTakeOne, OneBitWhenCounterIsOne
    <3>2. Cardinality(smBits) = 1
      BY <3>1, FS_Singleton
    <3>3. QED BY <2>2, <3>1, <3>2 DEF SmTakeOne, CounterTaken
  <2>3. CASE SmTakeStalled
    <3>1. Cardinality(smBits) # 0
      BY <2>3, SignalSets, FS_EmptySet DEF SmTakeStalled
    <3>2. QED BY <2>3, <3>1 DEF SmTakeStalled, CounterTaken
  <2>4. CASE SmRefuse \/ SmReset \/ SmDownload \/ SmUpload \/ SmStatusResting
    <3>1. UNCHANGED <<bits, counter, svPc>> /\ smPc = "handle" /\ smPc' = "wait"
      BY <2>4 DEF SmRefuse, SmReset, SmDownload, SmUpload, SmStatusResting, Serves
    <3>2. QED BY <3>1
  <2>5. CASE SmStatusSync \/ SmProgram \/ SmManifest \/ SmFinish
    BY <2>5 DEF SmStatusSync, SmProgram, SmManifest, SmFinish, Serves
  <2>6. QED BY <1>3, <2>1, <2>2, <2>3, <2>4, <2>5 DEF StateMachine
<1>4. CASE WatchdogReset
  BY <1>4 DEF WatchdogReset, Done
<1>5. CASE UNCHANGED vars
  BY <1>5 DEF vars, signalVars, smVars, svVars
<1>6. QED BY <1>1, <1>2, <1>3, <1>4, <1>5 DEF Next

\* A request is served only when its bit is the only one taken: the code's
\* switch needs no other case.
THEOREM OneBitCorrect == Spec => []OneBitWhenCounterIsOne
<1>1. Spec => [](TypeOK /\ SignalInv)
  <2>1. Spec => []TypeOK
    BY TypeCorrect
  <2>2. QED BY <2>1, SignalInit, SignalStep, PTL DEF Spec
<1>2. QED BY <1>1, OneBitFromCount, PTL

-----------------------------------------------------------------------------
(***************************************************************************)
(* The upload semaphore.  While an UPLOAD is signalled or in the hand of   *)
(* the state machine, its servicer waits, and nobody signals anything more.*)
(***************************************************************************)
UploadInv ==
  /\ SemaphoreAnswersUpload
  /\ smPc = "wait" => smBits = {}
  /\ "UPLOAD" \in bits => svPc = "upload"
  /\ "UPLOAD" \in smBits => svPc = "upload" /\ bits = {}

LEMMA UploadInit == Init => UploadInv
  BY DEF Init, UploadInv, SemaphoreAnswersUpload

LEMMA UploadStep == TypeOK /\ UploadInv /\ [Next]_vars => UploadInv'
<1> SUFFICES ASSUME TypeOK, UploadInv, [Next]_vars PROVE UploadInv'
  OBVIOUS
<1> USE DEF UploadInv, SemaphoreAnswersUpload
<1>1. CASE HostSends
  BY <1>1, HostKeeps DEF signalVars, smVars
<1>2. CASE Servicer
  <2>1. CASE StoreLength \/ CopyFragment \/ SetMoveToError \/ SetMoveToErrorStatus
    BY <2>1 DEF StoreLength, CopyFragment, SetMoveToError, SetMoveToErrorStatus,
                signalVars, smVars
  <2>2. CASE Give
    BY <2>2 DEF Give, smVars
  <2>3. CASE Notify
    BY <2>3 DEF Notify, smVars
  <2>4. CASE TakeUpload
    BY <2>4 DEF TakeUpload, SemaphoreTaken, smVars
  <2>5. CASE Deciding
    BY <2>5, DecidingKeeps DEF signalVars, smVars
  <2>6. QED BY <1>2, <2>1, <2>2, <2>3, <2>4, <2>5 DEF Servicer, Deciding
<1>3. CASE StateMachine
  <2> USE DEF Done, KeepSignals, signalVars, svVars
  <2>1. CASE SmWait
    BY <2>1 DEF SmWait, BitsCleared
  <2>2. CASE SmTakeOne \/ SmTakeStalled
    BY <2>2 DEF SmTakeOne, SmTakeStalled
  <2>3. CASE SmRefuse \/ SmReset \/ SmDownload \/ SmStatusResting
    BY <2>3 DEF SmRefuse, SmReset, SmDownload, SmStatusResting, Serves
  <2>4. CASE SmUpload
    BY <2>4 DEF SmUpload, Serves
  <2>5. CASE SmStatusSync \/ SmProgram \/ SmManifest \/ SmFinish
    BY <2>5 DEF SmStatusSync, SmProgram, SmManifest, SmFinish, Serves
  <2>6. QED BY <1>3, <2>1, <2>2, <2>3, <2>4, <2>5 DEF StateMachine
<1>4. CASE WatchdogReset
  BY <1>4 DEF WatchdogReset, Done
<1>5. CASE UNCHANGED vars
  BY <1>5 DEF vars, signalVars, smVars, svVars
<1>6. QED BY <1>1, <1>2, <1>3, <1>4, <1>5 DEF Next

\* The semaphore is given to the UPLOAD that waits for it, and to no later one.
THEOREM UploadCorrect == Spec => []SemaphoreAnswersUpload
<1>1. Spec => []TypeOK
  BY TypeCorrect
<1>2. Spec => []UploadInv
  BY <1>1, UploadInit, UploadStep, PTL DEF Spec
<1>3. UploadInv => SemaphoreAnswersUpload
  BY DEF UploadInv
<1>4. QED BY <1>2, <1>3, PTL
=============================================================================
