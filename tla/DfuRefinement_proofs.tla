------------------------- MODULE DfuRefinement_proofs -------------------------
(***************************************************************************)
(* Theorems about the firmware update for a host that lets each request    *)
(* settle before it sends the next one, with or without polls in between:  *)
(* what was acknowledged is whole, nothing is left over between requests,  *)
(* predictions come true, and the two tasks together do nothing that the   *)
(* atomic DfuProtocol does not do.                                         *)
(***************************************************************************)
EXTENDS DfuRefinement, DfuStateMachine_proofs

-----------------------------------------------------------------------------
(***************************************************************************)
(* The exchange of one request: its count and its bit are the only ones,   *)
(* and the state machine waits while the servicer prepares it.             *)
(***************************************************************************)
Waits == Host # "any"

Preparing == svPc \in {"length", "copy", "give", "notify", "reboot"}
OneRequest(S) == S = {svRequest} /\ svRequest \in Signals

ExchangeInv ==
  /\ Preparing => Settled
  /\ svPc \in {"length", "copy"} => svRequest = "DNLOAD"
  /\ svPc = "upload" => svRequest = "UPLOAD"
  /\ svPc = "decide" =>
       svRequest = "GETSTATUS" /\ (svSeen \notin Busy => Settled /\ state = svSeen)
  /\ counter = IF svPc = "notify" \/ bits # {} \/ smPc = "take" THEN 1 ELSE 0
  /\ bits # {} => OneRequest(bits) /\ smPc = "wait"
  /\ smPc = "wait" <=> smBits = {}
  /\ smPc # "wait" => OneRequest(smBits)
  /\ state \in Busy => svRequest = "GETSTATUS"

(***************************************************************************)
(* The data of the download: the fragments before the one in hand are in   *)
(* the buffer, and the one in hand from its copy until it is programmed.   *)
(***************************************************************************)
AnnouncesBlock ==
  /\ svRequest = "DNLOAD" /\ xferLength # 0
  /\ svPc \in {"give", "notify"} \/ bits # {} \/ smBits # {}

BufferInv ==
  /\ svPc \in {"length", "copy"} => svFrag = fragNumber
  /\ svPc = "copy" => xferLength # 0
  /\ 0 .. fragNumber - 1 \subseteq filled
  /\ AnnouncesBlock => fragNumber \in filled
  /\ state \in {"DNLOAD_SYNC", "DNBUSY"} /\ inProgress => fragNumber \in filled
  /\ smPc = "program" => inProgress
  /\ \A s \in Sectors : flash[s] # "holed"

(***************************************************************************)
(* Nothing else is in the buffer: what was in the slots after the one in   *)
(* hand went with a write or a reset, and that slot is filled only from    *)
(* its announcement to its write.                                          *)
(***************************************************************************)
AnnouncesDownload ==
  /\ svRequest = "DNLOAD"
  /\ svPc \in {"give", "notify"} \/ bits # {} \/ smBits # {}

CleanInv ==
  /\ filled \subseteq 0 .. fragNumber
  /\ state = "DNLOAD_IDLE" => ~inProgress
  /\ state \in {"DNLOAD_SYNC", "DNBUSY", "DNLOAD_IDLE"} /\ fragNumber \in filled =>
       inProgress \/ AnnouncesDownload

(***************************************************************************)
(* The timeout of a manifestation                                          *)
(***************************************************************************)
Announces(r) ==
  svRequest = r /\ (svPc \in {"give", "notify"} \/ bits # {} \/ smBits # {})

TimeoutInv ==
  /\ svPc = "decide" /\ svSeen = "MANIFEST" => previousTimeout = 0
  /\ state = "MANIFEST_SYNC" /\ Announces("GETSTATUS") => previousTimeout = 0
  /\ state = "MANIFEST" => previousTimeout = 0

(***************************************************************************)
(* What the host was told, until the state machine does it                 *)
(***************************************************************************)
Predicted ==
  CASE state = "DNLOAD_SYNC"   -> IF inProgress THEN "DNBUSY" ELSE "DNLOAD_IDLE"
    [] state = "MANIFEST_SYNC" -> IF inProgress THEN "MANIFEST" ELSE "IDLE"
    [] OTHER                   -> state

NeverPolls ==
  /\ svPc = "decide" => svSeen \notin Busy
  /\ svPc \notin {"flag", "flagStatus"} /\ ~moveToError

PredictionInv ==
  /\ NeverPolls
  /\ svPc = "decide" => told = "none"
  /\ told # "none" => svRequest = "GETSTATUS"
  /\ told # "none" /\ Announces("GETSTATUS") => told = Predicted
  /\ PredictionHolds

WorkInv ==
  /\ smPc = "finish" => ~inProgress
  /\ retval # "OK" => smPc = "finish" /\ state = "DNBUSY"
                      /\ retval \in {"errWRITE", "errADDRESS"}

-----------------------------------------------------------------------------
LEMMA HostAsks ==
  ASSUME HostSends, Waits
  PROVE  /\ told' = "none" /\ UNCHANGED previousTimeout
         /\ svPc' \in {"length", "decide", "give", "idle", "reboot"}
         /\ svPc' = "length" => svRequest' = "DNLOAD" /\ svFrag' = fragNumber
         /\ svPc' = "decide" => svRequest' = "GETSTATUS" /\ svSeen' = state
         /\ svPc' = "give" => svRequest' \in {"UPLOAD", "CLRSTATUS", "ABORT", "SETALTERNATE"}
         /\ \/ Settled
            \/ /\ Host = "polling" /\ state \in Busy
               /\ svPc' = "decide" /\ svRequest' = "GETSTATUS"
<1> USE DEF HostSends, Receive, ReceiveSignal, HostMaySend, Waits
<1>1. CASE ReceiveDownload
  BY <1>1 DEF ReceiveDownload, NextSlot
<1>2. CASE ReceiveUpload
  BY <1>2 DEF ReceiveUpload
<1>3. CASE ReceiveGetStatus
  BY <1>3 DEF ReceiveGetStatus
<1>4. CASE ReceiveClrStatus
  BY <1>4 DEF ReceiveClrStatus
<1>5. CASE ReceiveAbort
  BY <1>5 DEF ReceiveAbort
<1>6. CASE ReceiveSetAlternate
  BY <1>6 DEF ReceiveSetAlternate
<1>7. CASE ReceiveTransferBlock
  BY <1>7 DEF ReceiveTransferBlock
<1>8. CASE ReceiveDetach
  BY <1>8 DEF ReceiveDetach
<1>9. QED
  BY <1>1, <1>2, <1>3, <1>4, <1>5, <1>6, <1>7, <1>8

\* A decision, and the pause that may let a poll go unanswered.
LEMMA Decisions ==
  ASSUME Deciding
  PROVE  /\ svPc = "decide" /\ UNCHANGED svRequest
         /\ \/ svSeen \notin Busy /\ svPc' = "give"
            \/ svSeen \in Busy /\ svPc' \in {"idle", "flag"}
<1> USE DEF Reply, Resting, Busy
<1>1. CASE DecideResting
  BY <1>1 DEF DecideResting
<1>2. CASE DecideDownloadSync
  BY <1>2 DEF DecideDownloadSync
<1>3. CASE DecideManifestSync
  BY <1>3 DEF DecideManifestSync
<1>4. CASE DecideStillBusy
  BY <1>4 DEF DecideStillBusy
<1>5. CASE DecideTooEarly
  BY <1>5 DEF DecideTooEarly
<1>6. QED
  BY <1>1, <1>2, <1>3, <1>4, <1>5 DEF Deciding

LEMMA ExchangeInit == Init => ExchangeInv
  BY DEF Init, ExchangeInv, Preparing, Settled, Busy

LEMMA ExchangeStep ==
  TypeOK /\ StateInv /\ ExchangeInv /\ Waits /\ [Next]_vars => ExchangeInv'
<1> SUFFICES ASSUME TypeOK, StateInv, ExchangeInv, Waits, [Next]_vars
             PROVE  ExchangeInv'
  OBVIOUS
<1>b. state \in Busy <=> smPc \in {"program", "manifest", "finish"}
  BY DEF StateInv, BusyOnlyWhileWorking
<1>s. svPc \notin {"idle", "reboot"} => svRequest \in Signals
  BY DEF TypeOK, ServicerTypeOK
<1> USE <1>b, <1>s DEF ExchangeInv, Preparing, Settled, OneRequest
<1>1. CASE HostSends
  <2>1. UNCHANGED <<state, bits, counter, smPc, smBits>> /\ svPc = "idle"
    BY <1>1, HostKeeps DEF sessionVars, signalVars, smVars
  <2>2. CASE Settled
    BY <1>1, <2>1, <2>2, HostAsks
  <2>3. CASE ~Settled
    BY <1>1, <2>1, <2>3, HostAsks
  <2>4. QED BY <2>2, <2>3
<1>2. CASE Servicer
  <2>1. CASE StoreLength \/ CopyFragment \/ SetMoveToError \/ SetMoveToErrorStatus
    BY <2>1 DEF StoreLength, CopyFragment, SetMoveToError, SetMoveToErrorStatus,
                signalVars, smVars
  <2>2. CASE Give
    BY <2>2 DEF Give, smVars, sessionVars
  <2>3. CASE Notify
    BY <2>3 DEF Notify, smVars, sessionVars
  <2>4. CASE TakeUpload
    BY <2>4 DEF TakeUpload, smVars, sessionVars
  <2>5. CASE Deciding
    BY <2>5, Decisions, DecidingKeeps DEF signalVars, smVars, sessionVars
  <2>6. QED BY <1>2, <2>1, <2>2, <2>3, <2>4, <2>5 DEF Servicer, Deciding
<1>3. CASE StateMachine
  <2> USE DEF Done, KeepSignals, signalVars, svVars
  <2>1. CASE SmWait
    BY <2>1 DEF SmWait, BitsCleared, sessionVars
  <2>2. CASE SmTakeOne
    BY <2>2 DEF SmTakeOne, CounterTaken, sessionVars
  <2>3. CASE SmTakeStalled
    BY <2>3 DEF SmTakeStalled
  <2>4. CASE SmRefuse \/ SmReset \/ SmDownload \/ SmUpload \/ SmStatusResting
    <3>1. /\ UNCHANGED <<bits, counter, svVars>> /\ smPc = "handle"
          /\ smPc' = "wait" /\ smBits' = {} /\ state' \notin Busy
      BY <2>4 DEF SmRefuse, SmReset, SmDownload, SmUpload, SmStatusResting, Serves,
                  Error, ResetState, ResetStateTo, Resting, Busy, sessionVars
    <3>2. QED BY <3>1
  <2>5. CASE SmStatusSync
    BY <2>5 DEF SmStatusSync, Serves, Acknowledged, Busy
  <2>6. CASE SmProgram \/ SmManifest
    BY <2>6 DEF SmProgram, SmManifest
  <2>7. CASE SmFinish
    <3>1. UNCHANGED <<bits, counter, svVars>> /\ smPc = "finish"
          /\ smPc' = "wait" /\ smBits' = {} /\ state' \notin Busy
      BY <2>7 DEF SmFinish, Error, ResetStateTo, AfterWork, Busy
    <3>2. QED BY <3>1
  <2>8. QED BY <1>3, <2>1, <2>2, <2>3, <2>4, <2>5, <2>6, <2>7 DEF StateMachine
<1>4. CASE WatchdogReset
  BY <1>4 DEF WatchdogReset, Done, ResetState, ResetStateTo, Busy
<1>5. CASE UNCHANGED vars
  BY <1>5 DEF vars, sessionVars, signalVars, smVars, svVars
<1>6. QED BY <1>1, <1>2, <1>3, <1>4, <1>5 DEF Next

-----------------------------------------------------------------------------
LEMMA BufferInit == Init => BufferInv
  BY DEF Init, BufferInv, AnnouncesBlock, FlashInit

\* The state machine takes no step while the servicer prepares a request.
LEMMA Alone ==
  ASSUME ExchangeInv, StateMachine
  PROVE  ~Preparing
<1>1. smPc # "wait" \/ bits # {}
  BY DEF StateMachine, SmWait, SmTakeOne, SmTakeStalled, SmRefuse, SmReset, SmDownload,
         SmUpload, SmStatusResting, SmStatusSync, SmProgram, SmManifest, SmFinish, Serves
<1>2. QED BY <1>1 DEF ExchangeInv, Settled

LEMMA BufferStep ==
  TypeOK /\ StateInv /\ ExchangeInv /\ BufferInv /\ Waits /\ [Next]_vars => BufferInv'
<1> SUFFICES ASSUME TypeOK, StateInv, ExchangeInv, BufferInv, Waits, [Next]_vars
             PROVE  BufferInv'
  OBVIOUS
<1>f. fragNumber \in Nat /\ svLength \in {0, 1} /\ xferLength \in {0, 1}
  BY DfuAssumption DEF TypeOK, SessionTypeOK, ServicerTypeOK, Slots
<1>z. state \notin {"DNLOAD_SYNC", "DNBUSY", "DNLOAD_IDLE"} => fragNumber = 0
  BY DEF StateInv, SessionStartsAtZero
<1> USE <1>f DEF BufferInv, AnnouncesBlock
<1>1. CASE HostSends
  <2>1. /\ UNCHANGED <<state, inProgress, fragNumber, filled, flash, bits, smBits, smPc,
                       xferLength>>
        /\ svPc = "idle"
    BY <1>1, HostKeeps DEF sessionVars, signalVars, smVars, flashVars
  <2>2. CASE Settled
    <3>1. bits = {} /\ smBits = {}
      BY <2>2 DEF Settled, ExchangeInv
    <3>2. QED BY <1>1, <2>1, <3>1, HostAsks
  <2>3. CASE ~Settled
    BY <1>1, <2>1, <2>3, HostAsks
  <2>4. QED BY <2>2, <2>3
<1>2. CASE Servicer
  <2>1. CASE StoreLength
    <3>1. bits = {} /\ smBits = {}
      BY <2>1 DEF StoreLength, Settled, ExchangeInv, Preparing
    <3>2. QED BY <2>1, <3>1 DEF StoreLength, signalVars, smVars, flashVars
  <2>2. CASE CopyFragment
    BY <2>2 DEF CopyFragment, signalVars, smVars, flashVars
  <2>3. CASE SetMoveToError \/ SetMoveToErrorStatus
    BY <2>3 DEF SetMoveToError, SetMoveToErrorStatus, signalVars, smVars, flashVars
  <2>4. CASE Give
    BY <2>4 DEF Give, smVars, flashVars, sessionVars
  <2>5. CASE Notify
    BY <2>5 DEF Notify, smVars, flashVars, sessionVars
  <2>6. CASE TakeUpload
    BY <2>6 DEF TakeUpload, smVars, flashVars, sessionVars
  <2>7. CASE Deciding
    BY <2>7, Decisions, DecidingKeeps
    DEF signalVars, smVars, sessionVars, flashVars, ExchangeInv
  <2>8. QED BY <1>2, <2>1, <2>2, <2>3, <2>4, <2>5, <2>6, <2>7 DEF Servicer, Deciding
<1>3. CASE StateMachine
  <2>a. ~Preparing
    BY <1>3, Alone
  <2>p. UNCHANGED svVars /\ svPc \notin {"length", "copy", "give", "notify"}
    BY <1>3, <2>a
    DEF Preparing, StateMachine, SmWait, SmTakeOne, SmTakeStalled, SmRefuse, SmReset,
        SmDownload, SmUpload, SmStatusResting, SmStatusSync, SmProgram, SmManifest,
        SmFinish, KeepSignals
  <2> USE <2>p DEF Done, KeepBuffer, svVars
  <2>1. CASE SmWait
    BY <2>1 DEF SmWait, BitsCleared, sessionVars, flashVars
  <2>2. CASE SmTakeOne
    BY <2>2 DEF SmTakeOne, sessionVars, flashVars
  <2>3. CASE SmTakeStalled \/ SmRefuse \/ SmReset
    <3>1. /\ fragNumber' = 0 /\ xferLength' = 0 /\ state' \in {"IDLE", "ERROR"}
          /\ smPc' = "wait" /\ UNCHANGED flash
      BY <2>3 DEF SmTakeStalled, SmRefuse, SmReset, Error, ResetState, ResetStateTo,
                  ResetDownloadBuffer, flashVars
    <3>2. QED BY <3>1
  <2>4. CASE SmDownload
    <3>1. smPc = "handle" /\ smBits = {svRequest} /\ svRequest = "DNLOAD" /\ bits = {}
      BY <2>4 DEF SmDownload, Serves, ExchangeInv, OneRequest
    <3>2. CASE xferLength # 0
      BY <2>4, <3>1, <3>2 DEF SmDownload, KeepSignals, signalVars, flashVars
    <3>3. CASE xferLength = 0
      BY <2>4, <3>1, <3>3
      DEF SmDownload, ResetDownloadBuffer, KeepSignals, signalVars, flashVars
    <3>4. QED BY <3>2, <3>3
  <2>5. CASE SmUpload
    <3>1. smPc = "handle" /\ smBits = {svRequest} /\ svRequest = "UPLOAD" /\ bits = {}
      BY <2>5 DEF SmUpload, Serves, ExchangeInv, OneRequest
    <3>2. CASE state \in {"IDLE", "UPLOAD_IDLE"}
      BY <2>5, <3>1, <3>2, <1>z DEF SmUpload, flashVars
    <3>3. CASE state \notin {"IDLE", "UPLOAD_IDLE"}
      BY <2>5, <3>1, <3>3 DEF SmUpload, Error, ResetStateTo, ResetDownloadBuffer, flashVars
    <3>4. QED BY <3>2, <3>3
  <2>6. CASE SmStatusResting
    BY <2>6 DEF SmStatusResting, KeepSignals, sessionVars, signalVars, flashVars
  <2>7. CASE SmStatusSync
    BY <2>7 DEF SmStatusSync, Acknowledged, KeepSignals, signalVars, flashVars
  <2>8. CASE SmProgram
    <3>1. /\ state = "DNBUSY" /\ inProgress /\ fragNumber \in filled
          /\ svRequest = "GETSTATUS"
      BY <2>8 DEF SmProgram, StateInv, WorkMatchesState, ExchangeInv, Busy
    <3>2. CASE LastFragment
      <4>1. filled = Slots
        <5>1. filled \subseteq Slots
          BY DEF TypeOK, SessionTypeOK
        <5>2. Slots \subseteq filled
          BY <3>1, <3>2, DfuAssumption DEF LastFragment, Slots
        <5>3. QED BY <5>1, <5>2
      <4>2. PICK content : /\ WriteToFlash(altSetting, blockNumber, content)
                           /\ content = altSetting
        BY <2>8, <3>2, <4>1 DEF SmProgram
      <4>3. \A s \in Sectors : flash'[s] \in {flash[s], altSetting}
        BY <4>2 DEF WriteToFlash, flashVars, TypeOK, FlashTypeOK
      <4>4. altSetting # "holed"
        BY DEF TypeOK, SessionTypeOK, AltSettings, Writable
      <4>5. QED BY <2>8, <3>1, <3>2, <4>3, <4>4 DEF SmProgram
    <3>3. CASE ~LastFragment
      BY <2>8, <3>1, <3>3 DEF SmProgram, flashVars
    <3>4. QED BY <3>2, <3>3
  <2>9. CASE SmManifest
    BY <2>9 DEF SmManifest, MakeManifest, StateInv, WorkMatchesState, KeepSignals, signalVars
  <2>10. CASE SmFinish
    <3>1. CASE moveToError \/ retval # "OK"
      BY <2>10, <3>1 DEF SmFinish, Error, ResetStateTo, ResetDownloadBuffer, flashVars
    <3>2. CASE ~moveToError /\ retval = "OK"
      <4>1. state \in Busy
        BY <2>10 DEF SmFinish, StateInv, BusyOnlyWhileWorking
      <4>2. QED
        BY <2>10, <3>2, <4>1 DEF SmFinish, AfterWork, Busy, KeepSignals, signalVars, flashVars
    <3>3. QED BY <3>1, <3>2
  <2>11. QED BY <1>3, <2>1, <2>2, <2>3, <2>4, <2>5, <2>6, <2>7, <2>8, <2>9, <2>10
             DEF StateMachine
<1>4. CASE WatchdogReset
  <2>1. PICK lost \in {{}, SectorInFlight} : FlashReset(lost)
    BY <1>4 DEF WatchdogReset
  <2>2. \A s \in Sectors : flash'[s] # "holed"
    BY <2>1 DEF FlashReset
  <2>3. QED
    BY <1>4, <2>2 DEF WatchdogReset, ResetState, ResetStateTo, ResetDownloadBuffer, Done
<1>5. CASE UNCHANGED vars
  BY <1>5 DEF vars, sessionVars, signalVars, smVars, svVars, flashVars
<1>6. QED BY <1>1, <1>2, <1>3, <1>4, <1>5 DEF Next

LEMMA CleanStart == Init => CleanInv
  BY DEF Init, CleanInv

LEMMA CleanStep ==
  ASSUME TypeOK, StateInv, ExchangeInv, BufferInv, CleanInv, Waits, [Next]_vars
  PROVE  CleanInv'
<1>f. fragNumber \in Nat /\ fragNumber \in Slots /\ filled \subseteq Slots
  BY DfuAssumption DEF TypeOK, SessionTypeOK, Slots
<1>z. state \notin {"DNLOAD_SYNC", "DNBUSY", "DNLOAD_IDLE"} => fragNumber = 0
  BY DEF StateInv, SessionStartsAtZero
<1> USE <1>f DEF CleanInv, AnnouncesDownload
<1>1. CASE HostSends
  <2>1. /\ UNCHANGED <<state, inProgress, fragNumber, filled, bits, smBits, smPc>>
        /\ svPc = "idle"
    BY <1>1, HostKeeps DEF sessionVars, signalVars, smVars
  <2>2. CASE Settled
    <3>1. bits = {} /\ smBits = {}
      BY <2>2 DEF Settled, ExchangeInv
    <3>2. QED BY <1>1, <2>1, <3>1, HostAsks
  <2>3. CASE ~Settled
    <3>1. svRequest' = "GETSTATUS" /\ state \in Busy
      BY <1>1, <2>1, <2>3, HostAsks
    <3>2. svRequest = "GETSTATUS"
      BY <3>1 DEF ExchangeInv
    <3>3. QED BY <2>1, <3>1, <3>2
  <2>4. QED BY <2>2, <2>3
<1>2. CASE Servicer
  <2>1. CASE StoreLength
    BY <2>1 DEF StoreLength, signalVars, smVars, ExchangeInv
  <2>2. CASE CopyFragment
    <3>1. svFrag = fragNumber /\ svRequest = "DNLOAD"
      BY <2>2 DEF CopyFragment, BufferInv, ExchangeInv
    <3>2. /\ UNCHANGED <<state, inProgress, fragNumber, svRequest>>
          /\ filled' = filled \cup {fragNumber} /\ svPc' = "give"
      BY <2>2, <3>1 DEF CopyFragment
    <3>3. filled' \subseteq 0 .. fragNumber'
      BY <3>2
    <3>4. AnnouncesDownload'
      BY <3>1, <3>2
    <3>5. QED BY <3>2, <3>3, <3>4
  <2>3. CASE SetMoveToError \/ SetMoveToErrorStatus
    <3>1. /\ UNCHANGED <<state, inProgress, fragNumber, filled, svRequest, bits, smBits>>
          /\ svPc \notin {"give", "notify"}
      BY <2>3 DEF SetMoveToError, SetMoveToErrorStatus, signalVars, smVars
    <3>2. AnnouncesDownload => AnnouncesDownload'
      BY <3>1
    <3>3. QED BY <3>1, <3>2
  <2>4. CASE Give
    BY <2>4 DEF Give, smVars, sessionVars
  <2>5. CASE Notify
    BY <2>5 DEF Notify, smVars, sessionVars
  <2>6. CASE TakeUpload
    BY <2>6 DEF TakeUpload, smVars, sessionVars
  <2>7. CASE Deciding
    <3>1. svRequest = "GETSTATUS" /\ UNCHANGED <<state, inProgress, fragNumber, filled>>
      BY <2>7, DecidingKeeps DEF sessionVars, ExchangeInv
    <3>2. ~AnnouncesDownload
      BY <3>1
    <3>3. QED BY <3>1, <3>2
  <2>8. QED BY <1>2, <2>1, <2>2, <2>3, <2>4, <2>5, <2>6, <2>7 DEF Servicer, Deciding
<1>3. CASE StateMachine
  <2>p. UNCHANGED svVars
    BY <1>3 DEF StateMachine, SmWait, SmTakeOne, SmTakeStalled, SmRefuse, SmReset,
        SmDownload, SmUpload, SmStatusResting, SmStatusSync, SmProgram, SmManifest,
        SmFinish, KeepSignals
  <2> USE <2>p DEF Done, KeepBuffer, svVars
  <2>1. CASE SmWait
    BY <2>1 DEF SmWait, BitsCleared, sessionVars
  <2>2. CASE SmTakeOne
    BY <2>2 DEF SmTakeOne, sessionVars
  <2>3. CASE SmTakeStalled \/ SmRefuse \/ SmReset
    <3>1. filled' = {} /\ state' \in {"IDLE", "ERROR"}
      BY <2>3 DEF SmTakeStalled, SmRefuse, SmReset, Error, ResetState, ResetStateTo,
                  ResetDownloadBuffer
    <3>2. QED BY <3>1
  <2>4. CASE SmDownload
    <3>1. CASE xferLength # 0
      BY <2>4, <3>1 DEF SmDownload
    <3>2. CASE xferLength = 0
      BY <2>4, <3>2 DEF SmDownload, ResetDownloadBuffer
    <3>3. QED BY <3>1, <3>2
  <2>5. CASE SmUpload
    <3>1. CASE state \in {"IDLE", "UPLOAD_IDLE"}
      BY <2>5, <3>1, <1>z DEF SmUpload
    <3>2. CASE state \notin {"IDLE", "UPLOAD_IDLE"}
      BY <2>5, <3>2 DEF SmUpload, Error, ResetStateTo, ResetDownloadBuffer
    <3>3. QED BY <3>1, <3>2
  <2>6. CASE SmStatusResting
    <3>1. smBits = {svRequest} /\ svRequest = "GETSTATUS"
      BY <2>6 DEF SmStatusResting, Serves, ExchangeInv, OneRequest
    <3>2. QED BY <2>6, <3>1 DEF SmStatusResting, sessionVars
  <2>7. CASE SmStatusSync
    <3>1. smBits = {svRequest} /\ svRequest = "GETSTATUS"
      BY <2>7 DEF SmStatusSync, Serves, ExchangeInv, OneRequest
    <3>2. QED BY <2>7, <3>1 DEF SmStatusSync, Acknowledged
  <2>8. CASE SmProgram
    <3>1. state = "DNBUSY" /\ UNCHANGED state
      BY <2>8 DEF SmProgram, StateInv, WorkMatchesState
    <3>2. CASE LastFragment
      BY <2>8, <3>1, <3>2 DEF SmProgram
    <3>3. CASE ~LastFragment
      <4>1. fragNumber' = fragNumber + 1 /\ filled' = filled
        BY <2>8, <3>3 DEF SmProgram
      <4>2. filled' \subseteq 0 .. fragNumber' /\ fragNumber' \notin filled'
        BY <4>1
      <4>3. QED BY <3>1, <4>2
    <3>4. QED BY <3>2, <3>3
  <2>9. CASE SmManifest
    BY <2>9 DEF SmManifest, StateInv, WorkMatchesState
  <2>10. CASE SmFinish
    <3>1. CASE moveToError \/ retval # "OK"
      BY <2>10, <3>1 DEF SmFinish, Error, ResetStateTo, ResetDownloadBuffer
    <3>2. CASE ~moveToError /\ retval = "OK"
      <4>1. state \in Busy /\ svRequest = "GETSTATUS"
        BY <2>10 DEF SmFinish, StateInv, BusyOnlyWhileWorking, ExchangeInv
      <4>2. /\ UNCHANGED <<inProgress, fragNumber, filled>>
            /\ state' = IF state = "DNBUSY" THEN "DNLOAD_SYNC" ELSE "MANIFEST_SYNC"
        BY <2>10, <3>2 DEF SmFinish, AfterWork
      <4>3. state = "DNBUSY" /\ fragNumber \in filled => inProgress
        BY <4>1
      <4>4. QED BY <4>2, <4>3
    <3>3. QED BY <3>1, <3>2
  <2>11. QED BY <1>3, <2>1, <2>2, <2>3, <2>4, <2>5, <2>6, <2>7, <2>8, <2>9, <2>10
             DEF StateMachine
<1>4. CASE WatchdogReset
  BY <1>4 DEF WatchdogReset, ResetState, ResetStateTo, ResetDownloadBuffer
<1>5. CASE UNCHANGED vars
  BY <1>5 DEF vars, sessionVars, signalVars, smVars, svVars
<1>6. QED BY <1>1, <1>2, <1>3, <1>4, <1>5 DEF Next

-----------------------------------------------------------------------------
LEMMA TimeoutInit == Init => TimeoutInv
  BY DEF Init, TimeoutInv, Announces

LEMMA TimeoutStep ==
  TypeOK /\ StateInv /\ ExchangeInv /\ TimeoutInv /\ Waits /\ [Next]_vars => TimeoutInv'
<1> SUFFICES ASSUME TypeOK, StateInv, ExchangeInv, TimeoutInv, Waits, [Next]_vars
             PROVE  TimeoutInv'
  OBVIOUS
<1> USE DEF TimeoutInv, Announces
<1>1. CASE HostSends
  <2>1. UNCHANGED <<state, bits, smBits>> /\ svPc = "idle"
    BY <1>1, HostKeeps DEF sessionVars, signalVars, smVars
  <2>2. CASE Settled
    <3>1. bits = {} /\ smBits = {}
      BY <2>2 DEF Settled, ExchangeInv
    <3>2. QED BY <1>1, <2>1, <3>1, HostAsks
  <2>3. CASE ~Settled
    BY <1>1, <2>1, <2>3, HostAsks DEF Busy
  <2>4. QED BY <2>2, <2>3
<1>2. CASE Servicer
  <2>1. CASE StoreLength \/ CopyFragment
    BY <2>1 DEF StoreLength, CopyFragment, signalVars, smVars, ExchangeInv
  <2>2. CASE SetMoveToError \/ SetMoveToErrorStatus
    BY <2>2 DEF SetMoveToError, SetMoveToErrorStatus, signalVars, smVars
  <2>3. CASE Give \/ TakeUpload
    BY <2>3 DEF Give, TakeUpload, smVars, sessionVars
  <2>4. CASE Notify
    BY <2>4 DEF Notify, smVars, sessionVars
  <2>5. CASE Deciding
    <3>1. UNCHANGED <<state, bits, smBits>>
      BY <2>5, DecidingKeeps DEF sessionVars, signalVars, smVars
    <3>2. svPc = "decide" /\ svPc' # "decide"
      BY <2>5, DecidingKeeps
    <3>3. CASE DecideDownloadSync
      <4>1. state = "DNLOAD_SYNC"
        BY <3>3 DEF DecideDownloadSync, ExchangeInv, Busy
      <4>2. QED BY <3>1, <3>2, <4>1
    <3>4. CASE DecideStillBusy
      <4>1. svPc' = "idle" /\ UNCHANGED <<previousTimeout, svRequest>>
        BY <3>4 DEF DecideStillBusy, Reply
      <4>2. QED BY <3>1, <3>2, <4>1
    <3>5. CASE DecideResting \/ DecideManifestSync \/ DecideTooEarly
      <4>1. previousTimeout' = 0
        BY <3>5 DEF DecideResting, DecideManifestSync, DecideTooEarly, Reply
      <4>2. QED BY <4>1
    <3>6. QED BY <2>5, <3>3, <3>4, <3>5 DEF Deciding
  <2>6. QED BY <1>2, <2>1, <2>2, <2>3, <2>4, <2>5 DEF Servicer, Deciding
<1>3. CASE StateMachine
  <2>a. svPc \notin {"give", "notify"}
    BY <1>3, Alone DEF Preparing
  <2> USE <2>a DEF svVars
  <2>1. CASE SmWait
    BY <2>1 DEF SmWait, BitsCleared, sessionVars
  <2>2. CASE SmTakeOne
    BY <2>2 DEF SmTakeOne, sessionVars
  <2>3. CASE SmTakeStalled \/ SmRefuse \/ SmReset \/ SmUpload
    <3>1. state' \in {"IDLE", "UPLOAD_IDLE", "ERROR"} /\ UNCHANGED svVars
      BY <2>3 DEF SmTakeStalled, SmRefuse, SmReset, SmUpload, Error, ResetState,
                  ResetStateTo, KeepSignals
    <3>2. QED BY <3>1
  <2>4. CASE SmDownload
    <3>1. svRequest = "DNLOAD"
      BY <2>4 DEF SmDownload, Serves, ExchangeInv, OneRequest
    <3>2. QED BY <2>4, <3>1 DEF SmDownload, KeepSignals
  <2>5. CASE SmStatusResting
    BY <2>5 DEF SmStatusResting, KeepSignals, sessionVars, signalVars, Done
  <2>6. CASE SmStatusSync
    <3>1. svRequest = "GETSTATUS" /\ smBits # {}
      BY <2>6 DEF SmStatusSync, Serves, ExchangeInv, OneRequest
    <3>2. QED
      BY <2>6, <3>1 DEF SmStatusSync, Acknowledged, KeepSignals, signalVars
  <2>7. CASE SmProgram \/ SmManifest
    BY <2>7 DEF SmProgram, SmManifest, KeepSignals, signalVars
  <2>8. CASE SmFinish
    <3>1. bits = {} /\ smBits' = {} /\ state' # "MANIFEST" /\ UNCHANGED <<bits, svVars>>
      BY <2>8 DEF SmFinish, ExchangeInv, Done, Error, ResetStateTo, AfterWork, KeepSignals,
                  signalVars
    <3>2. QED BY <3>1
  <2>9. QED BY <1>3, <2>1, <2>2, <2>3, <2>4, <2>5, <2>6, <2>7, <2>8 DEF StateMachine
<1>4. CASE WatchdogReset
  BY <1>4 DEF WatchdogReset, ResetState, ResetStateTo
<1>5. CASE UNCHANGED vars
  BY <1>5 DEF vars, sessionVars, signalVars, smVars, svVars
<1>6. QED BY <1>1, <1>2, <1>3, <1>4, <1>5 DEF Next

LEMMA WorkInit == Init => WorkInv
  BY DEF Init, WorkInv

LEMMA WorkStep == TypeOK /\ StateInv /\ WorkInv /\ [Next]_vars => WorkInv'
<1> SUFFICES ASSUME TypeOK, StateInv, WorkInv, [Next]_vars PROVE WorkInv'
  OBVIOUS
<1> USE DEF WorkInv
<1>1. CASE HostSends \/ Servicer \/ UNCHANGED vars
  <2>1. UNCHANGED SmOwned
    BY <1>1, ServicerKeeps DEF SmOwned, vars, sessionVars
  <2>2. QED BY <2>1 DEF SmOwned, smVars
<1>2. CASE StateMachine
  <2> USE DEF Done
  <2>1. CASE SmWait \/ SmTakeOne
    BY <2>1 DEF SmWait, SmTakeOne
  <2>2. CASE SmTakeStalled \/ SmRefuse \/ SmReset \/ SmDownload \/ SmUpload \/ SmStatusResting
             \/ SmFinish
    BY <2>2 DEF SmTakeStalled, SmRefuse, SmReset, SmDownload, SmUpload, SmStatusResting,
                SmFinish
  <2>3. CASE SmStatusSync
    BY <2>3 DEF SmStatusSync
  <2>4. CASE SmProgram
    BY <2>4 DEF SmProgram, WriteStatus, StateInv, WorkMatchesState
  <2>5. CASE SmManifest
    BY <2>5 DEF SmManifest
  <2>6. QED BY <1>2, <2>1, <2>2, <2>3, <2>4, <2>5 DEF StateMachine
<1>3. CASE WatchdogReset
  BY <1>3 DEF WatchdogReset, Done
<1>4. QED BY <1>1, <1>2, <1>3 DEF Next

-----------------------------------------------------------------------------
LEMMA PredictionInit == Init => PredictionInv
  BY DEF Init, PredictionInv, NeverPolls, PredictionHolds

LEMMA PredictionStep ==
  /\ Host = "settled"
  /\ TypeOK /\ StateInv /\ ExchangeInv /\ PredictionInv /\ [Next]_vars
  => PredictionInv'
<1> SUFFICES ASSUME Host = "settled", TypeOK, StateInv, ExchangeInv, PredictionInv,
                    [Next]_vars
             PROVE  PredictionInv'
  OBVIOUS
<1>w. Waits
  BY DEF Waits
<1>b. state \in Busy <=> smPc \in {"program", "manifest", "finish"}
  BY DEF StateInv, BusyOnlyWhileWorking
<1> USE DEF PredictionInv, NeverPolls, PredictionHolds, Announces, Quiet, Settled
<1>1. CASE HostSends
  <2>1. /\ UNCHANGED <<state, moveToError>> /\ svPc = "idle" /\ smPc = "wait"
        /\ told' = "none"
        /\ svPc' \in {"give", "length", "decide", "idle", "reboot"}
        /\ svPc' = "decide" => svSeen' = state
    BY <1>1, <1>w, HostKeeps, HostAsks DEF sessionVars
  <2>2. QED BY <2>1, <1>b
<1>2. CASE Servicer
  <2>1. CASE StoreLength \/ CopyFragment
    BY <2>1 DEF StoreLength, CopyFragment, ExchangeInv, Preparing
  <2>2. CASE SetMoveToError \/ SetMoveToErrorStatus
    BY <2>2 DEF SetMoveToError, SetMoveToErrorStatus
  <2>3. CASE Give
    BY <2>3 DEF Give, smVars, sessionVars, Predicted
  <2>4. CASE Notify
    BY <2>4 DEF Notify, smVars, sessionVars, Predicted
  <2>5. CASE TakeUpload
    <3>1. told = "none"
      BY <2>5 DEF TakeUpload, ExchangeInv
    <3>2. QED BY <2>5, <3>1 DEF TakeUpload, smVars, sessionVars
  <2>6. CASE Deciding
    <3>1. /\ UNCHANGED <<state, inProgress, moveToError, bits, smBits, smPc>>
          /\ svPc = "decide" /\ svPc' = "give" /\ svSeen = state
          /\ svRequest = "GETSTATUS" /\ UNCHANGED svRequest
      BY <2>6, DecidingKeeps, Decisions
      DEF sessionVars, signalVars, smVars, ExchangeInv
    <3>2. told' = Predicted
      <4>1. CASE DecideResting
        BY <3>1, <4>1 DEF DecideResting, Reply, Predicted, Resting
      <4>2. CASE DecideDownloadSync
        BY <3>1, <4>2 DEF DecideDownloadSync, Reply, Predicted
      <4>3. CASE DecideManifestSync
        BY <3>1, <4>3 DEF DecideManifestSync, Reply, Predicted
      <4>4. CASE DecideStillBusy \/ DecideTooEarly
        BY <3>1, <4>4 DEF DecideStillBusy, DecideTooEarly
      <4>5. QED BY <2>6, <4>1, <4>2, <4>3, <4>4 DEF Deciding
    <3>3. UNCHANGED Predicted
      BY <3>1 DEF Predicted
    <3>4. QED BY <3>1, <3>2, <3>3
  <2>7. QED BY <1>2, <2>1, <2>2, <2>3, <2>4, <2>5, <2>6 DEF Servicer, Deciding
<1>3. CASE StateMachine
  <2>a. svPc \notin {"give", "notify"}
    BY <1>3, Alone DEF Preparing
  <2>m. moveToError' = FALSE
    BY <1>3
    DEF StateMachine, SmWait, SmTakeOne, SmTakeStalled, SmRefuse, SmReset, SmDownload,
        SmUpload, SmStatusResting, SmStatusSync, SmProgram, SmManifest, SmFinish,
        sessionVars, Error, ResetState, ResetStateTo
  <2>v. UNCHANGED svVars
    BY <1>3
    DEF StateMachine, SmWait, SmTakeOne, SmTakeStalled, SmRefuse, SmReset, SmDownload,
        SmUpload, SmStatusResting, SmStatusSync, SmProgram, SmManifest, SmFinish,
        KeepSignals
  <2> USE <2>a, <2>m, <2>v DEF svVars, Done, Predicted
  <2>1. CASE SmWait
    BY <2>1 DEF SmWait, BitsCleared, sessionVars
  <2>2. CASE SmTakeOne
    BY <2>2 DEF SmTakeOne, sessionVars
  <2>3. CASE SmTakeStalled
    BY <2>3 DEF SmTakeStalled, ExchangeInv
  <2>4. CASE SmRefuse \/ SmReset \/ SmDownload \/ SmUpload
    <3>1. PICK r \in Signals : Serves(r) /\ (r = "GETSTATUS" => ~Accepts(r))
      BY <2>4 DEF SmRefuse, SmReset, SmDownload, SmUpload, Signals
    <3>2. svRequest # "GETSTATUS"
      BY <3>1, <1>b DEF Accepts, Serves, ExchangeInv, OneRequest
    <3>3. QED BY <3>2
  <2>5. CASE SmStatusResting
    BY <2>5 DEF SmStatusResting, Serves, KeepSignals, sessionVars, signalVars, Resting,
                ExchangeInv, OneRequest
  <2>6. CASE SmStatusSync
    BY <2>6 DEF SmStatusSync, Serves, Acknowledged, KeepSignals, signalVars, ExchangeInv,
                OneRequest
  <2>7. CASE SmProgram \/ SmManifest
    <3>1. /\ state \in Busy /\ UNCHANGED <<state, bits, smBits>> /\ smPc' = "finish"
      BY <2>7, <1>b DEF SmProgram, SmManifest, KeepSignals, signalVars
    <3>2. QED BY <3>1, <1>b DEF Busy
  <2>8. CASE SmFinish
    <3>1. state \in Busy /\ smBits # {} /\ svRequest = "GETSTATUS"
      BY <2>8, <1>b DEF SmFinish, ExchangeInv
    <3>2. told # "none" => told = state
      BY <3>1 DEF Busy
    <3>3. /\ smPc' = "wait" /\ smBits' = {} /\ bits' = {}
          /\ state' \in {"ERROR", AfterWork(state)}
      BY <2>8 DEF SmFinish, Error, ResetStateTo, KeepSignals, signalVars, ExchangeInv
    <3>4. QED BY <3>1, <3>2, <3>3 DEF AfterWork, Busy
  <2>9. QED BY <1>3, <2>1, <2>2, <2>3, <2>4, <2>5, <2>6, <2>7, <2>8 DEF StateMachine
<1>4. CASE WatchdogReset
  BY <1>4 DEF WatchdogReset, ResetState, ResetStateTo
<1>5. CASE UNCHANGED vars
  BY <1>5 DEF vars, sessionVars, signalVars, smVars, svVars, Predicted
<1>6. QED BY <1>1, <1>2, <1>3, <1>4, <1>5 DEF Next

-----------------------------------------------------------------------------
(***************************************************************************)
(* What the host can rely on when it waits                                 *)
(***************************************************************************)
WaitingInv == TypeOK /\ StateInv /\ WindowInv /\ ExchangeInv /\ BufferInv /\ TimeoutInv

LEMMA WaitingCorrect ==
  ASSUME Waits
  PROVE  Spec => []WaitingInv
<1>1. Init => WaitingInv
  BY TypeInit, StateInit, WindowInitOK, ExchangeInit, BufferInit, TimeoutInit
  DEF WaitingInv
<1>2. WaitingInv /\ [Next]_vars => WaitingInv'
  BY TypeStep, StateStep, WindowStep, ExchangeStep, BufferStep, TimeoutStep
  DEF WaitingInv
<1>3. QED BY <1>1, <1>2, PTL DEF Spec

\* When nothing is under way, no request is left in the counter: the next one
\* is served, and not refused for the one before it.
THEOREM CountedCorrect == Waits => (Spec => []NothingLeftCounted)
<1> SUFFICES ASSUME Waits PROVE Spec => []NothingLeftCounted
  OBVIOUS
<1>1. WaitingInv => NothingLeftCounted
  BY DEF WaitingInv, ExchangeInv, NothingLeftCounted, Quiet, Settled
<1>2. QED BY <1>1, WaitingCorrect, PTL

\* Remainders of numbers that are at most one turn of the timer away
LEMMA OneTurnAway ==
  ASSUME NEW M \in Nat \ {0}, NEW x \in Int
  PROVE  /\ 0 <= x /\ x < M => x % M = x
         /\ M <= x /\ x < 2 * M => x % M = x - M
         /\ -M < x /\ x < 0 => x % M = x + M
<1>1. 0 <= x /\ x < M => x % M = x
  OBVIOUS
<1>2. M <= x /\ x < 2 * M => x % M = x - M
  OBVIOUS
<1>3. -M < x /\ x < 0 => x % M = x + M
  OBVIOUS
<1> QED
  BY <1>1, <1>2, <1>3

\* The comparison of dfu_int_get_status, whether the timer wraps between the
\* start of the timeout and the poll, between the poll and its end, or not.
LEMMA EarlyByElapsedTime ==
  ASSUME previousTimeout \in Timeouts, NEW start \in Clock, NEW elapsed \in Clock
  PROVE  TooEarly(start, After(start, elapsed)) <=> elapsed \in 1 .. previousTimeout
<1> DEFINE M == ClockModulus
           p == previousTimeout
           ends == (start + p) % M
           now == (start + elapsed) % M
           left == (ends - now) % M
<1>1. /\ M \in Nat \ {0} /\ M > 10 /\ p \in Nat /\ p <= 10
      /\ start \in Nat /\ start < M /\ elapsed \in Nat /\ elapsed < M
  BY DfuAssumption DEF LongestTimeout, Timeouts, Clock
<1> HIDE DEF M, p
<1>2. ends = IF start + p < M THEN start + p ELSE (start + p) - M
  <2>1. start + p \in Int /\ 0 <= start + p /\ start + p < 2 * M
    BY <1>1
  <2>2. start + p < M => ends = start + p
    BY <1>1, <2>1, OneTurnAway
  <2>3. M <= start + p => ends = (start + p) - M
    BY <1>1, <2>1, OneTurnAway
  <2> HIDE DEF ends
  <2> QED BY <1>1, <2>1, <2>2, <2>3
<1>3. now = IF start + elapsed < M THEN start + elapsed ELSE (start + elapsed) - M
  <2>1. start + elapsed \in Int /\ 0 <= start + elapsed /\ start + elapsed < 2 * M
    BY <1>1
  <2>2. start + elapsed < M => now = start + elapsed
    BY <1>1, <2>1, OneTurnAway
  <2>3. M <= start + elapsed => now = (start + elapsed) - M
    BY <1>1, <2>1, OneTurnAway
  <2> HIDE DEF now
  <2> QED BY <1>1, <2>1, <2>2, <2>3
<1> HIDE DEF ends, now
<1>4. left = IF ends >= now THEN ends - now ELSE (ends - now) + M
  <2>1. ends - now \in Int /\ -M < ends - now /\ ends - now < M
    BY <1>1, <1>2, <1>3
  <2>2. 0 <= ends - now => left = ends - now
    BY <1>1, <2>1, OneTurnAway
  <2>3. ends - now < 0 => left = (ends - now) + M
    BY <1>1, <2>1, OneTurnAway
  <2> HIDE DEF left
  <2> QED BY <1>1, <1>2, <1>3, <2>1, <2>2, <2>3
<1> HIDE DEF left
<1>5. left = IF elapsed <= p THEN p - elapsed ELSE (p - elapsed) + M
  BY <1>1, <1>2, <1>3, <1>4
<1>6. left < p <=> elapsed \in 1 .. p
  BY <1>1, <1>5
<1> QED
  BY <1>6 DEF TooEarly, TimeoutEnd, After, left, ends, now, M, p

\* A poll of the busy machine is refused in the time that was announced and at
\* no other time, for every width of the timer that holds the longest timeout.
THEOREM PollCorrect == Waits => (Spec => []PollJudgedByElapsedTime)
<1> SUFFICES ASSUME Waits PROVE Spec => []PollJudgedByElapsedTime
  OBVIOUS
<1>1. WaitingInv => PollJudgedByElapsedTime
  <2> SUFFICES ASSUME WaitingInv PROVE PollJudgedByElapsedTime
    OBVIOUS
  <2>1. previousTimeout \in Timeouts
    BY DEF WaitingInv, TypeOK, ServicerTypeOK
  <2>2. \A start, elapsed \in Clock :
          TooEarly(start, After(start, elapsed)) <=> elapsed \in 1 .. previousTimeout
    BY <2>1, EarlyByElapsedTime
  <2>3. svPc = "decide" /\ svSeen = "MANIFEST" => previousTimeout = 0
    BY DEF WaitingInv, TimeoutInv
  <2> QED BY <2>2, <2>3 DEF PollJudgedByElapsedTime
<1>2. QED BY <1>1, WaitingCorrect, PTL

\* Every sector of a download that was acknowledged holds all of its fragments.
THEOREM WholeCorrect == Waits => (Spec => []AcknowledgedSectorsWhole)
<1> SUFFICES ASSUME Waits PROVE Spec => []AcknowledgedSectorsWhole
  OBVIOUS
<1>1. ASSUME WaitingInv, state = "DNLOAD_IDLE", NEW k \in 0 .. blockNumber - 1
      PROVE  flash[dnBaseAddr + k] # "holed"
  <2>1. smPc # "finish"
    BY <1>1 DEF WaitingInv, StateInv, BusyOnlyWhileWorking, Busy
  <2>2. /\ blockNumber \in Nat /\ totalLen \in Nat /\ bytesAvail \in Nat
        /\ dnBaseAddr \in Nat
    BY <1>1, DfuAssumption DEF WaitingInv, TypeOK, SessionTypeOK, FlashTypeOK
  <2>3. dnBaseAddr # 0 /\ blockNumber <= totalLen /\ totalLen <= bytesAvail
    BY <1>1, <2>1, <2>2 DEF WaitingInv, WindowInv, BlockBehindTotal, TotalInWindow
  <2>4. dnBaseAddr + k \in Sectors
    BY <1>1, <2>2, <2>3, LayoutAssumption
    DEF WaitingInv, WindowInv, WindowIsPartition, Sectors
  <2>5. QED BY <1>1, <2>4 DEF WaitingInv, BufferInv
<1>2. WaitingInv => AcknowledgedSectorsWhole
  BY <1>1 DEF AcknowledgedSectorsWhole
<1>3. QED BY <1>2, WaitingCorrect, PTL

\* Between two blocks the buffer holds exactly the acknowledged fragments that
\* are not in the flash: the end of the download drops less than a sector.
THEOREM RestCorrect == Waits => (Spec => []RestIsInBuffer)
<1> SUFFICES ASSUME Waits PROVE Spec => []RestIsInBuffer
  OBVIOUS
<1>1. WaitingInv /\ CleanInv /\ [Next]_vars => CleanInv'
  BY CleanStep DEF WaitingInv
<1>2. ASSUME WaitingInv, CleanInv, Quiet, state = "DNLOAD_IDLE"
      PROVE  filled = 0 .. fragNumber - 1
  <2>1. fragNumber \in Nat
    BY <1>2, DfuAssumption DEF WaitingInv, TypeOK, SessionTypeOK, Slots
  <2>2. 0 .. fragNumber - 1 \subseteq filled /\ filled \subseteq 0 .. fragNumber
    BY <1>2 DEF WaitingInv, BufferInv, CleanInv
  <2>3. ~inProgress /\ ~AnnouncesDownload
    BY <1>2 DEF CleanInv, AnnouncesDownload, Quiet, Settled, WaitingInv, ExchangeInv
  <2>4. fragNumber \notin filled
    BY <1>2, <2>3 DEF CleanInv
  <2>5. \A i \in 0 .. fragNumber : i # fragNumber => i \in 0 .. fragNumber - 1
    BY <2>1
  <2>6. filled \subseteq 0 .. fragNumber - 1
    BY <2>2, <2>4, <2>5
  <2>7. QED BY <2>2, <2>6
<1>3. WaitingInv /\ CleanInv => RestIsInBuffer
  BY <1>2 DEF RestIsInBuffer
<1>4. QED BY <1>1, <1>3, CleanStart, WaitingCorrect, PTL DEF Spec

LEMMA SettledCorrect ==
  ASSUME Host = "settled"
  PROVE  Spec => [](WaitingInv /\ WorkInv /\ PredictionInv)
<1>1. Spec => []WaitingInv
  BY WaitingCorrect DEF Waits
<1>2. Init => WorkInv /\ PredictionInv
  BY WorkInit, PredictionInit
<1>3. WaitingInv /\ WorkInv /\ PredictionInv /\ [Next]_vars => WorkInv' /\ PredictionInv'
  BY WorkStep, PredictionStep DEF WaitingInv
<1>4. QED BY <1>1, <1>2, <1>3, PTL DEF Spec

\* The state that GETSTATUS announced is the one the machine is found in, or the
\* one it comes to when the announced work is done.
THEOREM PredictionCorrect == Host = "settled" => (Spec => []PredictionHolds)
<1> SUFFICES ASSUME Host = "settled" PROVE Spec => []PredictionHolds
  OBVIOUS
<1>1. PredictionInv => PredictionHolds
  BY DEF PredictionInv
<1>2. QED BY <1>1, SettledCorrect, PTL

-----------------------------------------------------------------------------
(***************************************************************************)
(* The refinement: the mapped variables by name, and how each task's steps *)
(* change them                                                             *)
(***************************************************************************)
Stands == IF state = "DNBUSY" THEN "DNLOAD_SYNC"
          ELSE IF state = "MANIFEST" THEN "MANIFEST_SYNC" ELSE state
Unfinished == inProgress \/ state \in Busy
Asked == IF svPc = "reboot" THEN "DETACH" ELSE RequestOf(bits \cup smBits)

KindOf(r) == IF r # "DNLOAD" THEN r ELSE IF xferLength # 0 THEN "BLOCK" ELSE "END"

LEMMA AskedNothing ==
  /\ bits = {} /\ smBits = {} /\ svPc # "reboot" => Asked = "none"
  /\ bits' = {} /\ smBits' = {} /\ svPc' # "reboot" => Asked' = "none"
  BY DEF Asked, RequestOf

LEMMA AskedOne ==
  ASSUME NEW r
  PROVE  /\ bits \cup smBits = {r} /\ svPc # "reboot" => Asked = KindOf(r)
         /\ bits' \cup smBits' = {r} /\ svPc' # "reboot" /\ UNCHANGED xferLength
              => Asked' = KindOf(r)
<1>1. (CHOOSE x \in {r} : TRUE) = r
  OBVIOUS
<1>2. {r} # {}
  OBVIOUS
<1>3. QED BY <1>1, <1>2 DEF Asked, RequestOf, KindOf

\* A step that leaves the state, and what is signalled, is none of the protocol.
LEMMA Stutters ==
  ASSUME UNCHANGED <<Stands, status, Unfinished, Asked>>
  PROVE  UNCHANGED Protocol!vars
  BY DEF Protocol!vars, Stands, Unfinished, Asked

\* The end of a request, as the protocol has it
ServedAs(kind) ==
  /\ Asked = kind /\ Asked' = "none"
  /\ CASE kind = "BLOCK"     -> Protocol!Block
       [] kind = "END"       -> Protocol!End
       [] kind = "UPLOAD"    -> Protocol!Upload
       [] kind = "GETSTATUS" -> Protocol!GetStatus
       [] kind = "CLRSTATUS" -> Protocol!ClrStatus
       [] kind = "ABORT"     -> Protocol!Abort
       [] kind \in {"SETALTERNATE", "DETACH"} -> Protocol!Resets

LEMMA ServedIsServe ==
  ASSUME NEW kind \in Protocol!RequestKinds, ServedAs(kind)
  PROVE  Protocol!Serve
  BY DEF ServedAs, Protocol!Serve, Protocol!RequestKinds, Asked

LEMMA ServicerImplements ==
  ASSUME TypeOK, StateInv, ExchangeInv, Waits, HostSends \/ Servicer
  PROVE  [Protocol!NextAsBuilt]_Protocol!vars
<1> USE DEF ExchangeInv, Preparing, Settled
<1>1. UNCHANGED <<Stands, status, Unfinished, smBits>>
  <2>1. UNCHANGED SmOwned
    BY ServicerKeeps
  <2>2. QED BY <2>1 DEF SmOwned, smVars, Stands, Unfinished
<1>2. CASE HostSends
  <2>1. UNCHANGED <<bits, xferLength>> /\ svPc = "idle"
    BY <1>2, HostKeeps DEF signalVars, sessionVars
  <2>2. CASE svPc' = "reboot"
    <3>1. bits = {} /\ smBits = {}
      BY <1>2, <2>2, HostAsks
    <3>2. Asked = "none" /\ Asked' = "DETACH"
      BY <2>1, <2>2, <3>1, AskedNothing DEF Asked
    <3>3. Protocol!Submit("DETACH")
      BY <1>1, <3>2 DEF Protocol!Submit, Stands, Unfinished, Asked
    <3>4. QED BY <3>3 DEF Protocol!NextAsBuilt, Protocol!Next, Protocol!RequestKinds
  <2>3. CASE svPc' # "reboot"
    BY <1>1, <2>1, <2>3, Stutters DEF Asked, RequestOf
  <2>4. QED BY <2>2, <2>3
<1>3. CASE Notify
  <2>1. /\ bits = {} /\ smBits = {} /\ svPc = "notify" /\ svPc' # "reboot"
        /\ bits' = {svRequest} /\ svRequest \in Signals /\ UNCHANGED <<xferLength, svRequest>>
    BY <1>3 DEF Notify, sessionVars, TypeOK, ServicerTypeOK
  <2>2. Asked = "none" /\ Asked' = KindOf(svRequest)
    BY <1>1, <2>1, AskedNothing, AskedOne
  <2>3. Protocol!Submit(KindOf(svRequest))
    BY <1>1, <2>2 DEF Protocol!Submit, Stands, Unfinished, Asked
  <2>4. KindOf(svRequest) \in Protocol!RequestKinds
    BY <2>1 DEF KindOf, Signals, Protocol!RequestKinds
  <2>5. QED BY <2>3, <2>4 DEF Protocol!NextAsBuilt, Protocol!Next
<1>4. CASE StoreLength
  <2>1. /\ bits = {} /\ smBits = {} /\ svPc # "reboot" /\ bits' = {} /\ svPc' # "reboot"
    BY <1>4 DEF StoreLength, signalVars
  <2>2. QED BY <1>1, <2>1, AskedNothing, Stutters
<1>5. CASE Servicer /\ ~Notify /\ ~StoreLength
  <2>1. UNCHANGED <<bits, xferLength>> /\ svPc # "reboot" /\ svPc' # "reboot"
    <3>1. CASE Deciding
      BY <3>1, DecidingKeeps DEF signalVars, sessionVars
    <3>2. CASE CopyFragment \/ SetMoveToError \/ SetMoveToErrorStatus \/ Give \/ TakeUpload
      BY <3>2 DEF CopyFragment, SetMoveToError, SetMoveToErrorStatus, Give, TakeUpload,
                  signalVars, sessionVars
    <3>3. QED BY <1>5, <3>1, <3>2 DEF Servicer, Deciding
  <2>2. QED BY <1>1, <2>1, Stutters DEF Asked, RequestOf
<1>6. QED BY <1>2, <1>3, <1>4, <1>5

LEMMA TaskImplements ==
  ASSUME WaitingInv, WorkInv, PredictionInv, StateMachine
  PROVE  [Protocol!NextAsBuilt]_Protocol!vars
<1>b. state \in Busy <=> smPc \in {"program", "manifest", "finish"}
  BY DEF WaitingInv, StateInv, BusyOnlyWhileWorking
<1>r. state \in {"IDLE", "UPLOAD_IDLE"} => ~inProgress
  BY DEF WaitingInv, StateInv, SessionStartsAtZero, Resting
<1>e. ExchangeInv
  BY DEF WaitingInv
<1>p. svPc # "reboot" /\ UNCHANGED svVars
  <2>1. ~Preparing
    BY <1>e, Alone
  <2>2. QED
    BY <2>1 DEF Preparing, StateMachine, SmWait, SmTakeOne, SmTakeStalled, SmRefuse,
         SmReset, SmDownload, SmUpload, SmStatusResting, SmStatusSync, SmProgram,
         SmManifest, SmFinish, KeepSignals
<1>q. svPc' # "reboot"
  BY <1>p DEF svVars
\* a request that ends with this step
<1>h. ASSUME smPc # "wait", smPc' = "wait", smBits' = {}, UNCHANGED bits
      PROVE  /\ smBits = {svRequest} /\ svRequest \in Signals
             /\ Asked = KindOf(svRequest) /\ Asked' = "none"
             /\ KindOf(svRequest) \in Protocol!RequestKinds
  <2>1. bits = {} /\ smBits = {svRequest} /\ svRequest \in Signals
    BY <1>e, <1>h DEF ExchangeInv, OneRequest
  <2>2. Asked = KindOf(svRequest) /\ Asked' = "none"
    BY <1>h, <1>p, <1>q, <2>1, AskedNothing, AskedOne
  <2>3. KindOf(svRequest) \in Protocol!RequestKinds
    BY <2>1 DEF KindOf, Signals, Protocol!RequestKinds
  <2>4. QED BY <2>1, <2>2, <2>3
<1>g. ASSUME NEW kind \in Protocol!RequestKinds, ServedAs(kind)
      PROVE  [Protocol!NextAsBuilt]_Protocol!vars
  BY <1>g, ServedIsServe DEF Protocol!NextAsBuilt, Protocol!Next
<1> USE DEF Done
<1>1. CASE SmWait \/ SmTakeOne
  <2>1. /\ bits \cup smBits = {svRequest} /\ bits' \cup smBits' = {svRequest}
        /\ UNCHANGED <<state, status, inProgress, xferLength>>
    BY <1>1, <1>e DEF SmWait, SmTakeOne, BitsCleared, sessionVars, ExchangeInv, OneRequest
  <2>2. UNCHANGED Asked
    BY <1>p, <1>q, <2>1, AskedOne
  <2>3. QED BY <2>1, <2>2, Stutters DEF Stands, Unfinished
<1>2. CASE SmTakeStalled
  BY <1>2, <1>e DEF SmTakeStalled, ExchangeInv
<1>3. CASE SmRefuse
  <2>1. /\ smPc = "handle" /\ smPc' = "wait" /\ smBits' = {} /\ UNCHANGED bits
        /\ Protocol!Fails("errSTALLEDPKT") /\ ~Accepts(svRequest)
    <3>1. PICK r \in Signals : Serves(r) /\ ~Accepts(r)
      BY <1>3 DEF SmRefuse
    <3>2. r = svRequest
      BY <3>1, <1>e DEF Serves, ExchangeInv, OneRequest
    <3>3. QED
      BY <1>3, <3>1, <3>2 DEF SmRefuse, Serves, Error, ResetStateTo, KeepSignals, signalVars,
                              Protocol!Fails, Busy
  <2>2. CASE svRequest = "ABORT" /\ state = "IDLE"
    <3>1. Asked = "ABORT" /\ Asked' = "none" /\ Stands = "IDLE"
      BY <1>h, <2>1, <2>2 DEF KindOf, Stands
    <3>2. Protocol!AbortRefused
      BY <2>1, <3>1 DEF Protocol!AbortRefused, Asked, Stands
    <3>3. QED BY <3>2 DEF Protocol!NextAsBuilt
  <2>3. CASE ~(svRequest = "ABORT" /\ state = "IDLE")
    <3>1. ServedAs(KindOf(svRequest))
      BY <1>b, <1>h, <2>1, <2>3
      DEF ServedAs, Accepts, KindOf, Signals, Busy, Protocol!Block, Protocol!End,
          Protocol!ClrStatus, Protocol!Abort
    <3>2. QED BY <1>g, <1>h, <2>1, <3>1
  <2>4. QED BY <2>2, <2>3
<1>4. CASE SmReset
  <2>1. /\ smPc = "handle" /\ smPc' = "wait" /\ smBits' = {} /\ UNCHANGED bits
        /\ Protocol!Resets /\ Accepts(svRequest)
        /\ svRequest \in {"CLRSTATUS", "ABORT", "SETALTERNATE"}
    <3>1. PICK r \in {"CLRSTATUS", "ABORT", "SETALTERNATE"} : Serves(r) /\ Accepts(r)
      BY <1>4 DEF SmReset
    <3>2. r = svRequest
      BY <3>1, <1>e DEF Serves, ExchangeInv, OneRequest
    <3>3. QED
      BY <1>4, <3>1, <3>2 DEF SmReset, Serves, ResetState, ResetStateTo, KeepSignals,
                              signalVars, Protocol!Resets, Busy
  <2>2. ServedAs(KindOf(svRequest))
    BY <1>h, <2>1
    DEF ServedAs, Accepts, KindOf, Protocol!ClrStatus, Protocol!Abort
  <2>3. QED BY <1>g, <1>h, <2>1, <2>2
<1>5. CASE SmDownload
  <2>1. /\ smPc = "handle" /\ smPc' = "wait" /\ smBits' = {} /\ UNCHANGED <<bits, status>>
        /\ svRequest = "DNLOAD" /\ inProgress' = TRUE
        /\ state' = IF xferLength # 0 THEN "DNLOAD_SYNC" ELSE "MANIFEST_SYNC"
        /\ \/ state = "DNLOAD_IDLE"
           \/ state = "IDLE" /\ xferLength # 0
    <3>1. Accepts("DNLOAD") /\ Serves("DNLOAD")
      BY <1>5 DEF SmDownload
    <3>2. svRequest = "DNLOAD" /\ smPc = "handle"
      BY <3>1, <1>e DEF Serves, ExchangeInv, OneRequest
    <3>3. \/ state = "DNLOAD_IDLE"
          \/ state = "IDLE" /\ xferLength # 0
      BY <3>1 DEF Accepts
    <3>4. QED BY <1>5, <3>2, <3>3 DEF SmDownload, KeepSignals, signalVars
  <2>2. ServedAs(KindOf(svRequest))
    BY <1>h, <2>1
    DEF ServedAs, KindOf, Busy, Protocol!Block, Protocol!End, Protocol!Moves
  <2>3. QED BY <1>g, <1>h, <2>1, <2>2
<1>6. CASE SmUpload
  <2>1. /\ smPc = "handle" /\ smPc' = "wait" /\ smBits' = {} /\ UNCHANGED bits
        /\ svRequest = "UPLOAD"
    BY <1>6, <1>e DEF SmUpload, Serves, ExchangeInv, OneRequest
  <2>2. Protocol!Upload
    <3>1. CASE state \in {"IDLE", "UPLOAD_IDLE"}
      <4>1. /\ state' \in {"IDLE", "UPLOAD_IDLE"} /\ ~inProgress
            /\ UNCHANGED <<status, inProgress>>
        BY <1>6, <1>r, <3>1 DEF SmUpload, Resting
      <4>2. QED BY <3>1, <4>1 DEF Protocol!Upload, Protocol!Moves, Busy
    <3>2. CASE state \notin {"IDLE", "UPLOAD_IDLE"}
      BY <1>6, <3>2 DEF SmUpload, Error, ResetStateTo, Protocol!Upload, Protocol!Fails, Busy
    <3>3. QED BY <3>1, <3>2
  <2>3. ServedAs(KindOf(svRequest))
    BY <1>h, <2>1, <2>2 DEF ServedAs, KindOf
  <2>4. QED BY <1>g, <1>h, <2>1, <2>3
<1>7. CASE SmStatusResting
  <2>1. /\ smPc = "handle" /\ smPc' = "wait" /\ smBits' = {} /\ UNCHANGED bits
        /\ svRequest = "GETSTATUS" /\ state \in Resting
        /\ UNCHANGED <<state, status, inProgress>>
    BY <1>7, <1>e DEF SmStatusResting, Serves, ExchangeInv, OneRequest, KeepSignals,
                      signalVars, sessionVars
  <2>2. Protocol!GetStatus
    BY <2>1 DEF Protocol!GetStatus, Resting
  <2>3. ServedAs(KindOf(svRequest))
    BY <1>h, <2>1, <2>2 DEF ServedAs, KindOf
  <2>4. QED BY <1>g, <1>h, <2>1, <2>3
<1>8. CASE SmStatusSync
  <2>1. smPc = "handle" /\ svRequest = "GETSTATUS"
    BY <1>8, <1>e DEF SmStatusSync, Serves, ExchangeInv, OneRequest
  <2>2. CASE inProgress
    <3>1. UNCHANGED <<Stands, status, Unfinished, bits, smBits, xferLength>>
      BY <1>8, <2>2 DEF SmStatusSync, KeepSignals, KeepBuffer, signalVars, Stands, Unfinished,
                        Busy
    <3>2. QED BY <1>p, <1>q, <3>1, Stutters DEF Asked, RequestOf
  <2>3. CASE ~inProgress
    <3>1. /\ smPc' = "wait" /\ smBits' = {} /\ UNCHANGED <<bits, status, inProgress>>
          /\ state \in {"DNLOAD_SYNC", "MANIFEST_SYNC"} /\ state' = Acknowledged(state)
      BY <1>8, <2>3 DEF SmStatusSync, KeepSignals, signalVars
    <3>2. Protocol!GetStatus
      BY <2>3, <3>1 DEF Protocol!GetStatus, Protocol!Moves, Acknowledged, Busy
    <3>3. ServedAs(KindOf(svRequest))
      BY <1>h, <2>1, <3>1, <3>2 DEF ServedAs, KindOf
    <3>4. QED BY <1>g, <1>h, <2>1, <3>1, <3>3
  <2>4. QED BY <2>2, <2>3
<1>9. CASE SmProgram \/ SmManifest
  <2>1. state \in Busy /\ UNCHANGED <<state, status, bits, smBits, xferLength>>
    BY <1>9, <1>b DEF SmProgram, SmManifest, KeepSignals, KeepBuffer, signalVars
  <2>2. QED BY <1>p, <1>q, <2>1, Stutters DEF Asked, RequestOf, Stands, Unfinished
<1>10. CASE SmFinish
  <2>1. /\ smPc = "finish" /\ smPc' = "wait" /\ smBits' = {} /\ UNCHANGED bits
        /\ state \in Busy /\ ~moveToError /\ ~inProgress
    BY <1>10, <1>b DEF SmFinish, KeepSignals, signalVars, PredictionInv, NeverPolls, WorkInv
  <2>2. svRequest = "GETSTATUS"
    BY <2>1, <1>e DEF ExchangeInv
  <2>3. Protocol!GetStatus
    <3>1. CASE retval # "OK"
      <4>1. /\ state = "DNBUSY" /\ retval \in {"errWRITE", "errADDRESS"}
            /\ state' = "ERROR" /\ status' = retval /\ ~inProgress'
        BY <1>10, <2>1, <3>1 DEF SmFinish, Error, ResetStateTo, WorkInv
      <4>2. Protocol!Fails(retval)
        BY <4>1 DEF Protocol!Fails, Busy
      <4>3. QED BY <4>1, <4>2 DEF Protocol!GetStatus, Busy
    <3>2. CASE retval = "OK"
      <4>1. state' = AfterWork(state) /\ UNCHANGED <<status, inProgress>>
        BY <1>10, <2>1, <3>2 DEF SmFinish
      <4>2. QED BY <2>1, <4>1 DEF Protocol!GetStatus, Protocol!Moves, AfterWork, Busy
    <3>3. QED BY <3>1, <3>2
  <2>4. ServedAs(KindOf(svRequest))
    BY <1>h, <2>1, <2>2, <2>3 DEF ServedAs, KindOf
  <2>5. QED BY <1>g, <1>h, <2>1, <2>4
<1>11. QED BY <1>1, <1>2, <1>3, <1>4, <1>5, <1>6, <1>7, <1>8, <1>9, <1>10
           DEF StateMachine

LEMMA ResetImplements ==
  ASSUME WatchdogReset
  PROVE  [Protocol!NextAsBuilt]_Protocol!vars
<1> USE DEF WatchdogReset, Done
<1>1. Asked = "DETACH" /\ Asked' = "none"
  BY AskedNothing DEF Asked
<1>2. Protocol!Resets
  BY DEF ResetState, ResetStateTo, Protocol!Resets, Busy
<1>3. ServedAs("DETACH")
  BY <1>1, <1>2 DEF ServedAs
<1>4. QED
  BY <1>3, ServedIsServe DEF Protocol!NextAsBuilt, Protocol!Next, Protocol!RequestKinds

\* The two tasks, interleaved access by access, go through the state diagrams of
\* dfu_state_machine.c and no other states, serve every request by itself, and
\* refuse only what the diagrams refuse, and ABORT in dfuIDLE, which they do not
\* (AbortRefused): the safety part of ImplementsProtocol.
THEOREM ProtocolImplemented ==
  Host = "settled" => (Spec => Protocol!Init /\ [][Protocol!NextAsBuilt]_Protocol!vars)
<1> SUFFICES ASSUME Host = "settled"
             PROVE  Spec => Protocol!Init /\ [][Protocol!NextAsBuilt]_Protocol!vars
  OBVIOUS
<1>1. Init => Protocol!Init
  BY AskedNothing DEF Init, Protocol!Init, Asked, Busy
<1>2. WaitingInv /\ WorkInv /\ PredictionInv /\ [Next]_vars
        => [Protocol!NextAsBuilt]_Protocol!vars
  <2> SUFFICES ASSUME WaitingInv, WorkInv, PredictionInv, [Next]_vars
               PROVE  [Protocol!NextAsBuilt]_Protocol!vars
    OBVIOUS
  <2>1. CASE HostSends \/ Servicer
    BY <2>1, ServicerImplements DEF WaitingInv, Waits
  <2>2. CASE StateMachine
    BY <2>2, TaskImplements
  <2>3. CASE WatchdogReset
    BY <2>3, ResetImplements
  <2>4. CASE UNCHANGED vars
    BY <2>4, Stutters
    DEF vars, sessionVars, signalVars, smVars, svVars, Stands, Unfinished, Asked, RequestOf
  <2>5. QED BY <2>1, <2>2, <2>3, <2>4 DEF Next
<1>3. QED BY <1>1, <1>2, SettledCorrect, PTL DEF Spec
=============================================================================
