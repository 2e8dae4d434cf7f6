--------------------------- MODULE DfuStateMachine ---------------------------
(***************************************************************************)
(* Firmware update over device control: dfu_state_machine.c.               *)
(*                                                                         *)
(* Two FreeRTOS tasks of equal priority run at the same time on different  *)
(* cores and share the struct dfu_data without a lock:                     *)
(*   - the servicer executes the host's commands one after another.  It    *)
(*     writes the arguments into dfu_data, increments a request counter    *)
(*     (notification index 1) and sets the request's bit (index 0);        *)
(*   - the state machine waits for bits, takes one from the counter, and   *)
(*     serves the request only if the counter was exactly 1.               *)
(* GETSTATUS answers with a prediction of what the state machine is about  *)
(* to do, UPLOAD waits on a semaphore for the state machine's answer.      *)
(*                                                                         *)
(* Each access of one task to data the other one writes is a step of its   *)
(* own.  The reset of dfu_data by the state machine task is one step.      *)
(***************************************************************************)
EXTENDS DfuCommon, FiniteSets

CONSTANTS
  NumFragments,     \* DFU_NUM_FRAGMENTS: fragments in a sector
  BlockModulus,     \* 2^16 in the code: transfer_block, download_block_number
  ClockModulus,     \* 2^32 in the code, in ticks: the reference timer
  MaxElapsed,       \* bound: longest pause between two GETSTATUS
  MaxCounter,       \* bound: requests that may pile up in the counter
  Requests,         \* the commands the host uses
  Alts,             \* the alternate settings the host selects
  Host              \* when the host sends the next command, see HostMaySend

AllRequests == {"DNLOAD", "UPLOAD", "GETSTATUS", "CLRSTATUS", "ABORT",
                "SETALTERNATE", "TRANSFERBLOCK", "DETACH"}

LongestTimeout == 10                \* DOWNLOAD_TIMEOUT_ERASE_MS

ASSUME DfuAssumption ==
  /\ NumFragments \in Nat \ {0}
  /\ BlockModulus \in Nat \ {0}
  /\ ClockModulus \in Nat /\ ClockModulus > LongestTimeout
  /\ MaxElapsed \in Nat
  /\ MaxCounter \in Nat
  /\ Requests \subseteq AllRequests
  /\ Alts \subseteq AltSettings
  /\ ReadableFrags \in [AltSettings -> Nat]
  /\ Host \in {"settled", "polling", "any"}

VARIABLES
  state, status,                    \* current_state, current_status
  inProgress,                       \* download_or_manifest_in_progress
  moveToError, moveToErrorStatus,   \* move_to_error, move_to_error_status
  altSetting,                       \* alt_setting
  transferBlock,                    \* transfer_block
  xferLength,                       \* data_xfer_length, in fragments: 0 or 1
  blockNumber,                      \* download_block_number
  fragNumber,                       \* frag_number
  filled,                           \* the slots of dfu_data_buffer that hold data
  previousTimeout,                  \* previous_timeout_ms
  bits,                             \* notification index 0: requests signalled
  counter,                          \* notification index 1: requests counted
  uploadSemaphore,                  \* upload_semaphore: given or not
  smPc, smBits, retval,             \* the state machine task
  svPc, svRequest, svLength, svFrag, svSeen,    \* the servicer task
  told                              \* next_state of the last GETSTATUS answer

\* What the state machine resets, what the servicer owns, what signals between.
sessionVars == <<state, status, inProgress, moveToError, moveToErrorStatus,
                 xferLength, blockNumber, fragNumber, filled>>
signalVars == <<bits, counter, uploadSemaphore>>
smVars == <<smPc, smBits, retval>>
svVars == <<svPc, svRequest, svLength, svFrag, svSeen, told, previousTimeout>>
vars == <<sessionVars, altSetting, transferBlock, signalVars, smVars, svVars,
          flashVars>>

Busy == {"DNBUSY", "MANIFEST"}
Resting == {"IDLE", "UPLOAD_IDLE", "DNLOAD_IDLE", "ERROR"}
States == Busy \cup Resting \cup {"DNLOAD_SYNC", "MANIFEST_SYNC"}
Statuses == {"OK", "errWRITE", "errADDRESS", "errSTALLEDPKT"}
Signals == {"DNLOAD", "UPLOAD", "GETSTATUS", "CLRSTATUS", "ABORT", "SETALTERNATE"}
Timeouts == {0, 1, 3, LongestTimeout}   \* DOWNLOAD_TIMEOUT_{BUFFER,WRITE,ERASE}_MS
Slots == 0 .. NumFragments - 1

FlagTypeOK == inProgress \in BOOLEAN /\ moveToError \in BOOLEAN

SessionTypeOK ==
  /\ state \in States /\ status \in Statuses
  /\ moveToErrorStatus \in Statuses
  /\ altSetting \in AltSettings
  /\ transferBlock \in 0 .. BlockModulus - 1
  /\ xferLength \in {0, 1}
  /\ blockNumber \in 0 .. BlockModulus - 1
  /\ fragNumber \in Slots
  /\ filled \subseteq Slots

TaskTypeOK ==
  /\ bits \subseteq Signals
  /\ counter \in Nat
  /\ uploadSemaphore \in {0, 1}
  /\ smPc \in {"wait", "take", "handle", "program", "manifest", "finish"}
  /\ smBits \subseteq Signals
  /\ retval \in Statuses

ServicerTypeOK ==
  /\ svPc \in {"idle", "length", "copy", "decide", "flag", "flagStatus",
               "give", "notify", "upload", "reboot"}
  /\ svRequest \in AllRequests
  /\ svPc \notin {"idle", "reboot"} => svRequest \in Signals
  /\ svLength \in {0, 1}
  /\ svFrag \in Slots
  /\ svSeen \in States /\ told \in States \cup {"none"}
  /\ previousTimeout \in Timeouts

TypeOK ==
  FlagTypeOK /\ SessionTypeOK /\ TaskTypeOK /\ ServicerTypeOK /\ FlashTypeOK

\* static dfu_data, then the start of the state machine task
Init ==
  /\ state = "IDLE" /\ status = "OK"
  /\ inProgress = FALSE /\ moveToError = FALSE /\ moveToErrorStatus = "OK"
  /\ xferLength = 0 /\ blockNumber = 0 /\ fragNumber = 0 /\ filled = {}
  /\ altSetting = "factory"
  /\ transferBlock = 0
  /\ previousTimeout = 0
  /\ bits = {} /\ counter = 0 /\ uploadSemaphore = 0
  /\ smPc = "wait" /\ smBits = {} /\ retval = "OK"
  /\ svPc = "idle" /\ svRequest = "GETSTATUS" /\ svLength = 0 /\ svFrag = 0
  /\ svSeen = "IDLE" /\ told = "none"
  /\ FlashInit

-----------------------------------------------------------------------------
(***************************************************************************)
(* dfu_int_reset_state, dfu_int_error                                      *)
(***************************************************************************)
ResetKeepingBlockNumber ==
  xferLength' = 0 /\ fragNumber' = 0 /\ filled' = {} /\ UNCHANGED blockNumber
ResetKeepingBuffer ==
  xferLength' = 0 /\ blockNumber' = 0 /\ fragNumber' = 0 /\ UNCHANGED filled
ResetDownloadBuffer ==
  xferLength' = 0 /\ blockNumber' = 0 /\ fragNumber' = 0 /\ filled' = {}

ResetStateTo(newState, newStatus) ==
  /\ state' = newState /\ status' = newStatus
  /\ inProgress' = FALSE
  /\ moveToError' = FALSE /\ moveToErrorStatus' = "OK"
  /\ ResetDownloadBuffer

ResetState == ResetStateTo("IDLE", "OK")
Error(why) == ResetStateTo("ERROR", why)

-----------------------------------------------------------------------------
(***************************************************************************)
(* The servicer.  A local of a task that is dead takes its initial value,  *)
(* which keeps equal states equal.  The host is a bus master whose next command the servicer *)
(* takes when it has answered the previous one.                            *)
(*   "settled":  it waits until the state machine has served the last one; *)
(*   "polling":  as above, and it may send GETSTATUS while the state       *)
(*               machine is busy in dfuDNBUSY or dfuMANIFEST;              *)
(*   "any":      it does not wait.                                         *)
(***************************************************************************)
Settled == smPc = "wait" /\ bits = {}

HostMaySend(r) ==
  \/ Settled
  \/ Host = "any"
  \/ Host = "polling" /\ r = "GETSTATUS" /\ state \in Busy

Receive(r) ==
  /\ svPc = "idle" /\ r \in Requests /\ counter < MaxCounter
  /\ HostMaySend(r)
  /\ svRequest' = r
  /\ told' = "none"

\* Request r goes straight to the notifications.
ReceiveSignal(r) ==
  /\ Receive(r)
  /\ svPc' = "give"
  /\ UNCHANGED <<sessionVars, transferBlock, signalVars, smVars, flashVars,
                 svLength, svFrag, svSeen, previousTimeout>>

ReceiveUpload    == ReceiveSignal("UPLOAD") /\ UNCHANGED altSetting
ReceiveClrStatus == ReceiveSignal("CLRSTATUS") /\ UNCHANGED altSetting
ReceiveAbort     == ReceiveSignal("ABORT") /\ UNCHANGED altSetting

ReceiveSetAlternate ==
  /\ ReceiveSignal("SETALTERNATE")
  /\ altSetting' \in Alts

\* dfu_int_download: the slot at frag_addr
FirstSlot == 0
NextSlot == fragNumber

\* dfu_int_download: frag_addr is computed first, the length stored next, the
\* data copied to frag_addr last; a zero-length packet copies nothing.
ReceiveDownload ==
  /\ Receive("DNLOAD")
  /\ svLength' \in {0, 1}
  /\ svFrag' = NextSlot
  /\ svPc' = "length"
  /\ UNCHANGED <<sessionVars, altSetting, transferBlock, signalVars, smVars,
                 flashVars, svSeen, previousTimeout>>

StoreLength ==
  /\ svPc = "length"
  /\ xferLength' = svLength
  /\ svLength' = 0
  /\ IF svLength > 0
     THEN svPc' = "copy" /\ UNCHANGED svFrag
     ELSE svPc' = "give" /\ svFrag' = 0
  /\ UNCHANGED <<state, status, inProgress, moveToError, moveToErrorStatus,
                 blockNumber, fragNumber, filled, altSetting, transferBlock,
                 signalVars, smVars, flashVars, svRequest, svSeen, told,
                 previousTimeout>>

CopyFragment ==
  /\ svPc = "copy"
  /\ filled' = filled \cup {svFrag}
  /\ svFrag' = 0
  /\ svPc' = "give"
  /\ UNCHANGED <<state, status, inProgress, moveToError, moveToErrorStatus,
                 xferLength, blockNumber, fragNumber, altSetting, transferBlock,
                 signalVars, smVars, flashVars, svRequest, svLength, svSeen,
                 told, previousTimeout>>

\* xTaskNotifyGiveIndexed, then xTaskNotify
Give ==
  /\ svPc = "give"
  /\ counter' = counter + 1
  /\ svPc' = "notify"
  /\ UNCHANGED <<sessionVars, altSetting, transferBlock, bits, uploadSemaphore,
                 smVars, flashVars, svRequest, svLength, svFrag, svSeen, told,
                 previousTimeout>>

Notify ==
  /\ svPc = "notify"
  /\ bits' = bits \cup {svRequest}
  /\ svPc' = IF svRequest = "UPLOAD" THEN "upload" ELSE "idle"
  /\ UNCHANGED <<sessionVars, altSetting, transferBlock, counter,
                 uploadSemaphore, smVars, flashVars, svRequest, svLength,
                 svFrag, svSeen, told, previousTimeout>>

\* dfu_int_upload resumes: xSemaphoreTake returns and the answer is copied
SemaphoreLeftGiven == uploadSemaphore
SemaphoreTaken == 0

TakeUpload ==
  /\ svPc = "upload" /\ uploadSemaphore = 1
  /\ uploadSemaphore' = SemaphoreTaken
  /\ svPc' = "idle"
  /\ UNCHANGED <<sessionVars, altSetting, transferBlock, bits, counter, smVars,
                 flashVars, svRequest, svLength, svFrag, svSeen, told,
                 previousTimeout>>

\* dfu_int_set_transfer_block: no notification
ReceiveTransferBlock ==
  /\ Receive("TRANSFERBLOCK")
  /\ transferBlock' \in 0 .. BlockModulus - 1
  /\ UNCHANGED <<sessionVars, altSetting, signalVars, smVars, flashVars, svPc,
                 svLength, svFrag, svSeen, previousTimeout>>

\* DETACH and REBOOT: reboot() arms the watchdog and spins, the state machine
\* task goes on until the watchdog resets the device.
ReceiveDetach ==
  /\ Receive("DETACH")
  /\ svPc' = "reboot"
  /\ UNCHANGED <<sessionVars, altSetting, transferBlock, signalVars, smVars,
                 flashVars, svLength, svFrag, svSeen, previousTimeout>>

-----------------------------------------------------------------------------
(***************************************************************************)
(* dfu_int_get_status.  It looks at current_state, later at what else it   *)
(* needs.  It stores next_state from a second read of current_state, which *)
(* the build may or may not merge with the first one.                      *)
(***************************************************************************)
ReceiveGetStatus ==
  /\ Receive("GETSTATUS")
  /\ svSeen' = state
  /\ svPc' = "decide"
  /\ UNCHANGED <<sessionVars, altSetting, transferBlock, signalVars, smVars,
                 flashVars, svLength, svFrag, previousTimeout>>

Reply(nextState, timeout, pc) ==
  /\ told' = nextState
  /\ previousTimeout' = timeout
  /\ svPc' = pc
  /\ svSeen' = "IDLE"
  /\ UNCHANGED <<sessionVars, altSetting, transferBlock, signalVars, smVars,
                 flashVars, svRequest, svLength, svFrag>>

\* The fragment in hand completes a sector
LastFragment == fragNumber = NumFragments - 1

DownloadTimeout ==
  IF ~LastFragment THEN 1
  ELSE IF blockNumber % 16 = 0 THEN 10 ELSE 3

\* timeout_end of a timeout that started then, and
\* (timeout_end - current_time) < timeout_tks, modulo the timer's range
TimeoutEnd(start) == (start + previousTimeout) % ClockModulus

TooEarlyByTheClock(start, now) == now < TimeoutEnd(start)

TooEarly(start, now) ==
  (TimeoutEnd(start) - now) % ClockModulus < previousTimeout

Clock == 0 .. ClockModulus - 1
After(start, elapsed) == (start + elapsed) % ClockModulus

DecideResting ==
  /\ svPc = "decide" /\ svSeen \in Resting
  /\ \E s \in {svSeen, state} : Reply(s, 0, "give")

DecideBlockWritten ==
  /\ svPc = "decide" /\ svSeen = "DNLOAD_SYNC"
  /\ Reply("DNLOAD_IDLE", 0, "give")

DecideDownloadSync ==
  /\ svPc = "decide" /\ svSeen = "DNLOAD_SYNC"
  /\ IF inProgress THEN Reply("DNBUSY", DownloadTimeout, "give")
     ELSE Reply("DNLOAD_IDLE", 0, "give")

DecideManifestSync ==
  /\ svPc = "decide" /\ svSeen = "MANIFEST_SYNC"
  /\ Reply(IF inProgress THEN "MANIFEST" ELSE "IDLE", 0, "give")

\* A poll while the state machine works sends no notification.
DecideStillBusy ==
  /\ svPc = "decide" /\ svSeen \in Busy
  /\ \E start \in Clock, elapsed \in 0 .. MaxElapsed :
       ~TooEarly(start, After(start, elapsed))
  /\ \E s \in {svSeen, state} : Reply(s, previousTimeout, "idle")

DecideTooEarly ==
  /\ svPc = "decide" /\ svSeen \in Busy
  /\ \E start \in Clock, elapsed \in 0 .. MaxElapsed :
       TooEarly(start, After(start, elapsed))
  /\ Reply("ERROR", 0, "flag")

SetMoveToError ==
  /\ svPc = "flag"
  /\ moveToError' = TRUE
  /\ svPc' = "flagStatus"
  /\ UNCHANGED <<state, status, inProgress, moveToErrorStatus, xferLength,
                 blockNumber, fragNumber, filled, altSetting, transferBlock,
                 signalVars, smVars, flashVars, svRequest, svLength, svFrag,
                 svSeen, told, previousTimeout>>

SetMoveToErrorStatus ==
  /\ svPc = "flagStatus"
  /\ moveToErrorStatus' = "errSTALLEDPKT"
  /\ svPc' = "idle"
  /\ UNCHANGED <<state, status, inProgress, moveToError, xferLength,
                 blockNumber, fragNumber, filled, altSetting, transferBlock,
                 signalVars, smVars, flashVars, svRequest, svLength, svFrag,
                 svSeen, told, previousTimeout>>

-----------------------------------------------------------------------------
(***************************************************************************)
(* The state machine task                                                  *)
(***************************************************************************)
\* back to the top of the loop, the locals out of scope
Done == smPc' = "wait" /\ smBits' = {} /\ retval' = "OK"
KeepBuffer == UNCHANGED <<xferLength, blockNumber, fragNumber, filled>>
KeepSignals == UNCHANGED <<altSetting, signalVars, svVars>>

\* xTaskNotifyWait returns the bits and clears them (CLEAR_ALL_BITS)
BitsKept == bits
BitsCleared == {}

SmWait ==
  /\ smPc = "wait" /\ bits # {}
  /\ smBits' = bits
  /\ bits' = BitsCleared
  /\ smPc' = "take"
  /\ UNCHANGED <<sessionVars, altSetting, transferBlock, counter,
                 uploadSemaphore, retval, svVars, flashVars>>

\* ulTaskNotifyTakeIndexed returns the counter and takes one from it
CounterKept == counter
CounterTaken == IF counter = 0 THEN 0 ELSE counter - 1

SmTakeOne ==
  /\ smPc = "take" /\ counter = 1
  /\ counter' = CounterTaken
  /\ smPc' = "handle"
  /\ UNCHANGED <<sessionVars, altSetting, transferBlock, bits, uploadSemaphore,
                 smBits, retval, svVars, flashVars>>

SmTakeStalled ==
  /\ smPc = "take" /\ counter # 1
  /\ counter' = CounterTaken
  /\ Error("errSTALLEDPKT")
  /\ Done
  /\ UNCHANGED <<altSetting, transferBlock, bits, uploadSemaphore, svVars,
                 flashVars>>

\* The switch on the bits: a case runs only when its bit is the only one set.
Serves(r) == smPc = "handle" /\ smBits = {r}


\* The requests each state accepts; every other one moves to dfuERROR.
\* GETSTATUS is refused in the busy states, CLRSTATUS everywhere but dfuERROR.
Accepts(r) ==
  CASE r = "DNLOAD"     -> \/ state = "IDLE" /\ xferLength # 0
                           \/ state = "DNLOAD_IDLE"
    [] r = "GETSTATUS"  -> state \notin Busy
    [] r = "CLRSTATUS"  -> state = "ERROR"
    [] r = "ABORT"      -> state \in {"UPLOAD_IDLE", "DNLOAD_IDLE"}
    [] OTHER            -> TRUE

SmRefuse ==
  /\ \E r \in Signals : Serves(r) /\ ~Accepts(r)
  /\ Error("errSTALLEDPKT")
  /\ Done /\ KeepSignals
  /\ UNCHANGED <<transferBlock, flashVars>>

\* CLRSTATUS in dfuERROR, ABORT in the two idle states, SETALTERNATE anywhere
SmReset ==
  /\ \E r \in {"CLRSTATUS", "ABORT", "SETALTERNATE"} : Serves(r) /\ Accepts(r)
  /\ ResetState
  /\ Done /\ KeepSignals
  /\ UNCHANGED <<transferBlock, flashVars>>

SmDownload ==
  /\ Serves("DNLOAD") /\ Accepts("DNLOAD")
  /\ inProgress' = TRUE
  /\ IF xferLength # 0
     THEN state' = "DNLOAD_SYNC" /\ KeepBuffer
     ELSE state' = "MANIFEST_SYNC" /\ ResetDownloadBuffer
  /\ Done /\ KeepSignals
  /\ UNCHANGED <<status, moveToError, moveToErrorStatus, transferBlock, flashVars>>

\* The case of UPLOAD has no break: it goes on into the case of GETSTATUS,
\* which does nothing in the three states UPLOAD can leave the machine in.
SemaphoreGivenIfRead ==
  IF state \in {"IDLE", "UPLOAD_IDLE"} THEN 1 ELSE uploadSemaphore
SemaphoreGiven == 1

SmUpload ==
  /\ Serves("UPLOAD")
  /\ uploadSemaphore' = SemaphoreGiven
  /\ IF state \in {"IDLE", "UPLOAD_IDLE"}
     THEN /\ UNCHANGED <<status, inProgress, moveToError, moveToErrorStatus,
                         blockNumber, fragNumber>>
          /\ IF ReadsFullBlock(altSetting, transferBlock)
             THEN /\ state' = "UPLOAD_IDLE"
                  /\ transferBlock' = (transferBlock + 1) % BlockModulus
                  /\ xferLength' = 1 /\ filled' = {0}
             ELSE /\ state' = "IDLE"
                  /\ transferBlock' = 0
                  /\ xferLength' = 0 /\ filled' = {}
     ELSE Error("errSTALLEDPKT") /\ UNCHANGED transferBlock
  /\ Done
  /\ UNCHANGED <<altSetting, bits, counter, svVars, flashVars>>

\* Where work leads, and where the GETSTATUS after it leads
AfterWork(s) == IF s = "DNBUSY" THEN "DNLOAD_SYNC" ELSE "MANIFEST_SYNC"
AcknowledgedAsManifest(s) == "IDLE"
Acknowledged(s) == IF s = "DNLOAD_SYNC" THEN "DNLOAD_IDLE" ELSE "IDLE"

\* GETSTATUS drives a download or a manifestation one step on.
SmStatusResting ==
  /\ Serves("GETSTATUS") /\ state \in Resting
  /\ Done /\ KeepSignals
  /\ UNCHANGED <<sessionVars, transferBlock, flashVars>>

SmStatusSync ==
  /\ Serves("GETSTATUS") /\ state \in {"DNLOAD_SYNC", "MANIFEST_SYNC"}
  /\ IF inProgress
     THEN /\ state' = IF state = "DNLOAD_SYNC" THEN "DNBUSY" ELSE "MANIFEST"
          /\ smPc' = IF state = "DNLOAD_SYNC" THEN "program" ELSE "manifest"
          /\ retval' = "OK"
          /\ UNCHANGED smBits
     ELSE /\ state' = Acknowledged(state)
          /\ Done
  /\ KeepBuffer /\ KeepSignals
  /\ UNCHANGED <<status, inProgress, moveToError, moveToErrorStatus,
                 transferBlock, flashVars>>

\* dfuDNBUSY: the last fragment of a sector has the sector written to flash
SmProgram ==
  /\ smPc = "program"
  /\ IF LastFragment
     THEN /\ WriteToFlash(altSetting, blockNumber,
                          IF filled = Slots THEN altSetting ELSE "holed")
          /\ retval' = WriteStatus(altSetting)
          /\ filled' = {} /\ fragNumber' = 0
          /\ blockNumber' = (blockNumber + 1) % BlockModulus
     ELSE /\ fragNumber' = fragNumber + 1
          /\ UNCHANGED <<retval, filled, blockNumber, flashVars>>
  /\ inProgress' = FALSE
  /\ smPc' = "finish"
  /\ KeepSignals
  /\ UNCHANGED <<state, status, moveToError, moveToErrorStatus, xferLength,
                 transferBlock, smBits>>

\* dfuMANIFEST
SmManifest ==
  /\ smPc = "manifest"
  /\ MakeManifest
  /\ inProgress' = FALSE
  /\ smPc' = "finish"
  /\ KeepBuffer /\ KeepSignals
  /\ UNCHANGED <<state, status, moveToError, moveToErrorStatus, transferBlock,
                 retval, smBits>>

\* Back from a busy state, to dfuERROR if the servicer or the flash says so
SmFinish ==
  /\ smPc = "finish"
  /\ IF moveToError THEN Error(moveToErrorStatus)
     ELSE IF retval # "OK" THEN Error(retval)
     ELSE /\ state' = AfterWork(state)
          /\ UNCHANGED <<status, inProgress, moveToError, moveToErrorStatus>>
          /\ KeepBuffer
  /\ Done /\ KeepSignals
  /\ UNCHANGED <<transferBlock, flashVars>>

-----------------------------------------------------------------------------
(***************************************************************************)
(* The watchdog resets the device, all of its RAM included, whatever the   *)
(* state machine task is doing; the sector being programmed may be lost.   *)
(***************************************************************************)
SectorInFlight ==
  IF smPc = "program" /\ LastFragment /\ WriteStatus(altSetting) = "OK"
  THEN {WriteTarget(altSetting, blockNumber)} ELSE {}

WatchdogReset ==
  /\ svPc = "reboot"
  /\ \E lost \in {{}, SectorInFlight} : FlashReset(lost)
  /\ ResetState
  /\ altSetting' = "factory" /\ transferBlock' = 0 /\ previousTimeout' = 0
  /\ bits' = {} /\ counter' = 0 /\ uploadSemaphore' = 0
  /\ Done
  /\ svPc' = "idle" /\ svRequest' = "GETSTATUS" /\ svLength' = 0 /\ svFrag' = 0
  /\ svSeen' = "IDLE" /\ told' = "none"

HostSends ==
  \/ ReceiveDownload \/ ReceiveUpload \/ ReceiveGetStatus \/ ReceiveClrStatus
  \/ ReceiveAbort \/ ReceiveSetAlternate \/ ReceiveTransferBlock \/ ReceiveDetach

Servicer ==
  \/ StoreLength \/ CopyFragment \/ Give \/ Notify \/ TakeUpload
  \/ DecideResting \/ DecideDownloadSync \/ DecideManifestSync
  \/ DecideStillBusy \/ DecideTooEarly \/ SetMoveToError \/ SetMoveToErrorStatus

StateMachine ==
  \/ SmWait \/ SmTakeOne \/ SmTakeStalled \/ SmRefuse \/ SmReset \/ SmDownload
  \/ SmUpload \/ SmStatusResting \/ SmStatusSync \/ SmProgram \/ SmManifest
  \/ SmFinish

Next == HostSends \/ Servicer \/ StateMachine \/ WatchdogReset

\* Both tasks have a core of their own and block only where they wait for the
\* other one; nothing obliges the host to send.
Fairness == WF_vars(Servicer) /\ WF_vars(StateMachine) /\ WF_vars(WatchdogReset)

Spec == Init /\ [][Next]_vars
FairSpec == Spec /\ Fairness

-----------------------------------------------------------------------------
(***************************************************************************)
(* Whatever the host does                                                  *)
(***************************************************************************)
\* When the counter says one request, the bits name exactly one: no two
\* requests are ever taken for one, and none is served as another.
OneBitWhenCounterIsOne ==
  (smPc = "take" /\ counter = 1) \/ smPc = "handle" =>
    \E r \in Signals : smBits = {r}

\* The machine is in dfuDNBUSY or dfuMANIFEST only while its task is at work
\* there, so that it cannot receive a request in them.
BusyOnlyWhileWorking ==
  state \in Busy <=> smPc \in {"program", "manifest", "finish"}

\* The semaphore is given only to a servicer that waits in UPLOAD: no later
\* UPLOAD finds it given and returns a buffer that is not its answer.
SemaphoreAnswersUpload ==
  uploadSemaphore = 1 => svPc = "upload" /\ smPc = "wait" /\ bits = {}

\* No sequence of commands, resets included, touches the factory image.
FactoryUntouched ==
  \A s \in FactorySectors : s \in Sectors => flash[s] = "untouched"

\* A sector is programmed inside the window of the download, although its
\* address is computed from the block number and the room from the total.
WritesInsideWindow ==
  smPc = "program" /\ WriteStatus(altSetting) = "OK" =>
    /\ WriteTarget(altSetting, blockNumber) - WindowBase(altSetting)
         \in 0 .. WindowSize(altSetting) - 1
    /\ WriteTarget(altSetting, blockNumber)
         \in Partition("upgrade") \cup Partition("data")

\* Outside of a download the machine stands at the first fragment of the first
\* sector, so that the next download starts there.
SessionStartsAtZero ==
  state \notin {"DNLOAD_SYNC", "DNBUSY", "DNLOAD_IDLE"} =>
    fragNumber = 0 /\ blockNumber = 0 /\ ~(inProgress /\ state \in Resting)

\* A status other than OK is reported in dfuERROR only.
FaultOnlyInError == status # "OK" => state = "ERROR"

(***************************************************************************)
(* When the host lets every request settle, or polls GETSTATUS only        *)
(***************************************************************************)
Quiet == Settled /\ svPc = "idle"

\* No request is left in the counter: the next one will be served.
NothingLeftCounted == Quiet => counter = 0

\* The sectors of a download whose last block was acknowledged are complete.
AcknowledgedSectorsWhole ==
  state = "DNLOAD_IDLE" =>
    \A k \in 0 .. blockNumber - 1 : flash[dnBaseAddr + k] # "holed"

\* Between two blocks of a download the buffer holds the fragments that were
\* acknowledged since the last whole sector, all of them and no older ones:
\* "Buffer starts empty and is cleared by state machine on write"
\* (dfu_int_download).  So the DNLOAD that ends it drops less than a sector.
RestIsInBuffer ==
  Quiet /\ state = "DNLOAD_IDLE" => filled = 0 .. fragNumber - 1

\* A sector holds what was downloaded for the partition it belongs to.
AltSelectsPartition ==
  \A s \in Sectors : flash[s] \in Writable => s \in Partition(flash[s])

\* What GETSTATUS predicted is what the state machine did.
PredictionHolds ==
  Quiet /\ told # "none" =>
    \/ state = told
    \/ told = "DNBUSY" /\ state \in {"DNLOAD_SYNC", "ERROR"}
    \/ told = "MANIFEST" /\ state \in {"MANIFEST_SYNC", "ERROR"}

\* A poll in dfuDNBUSY or dfuMANIFEST is taken for too early in the ticks of the
\* timeout that was announced, from the first to the last, and at no other time,
\* wherever the timer stood at the announcement and whether or not it went
\* through 0 since; the 0 that is announced for dfuMANIFEST makes no poll early.
PollJudgedByElapsedTime ==
  svPc = "decide" /\ svSeen \in Busy =>
    /\ svSeen = "MANIFEST" => previousTimeout = 0
    /\ \A start, elapsed \in Clock :
         TooEarly(start, After(start, elapsed)) <=> elapsed \in 1 .. previousTimeout

\* Every command returns to the host.
CommandsReturn == svPc \notin {"idle", "reboot"} ~> svPc = "idle"
=============================================================================
