------------------------------ MODULE UsbAudio ------------------------------
(***************************************************************************)
(* The sample paths of usb_audio.c, in the builds with USB audio.          *)
(*                                                                         *)
(* Speaker: the host's packets go through rx_buffer, which cuts them to    *)
(* chunks of the nominal size, and samples_from_host_stream_buf to         *)
(* usb_audio_out_task, which a notification wakes for one pipeline frame.  *)
(* Microphone: the pipeline's task fills samples_to_host_stream_buf, which *)
(* the callback of the IN endpoint empties at the pace of the packets the  *)
(* host sends.  All callbacks run in the USB task, one after the other;    *)
(* the host opens and closes the interfaces when it likes.                 *)
(*                                                                         *)
(* Units: rx_buffer and samples_to_host count units, of which a packet has *)
(* Nominal when it is of nominal size; samples_from_host counts chunks.    *)
(* Build: one sample rate for USB and pipeline (RATE_MULTIPLIER is 1).     *)
(* The calls on a stream buffer are external, and atomic here.             *)
(***************************************************************************)
EXTENDS Integers

CONSTANTS
  FrameChunks,      \* USB_FRAMES_PER_VFE_FRAME: 15
  Nominal,          \* samples of a nominal packet: 16, in units
  PacketSizes,      \* the sizes a packet of the host can have, in units
  RxBufferSize,     \* 2 * CFG_TUD_AUDIO_FUNC_1_EP_OUT_SW_BUF_SZ, in units
  MaxNotified       \* bound: notifications that pile up behind a blocked reader

ASSUME UsbAudioAssumption ==
  /\ FrameChunks \in Nat \ {0}
  /\ Nominal \in Nat \ {0}
  /\ PacketSizes \subseteq Nat
  /\ RxBufferSize \in Nat /\ RxBufferSize >= 2 * Nominal
  /\ MaxNotified \in Nat \ {0}

VARIABLES
  rxBuffer,         \* rx_buffer: units in it
  fromHost,         \* samples_from_host_stream_buf: chunks in it
  notified,         \* the notification value of usb_audio_out_task
  outPc,            \* usb_audio_out_task
  onTheWay,         \* the pipeline frames in the intertile channel: 0 or 1
  spkrOpen,         \* spkr_interface_open
  toHost,           \* samples_to_host_stream_buf: units in it
  sendPc,           \* usb_audio_send, in the pipeline's task
  micOpen,          \* mic_interface_open
  ready,            \* the static of tud_audio_tx_done_pre_load_cb
  hostStreamingOut, \* host_streaming_out
  prevReceived,     \* prev_n_bytes_received, in units
  usbPc,            \* the USB task: the callback that is half done
  altOut, altIn,    \* the host's alternate settings: 1 while it streams
  written,          \* the last packet the IN callback wrote
  \* Histories.  A notification is surplus when the buffer was reset after it
  \* was given, or when a read for a surplus one took its frame, until a read
  \* finds nothing; units are old when usb_audio_send
  \* passed its first check before the interface was set the last time.
  surplus, oldUnits, oldFrame

outVars == <<rxBuffer, fromHost, notified, spkrOpen, surplus>>
readerVars == <<outPc, onTheWay>>
inVars == <<toHost, micOpen, ready, written, oldUnits>>
writerVars == <<sendPc, oldFrame>>
paceVars == <<hostStreamingOut, prevReceived>>
hostVars == <<altOut, altIn>>
usbVars == <<outVars, readerVars, inVars, writerVars, paceVars, usbPc, hostVars>>

\* The sizes in usb_audio_init
FromHostTooLarge == 3 * FrameChunks
FromHostSize == 2 * FrameChunks
FrameUnits == FrameChunks * Nominal
ToHostSize == 3 * FrameUnits

\* The notifications that usb_audio_out_task has not answered with a read
Pending == notified + (IF outPc = "read" THEN 1 ELSE 0)

\* The notification that is decided on and not given yet
Giving == IF usbPc = "give" THEN 1 ELSE 0

Smaller(a, b) == IF a < b THEN a ELSE b

UsbAudioTypeOK ==
  /\ rxBuffer \in 0 .. RxBufferSize
  /\ fromHost \in 0 .. FromHostSize
  /\ notified \in 0 .. MaxNotified /\ surplus \in 0 .. MaxNotified + 1
  /\ outPc \in {"wait", "read", "send", "failed"}
  /\ onTheWay \in {0, 1}
  /\ toHost \in 0 .. ToHostSize /\ oldUnits \in 0 .. toHost
  /\ sendPc \in {"idle", "check", "write"} /\ oldFrame \in BOOLEAN
  /\ spkrOpen \in BOOLEAN /\ micOpen \in BOOLEAN /\ ready \in BOOLEAN
  /\ hostStreamingOut \in BOOLEAN /\ prevReceived \in PacketSizes \cup {0}
  /\ usbPc \in {"idle", "notify", "give", "load"}
  /\ altOut \in {0, 1} /\ altIn \in {0, 1}
  /\ written \in PacketSizes \cup {0, Nominal}

\* usb_audio_init, and the initial values of the statics
UsbAudioInit ==
  /\ rxBuffer = 0 /\ fromHost = 0 /\ notified = 0 /\ spkrOpen = FALSE
  /\ outPc = "wait" /\ onTheWay = 0
  /\ toHost = 0 /\ micOpen = FALSE /\ ready = FALSE /\ written = 0
  /\ sendPc = "idle"
  /\ hostStreamingOut = FALSE /\ prevReceived = 0
  /\ usbPc = "idle" /\ altOut = 0 /\ altIn = 0
  /\ surplus = 0 /\ oldUnits = 0 /\ oldFrame = FALSE

-----------------------------------------------------------------------------
(***************************************************************************)
(* Speaker                                                                 *)
(***************************************************************************)
\* A nominal chunk is taken out of rx_buffer once there is one
HoldsChunk(units) == units >= Nominal

\* tud_audio_rx_done_post_read_cb, up to the notification.  A packet for which
\* rx_buffer has no room is dropped, before anything is taken out.
HostPacket(n) ==
  /\ usbPc = "idle" /\ altOut = 1
  /\ hostStreamingOut' = TRUE /\ prevReceived' = n
  /\ spkrOpen' = TRUE
  /\ LET accepted == rxBuffer + n <= RxBufferSize
         chunk == accepted /\ HoldsChunk(rxBuffer + n)
         fits == chunk /\ fromHost < FromHostSize
     IN /\ rxBuffer' = rxBuffer + (IF accepted THEN n ELSE 0)
                                - (IF chunk THEN Nominal ELSE 0)
        /\ fromHost' = fromHost + (IF fits THEN 1 ELSE 0)
        /\ usbPc' = IF fits THEN "notify" ELSE "idle"
  /\ UNCHANGED <<notified, surplus, readerVars, inVars, writerVars, hostVars>>

\* buffer_notify_level is met exactly
NotifiesWhenFull == fromHost = FromHostSize
Notifies == fromHost = 1 + FrameChunks

\* The rest of it: the level is tested, and the notification is given.  The
\* reader may have emptied the buffer before either.
HostPacketNotify ==
  /\ usbPc = "notify"
  /\ usbPc' = IF Notifies THEN "give" ELSE "idle"
  /\ UNCHANGED <<outVars, readerVars, inVars, writerVars, paceVars, hostVars>>

HostPacketGive ==
  /\ usbPc = "give" /\ notified < MaxNotified
  /\ notified' = notified + 1
  /\ usbPc' = "idle"
  /\ UNCHANGED <<rxBuffer, fromHost, spkrOpen, surplus, readerVars, inVars,
                 writerVars, paceVars, hostVars>>

\* ulTaskNotifyTake, which does not clear the value
ReaderWakes ==
  /\ outPc = "wait" /\ notified > 0
  /\ notified' = notified - 1
  /\ outPc' = "read"
  /\ UNCHANGED <<rxBuffer, fromHost, spkrOpen, surplus, onTheWay, inVars, writerVars,
                 paceVars, usbPc, hostVars>>

\* xStreamBufferReceive takes what is there.  A part of a frame fails the
\* assertion, which stops the firmware.
ReaderReads ==
  /\ outPc = "read"
  /\ LET chunks == Smaller(fromHost, FrameChunks)
     IN /\ fromHost' = fromHost - chunks
        /\ outPc' = CASE chunks = 0 -> "wait"
                      [] chunks = FrameChunks -> "send"
                      [] OTHER -> "failed"
        /\ surplus' = CASE chunks = 0 -> surplus - 1
                        [] chunks = FrameChunks -> Smaller(surplus, notified + Giving)
                        [] OTHER -> surplus
  /\ UNCHANGED <<rxBuffer, notified, spkrOpen, onTheWay, inVars,
                 writerVars, paceVars, usbPc, hostVars>>

\* rtos_intertile_tx waits until the channel can take the frame
ReaderSends ==
  /\ outPc = "send" /\ onTheWay = 0
  /\ onTheWay' = 1 /\ outPc' = "wait"
  /\ UNCHANGED <<outVars, inVars, writerVars, paceVars, usbPc,
                 hostVars>>

\* usb_audio_recv, called by the speaker pipeline's input on the other tile.
\* Without a frame on the way it times out, and the pipeline gets silence.
SpeakerReceives ==
  /\ onTheWay = 1
  /\ onTheWay' = 0
  /\ UNCHANGED <<outVars, outPc, inVars, writerVars, paceVars,
                 usbPc, hostVars>>

-----------------------------------------------------------------------------
(***************************************************************************)
(* Microphone                                                              *)
(***************************************************************************)
\* usb_audio_send: the flag, the room, the write
SendSeesOpen ==
  /\ sendPc = "idle" /\ micOpen
  /\ sendPc' = "check" /\ oldFrame' = FALSE
  /\ UNCHANGED <<outVars, readerVars, inVars, paceVars, usbPc, hostVars>>

SendHasNoRoom == toHost + FrameUnits > ToHostSize

SendSeesRoom ==
  /\ sendPc = "check"
  /\ sendPc' = IF SendHasNoRoom THEN "idle" ELSE "write"
  /\ UNCHANGED <<oldFrame, outVars, readerVars, inVars, paceVars, usbPc,
                 hostVars>>

SendWrites ==
  /\ sendPc = "write"
  /\ LET units == Smaller(FrameUnits, ToHostSize - toHost)
     IN /\ toHost' = toHost + units
        /\ oldUnits' = IF oldFrame THEN oldUnits + units ELSE oldUnits
  /\ sendPc' = "idle" /\ oldFrame' = FALSE
  /\ UNCHANGED <<outVars, readerVars, micOpen, ready, written, paceVars, usbPc,
                 hostVars>>

\* tx_size_bytes of tud_audio_tx_done_pre_load_cb
TxUnits == IF hostStreamingOut /\ prevReceived # 0 THEN prevReceived ELSE Nominal

\* tud_audio_tx_done_pre_load_cb, up to the test for a full buffer.  A full one
\* is reset, and nothing is written.
LoadStarts ==
  /\ usbPc = "idle" /\ altIn = 1
  /\ micOpen' = TRUE
  /\ IF toHost = ToHostSize
     THEN /\ toHost' = 0 /\ oldUnits' = 0
          /\ ready' = FALSE /\ written' = 0
          /\ usbPc' = "idle"
     ELSE /\ ready' = (ready /\ micOpen)
          /\ usbPc' = "load"
          /\ UNCHANGED <<toHost, oldUnits, written>>
  /\ UNCHANGED <<outVars, readerVars, writerVars, paceVars, hostVars>>

\* The rest of it.  An underflow is filled up with zeros.
LoadWrites ==
  /\ usbPc = "load"
  /\ ready' = (ready \/ toHost >= 2 * FrameUnits)
  /\ LET units == IF ready' THEN Smaller(toHost, TxUnits) ELSE 0
     IN /\ toHost' = toHost - units
        /\ oldUnits' = oldUnits - Smaller(oldUnits, units)
  /\ written' = TxUnits
  /\ usbPc' = "idle"
  /\ UNCHANGED <<outVars, readerVars, micOpen, writerVars, paceVars, hostVars>>

-----------------------------------------------------------------------------
(***************************************************************************)
(* The host sets an interface: tud_audio_set_itf_close_EP_cb for the       *)
(* setting that was in use, then tud_audio_set_itf_cb                      *)
(***************************************************************************)
SetSpeaker(alt) ==
  /\ usbPc = "idle"
  /\ altOut' = alt
  /\ spkrOpen' = FALSE
  /\ fromHost' = 0 /\ rxBuffer' = 0
  /\ surplus' = Pending
  /\ UNCHANGED <<notified, readerVars, inVars, writerVars, paceVars, usbPc,
                 altIn>>

\* What the reset of samples_to_host_stream_buf leaves in it
LeftAsItWas == toHost
LeftToHost == 0

SetMicrophone(alt) ==
  /\ usbPc = "idle"
  /\ altIn' = alt
  /\ micOpen' = FALSE
  /\ toHost' = LeftToHost /\ oldUnits' = LeftToHost
  /\ oldFrame' = (sendPc # "idle")
  /\ UNCHANGED <<outVars, readerVars, ready, written, sendPc, paceVars, usbPc,
                 altOut>>

Reader == ReaderWakes \/ ReaderReads \/ ReaderSends
Writer == SendSeesOpen \/ SendSeesRoom \/ SendWrites
Callback == HostPacketNotify \/ HostPacketGive \/ LoadWrites
Host ==
  \/ \E n \in PacketSizes : HostPacket(n)
  \/ LoadStarts
  \/ \E alt \in {0, 1} : SetSpeaker(alt) \/ SetMicrophone(alt)

\* An assertion that failed stops every task.
UsbAudioNext ==
  /\ outPc # "failed"
  /\ Reader \/ SpeakerReceives \/ Writer \/ Callback \/ Host

\* The tasks keep running, and the speaker pipeline keeps asking for frames:
\* its input is a loop that blocks nowhere else.
UsbAudioFairness ==
  /\ WF_usbVars(Reader)
  /\ WF_usbVars(outPc # "failed" /\ SpeakerReceives)
  /\ WF_usbVars(outPc # "failed" /\ Callback)

UsbAudioSpec == UsbAudioInit /\ [][UsbAudioNext]_usbVars /\ UsbAudioFairness

-----------------------------------------------------------------------------
\* A notification for the reader, given or about to be, stands for the backlog
\* of a frame and more, and there is none without it, even though the level is
\* compared with one value only, packets have other sizes and the reader may
\* take a frame between the test and the give.  What comes on top goes back to
\* notifications from before a reset of the buffer: only with one of these can
\* a read find a part of a frame, and fail the assertion of usb_audio_out_task
\* (ReadsWholeFrames).
NotificationsMatchFill ==
  IF outPc = "failed" THEN surplus > 0
  ELSE Pending + Giving
               = surplus
                 + (IF fromHost > 1 + FrameChunks
                       \/ (fromHost = 1 + FrameChunks /\ usbPc # "notify")
                    THEN 1 ELSE 0)

\* The comment and the assertion in usb_audio_out_task: it only wakes up when
\* the stream buffer contains a whole pipeline frame, and so receives one.
ReadsWholeFrames == outPc # "failed"

\* A backlog of more than a frame never stays: the notification that is sent
\* at one fill level only is enough for it (tud_audio_rx_done_post_read_cb).
BacklogDrains ==
  fromHost > FrameChunks ~> fromHost <= FrameChunks \/ outPc = "failed"

\* When the host opens the microphone again, at most one frame of what was
\* recorded before reaches it: the one that usb_audio_send was at when
\* tud_audio_set_itf_cb emptied the buffer.
OldAudioIsOneFrame == oldUnits <= FrameUnits

\* However long the packets were that piled up in rx_buffer, one of nominal
\* size still fits (tud_audio_rx_done_post_read_cb drops what does not).
RoomForNominal == rxBuffer + Nominal <= RxBufferSize

\* The comment in tud_audio_tx_done_pre_load_cb: without a stream from the
\* host, packets of nominal size are sent.
NominalPaceWhenSilent ==
  [][usbPc = "load" /\ usbPc' = "idle" /\ altOut = 0 => written' = Nominal]_usbVars
=============================================================================
