--------------------------- MODULE UsbAudio_proofs ---------------------------
(***************************************************************************)
(* Proofs about UsbAudio, for every frame length, every size of packets    *)
(* and of rx_buffer.  UsbAudioInv is inductive: the count of notifications *)
(* needs the types, and the type of surplus needs the count.  The second   *)
(* part is about AdaptiveRate: its queue, its restarts and its clock.  The *)
(* third is about RateWindow: what determine_USB_audio_rate divides.       *)
(***************************************************************************)
EXTENDS UsbAudio, AdaptiveRate, RateWindow, WellFoundedInduction, TLAPS

\* The frame being sent while the interface is set is old audio in one piece
OldFrameFirst == oldFrame => oldUnits = 0

UsbAudioInv ==
  /\ UsbAudioTypeOK /\ NotificationsMatchFill
  /\ OldFrameFirst /\ OldAudioIsOneFrame /\ RoomForNominal

LEMMA SizesNat ==
  /\ FrameChunks \in Nat \ {0} /\ FromHostSize \in Nat
  /\ FromHostSize = 2 * FrameChunks
  /\ FrameUnits \in Nat /\ ToHostSize \in Nat
BY UsbAudioAssumption DEF FromHostSize, FrameUnits, ToHostSize

LEMMA TxUnitsNat ==
  UsbAudioTypeOK => TxUnits \in PacketSizes \cup {Nominal} /\ TxUnits \in Nat
BY UsbAudioAssumption DEF UsbAudioTypeOK, TxUnits

LEMMA InitInv == UsbAudioInit => UsbAudioInv
<1> SUFFICES ASSUME UsbAudioInit PROVE UsbAudioInv
  OBVIOUS
<1> USE SizesNat, UsbAudioAssumption DEF UsbAudioInit
<1>1. UsbAudioTypeOK
  <2>1. /\ rxBuffer \in 0 .. RxBufferSize /\ fromHost \in 0 .. FromHostSize
        /\ notified \in 0 .. MaxNotified /\ surplus \in 0 .. MaxNotified + 1
        /\ toHost \in 0 .. ToHostSize /\ oldUnits \in 0 .. toHost
    OBVIOUS
  <2> QED
    BY <2>1 DEF UsbAudioTypeOK
<1>2. NotificationsMatchFill
  BY DEF NotificationsMatchFill, Pending, Giving
<1>3. OldFrameFirst /\ OldAudioIsOneFrame /\ RoomForNominal
  BY DEF OldFrameFirst, OldAudioIsOneFrame, RoomForNominal
<1> QED
  BY <1>1, <1>2, <1>3 DEF UsbAudioInv

LEMMA HostPacketInv ==
  ASSUME UsbAudioInv, outPc # "failed", NEW n \in PacketSizes, HostPacket(n)
  PROVE  UsbAudioInv'
<1> USE SizesNat, UsbAudioAssumption DEF UsbAudioInv, HostPacket
<1> DEFINE accepted == rxBuffer + n <= RxBufferSize
           chunk == accepted /\ HoldsChunk(rxBuffer + n)
           fits == chunk /\ fromHost < FromHostSize
<1>1. /\ rxBuffer' = rxBuffer + (IF accepted THEN n ELSE 0)
                              - (IF chunk THEN Nominal ELSE 0)
      /\ fromHost' = fromHost + (IF fits THEN 1 ELSE 0)
      /\ usbPc' = IF fits THEN "notify" ELSE "idle"
  OBVIOUS
<1>2. rxBuffer' \in 0 .. RxBufferSize /\ rxBuffer' + Nominal <= RxBufferSize
  BY <1>1 DEF UsbAudioTypeOK, RoomForNominal, HoldsChunk
<1>3. UsbAudioTypeOK'
  BY <1>1, <1>2 DEF UsbAudioTypeOK, readerVars, inVars, writerVars, hostVars
<1>4. NotificationsMatchFill'
  <2>1. CASE fits
    BY <2>1, <1>1 DEF NotificationsMatchFill, Pending, Giving, UsbAudioTypeOK, readerVars
  <2>2. CASE ~fits
    BY <2>2, <1>1 DEF NotificationsMatchFill, Pending, Giving, UsbAudioTypeOK, readerVars
  <2> QED
    BY <2>1, <2>2
<1>5. (OldFrameFirst /\ OldAudioIsOneFrame /\ RoomForNominal)'
  BY <1>2 DEF OldFrameFirst, OldAudioIsOneFrame, RoomForNominal, inVars, writerVars
<1> QED
  BY <1>3, <1>4, <1>5

LEMMA HostPacketNotifyInv ==
  ASSUME UsbAudioInv, outPc # "failed", HostPacketNotify
  PROVE  UsbAudioInv'
<1> USE SizesNat, UsbAudioAssumption DEF UsbAudioInv, HostPacketNotify
<1>1. UsbAudioTypeOK'
  BY DEF UsbAudioTypeOK, outVars, readerVars, inVars, writerVars, paceVars, hostVars
<1>2. NotificationsMatchFill'
  BY DEF NotificationsMatchFill, Notifies, Pending, Giving, UsbAudioTypeOK,
         outVars, readerVars
<1>3. (OldFrameFirst /\ OldAudioIsOneFrame /\ RoomForNominal)'
  BY DEF OldFrameFirst, OldAudioIsOneFrame, RoomForNominal, outVars, inVars, writerVars
<1> QED
  BY <1>1, <1>2, <1>3

\* A notification that was decided on is counted already
LEMMA HostPacketGiveInv ==
  ASSUME UsbAudioInv, outPc # "failed", HostPacketGive
  PROVE  UsbAudioInv'
<1> USE SizesNat, UsbAudioAssumption DEF UsbAudioInv, HostPacketGive
<1>1. UsbAudioTypeOK'
  BY DEF UsbAudioTypeOK, readerVars, inVars, writerVars, paceVars, hostVars
<1>2. NotificationsMatchFill'
  BY DEF NotificationsMatchFill, Pending, Giving, UsbAudioTypeOK, readerVars
<1>3. (OldFrameFirst /\ OldAudioIsOneFrame /\ RoomForNominal)'
  BY DEF OldFrameFirst, OldAudioIsOneFrame, RoomForNominal, inVars, writerVars
<1> QED
  BY <1>1, <1>2, <1>3

LEMMA ReaderReadsInv ==
  ASSUME UsbAudioInv, outPc # "failed", ReaderReads
  PROVE  UsbAudioInv'
<1> USE SizesNat, UsbAudioAssumption DEF UsbAudioInv
<1> DEFINE chunks == Smaller(fromHost, FrameChunks)
<1>1. /\ outPc = "read" /\ fromHost \in 0 .. FromHostSize
      /\ notified \in 0 .. MaxNotified /\ surplus \in 0 .. MaxNotified + 1
      /\ Pending = notified + 1 /\ Giving \in {0, 1}
  BY DEF ReaderReads, UsbAudioTypeOK, Pending, Giving
<1>2. /\ fromHost' = fromHost - chunks
      /\ notified' = notified /\ usbPc' = usbPc
      /\ UNCHANGED <<rxBuffer, notified, spkrOpen, onTheWay, inVars,
                     writerVars, paceVars, usbPc, hostVars>>
  BY DEF ReaderReads
<1>3. CASE fromHost = 0
  <2>1. chunks = 0 /\ surplus = notified + 1 + Giving
    BY <1>1, <1>3 DEF Smaller, NotificationsMatchFill
  <2>2. fromHost' = 0 /\ outPc' = "wait" /\ surplus' = notified + Giving
    BY <2>1, <1>1, <1>2, <1>3 DEF ReaderReads
  <2>3. UsbAudioTypeOK'
    BY <1>1, <1>2, <2>2
    DEF UsbAudioTypeOK, inVars, writerVars, paceVars, hostVars
  <2>4. NotificationsMatchFill'
    BY <1>1, <1>2, <2>2 DEF NotificationsMatchFill, Pending, Giving
  <2> QED
    BY <1>2, <2>3, <2>4
    DEF OldFrameFirst, OldAudioIsOneFrame, RoomForNominal, inVars, writerVars
<1>4. CASE fromHost >= FrameChunks
  <2>1. chunks = FrameChunks
    BY <1>1, <1>4 DEF Smaller
  <2>2. /\ fromHost' \in 0 .. FrameChunks /\ outPc' = "send"
        /\ surplus' = Smaller(surplus, notified + Giving)
    BY <2>1, <1>1, <1>2, <1>4 DEF ReaderReads
  <2>3. surplus' = notified + Giving
    BY <2>2, <1>1 DEF Smaller, NotificationsMatchFill
  <2>4. UsbAudioTypeOK'
    BY <1>1, <1>2, <2>2, <2>3
    DEF UsbAudioTypeOK, inVars, writerVars, paceVars, hostVars
  <2>5. NotificationsMatchFill'
    BY <1>1, <1>2, <2>2, <2>3 DEF NotificationsMatchFill, Pending, Giving
  <2> QED
    BY <1>2, <2>4, <2>5
    DEF OldFrameFirst, OldAudioIsOneFrame, RoomForNominal, inVars, writerVars
<1>5. CASE fromHost > 0 /\ fromHost < FrameChunks
  <2>1. chunks = fromHost
    BY <1>1, <1>5 DEF Smaller
  <2>2. fromHost' = 0 /\ outPc' = "failed" /\ surplus' = surplus
    BY <2>1, <1>1, <1>2, <1>5 DEF ReaderReads
  <2>3. surplus > 0
    BY <1>1, <1>5 DEF NotificationsMatchFill
  <2>4. UsbAudioTypeOK'
    BY <1>1, <1>2, <2>2
    DEF UsbAudioTypeOK, inVars, writerVars, paceVars, hostVars
  <2>5. NotificationsMatchFill'
    BY <2>2, <2>3 DEF NotificationsMatchFill
  <2> QED
    BY <1>2, <2>4, <2>5
    DEF OldFrameFirst, OldAudioIsOneFrame, RoomForNominal, inVars, writerVars
<1> QED
  BY <1>1, <1>3, <1>4, <1>5

\* The reader's other steps move no chunk
LEMMA ReaderInv ==
  ASSUME UsbAudioInv, outPc # "failed", Reader \/ SpeakerReceives
  PROVE  UsbAudioInv'
<1> USE SizesNat, UsbAudioAssumption DEF UsbAudioInv
<1>1. CASE ReaderWakes
  <2>1. UsbAudioTypeOK'
    BY <1>1 DEF ReaderWakes, UsbAudioTypeOK, inVars, writerVars, paceVars, hostVars
  <2>2. NotificationsMatchFill'
    BY <1>1 DEF ReaderWakes, NotificationsMatchFill, Pending, Giving, UsbAudioTypeOK
  <2> QED
    BY <1>1, <2>1, <2>2
    DEF ReaderWakes, OldFrameFirst, OldAudioIsOneFrame, RoomForNominal, inVars,
        writerVars
<1>2. CASE ReaderSends
  <2>1. UsbAudioTypeOK'
    BY <1>2
    DEF ReaderSends, UsbAudioTypeOK, outVars, inVars, writerVars, paceVars, hostVars
  <2>2. NotificationsMatchFill'
    BY <1>2 DEF ReaderSends, NotificationsMatchFill, Pending, Giving, UsbAudioTypeOK, outVars
  <2> QED
    BY <1>2, <2>1, <2>2
    DEF ReaderSends, OldFrameFirst, OldAudioIsOneFrame, RoomForNominal, outVars,
        inVars, writerVars
<1>3. CASE SpeakerReceives
  <2>1. UsbAudioTypeOK'
    BY <1>3
    DEF SpeakerReceives, UsbAudioTypeOK, outVars, inVars, writerVars, paceVars,
        hostVars
  <2>2. NotificationsMatchFill'
    BY <1>3 DEF SpeakerReceives, NotificationsMatchFill, Pending, Giving, outVars
  <2> QED
    BY <1>3, <2>1, <2>2
    DEF SpeakerReceives, OldFrameFirst, OldAudioIsOneFrame, RoomForNominal, outVars,
        inVars, writerVars
<1> QED
  BY <1>1, <1>2, <1>3, ReaderReadsInv DEF Reader

LEMMA WriterInv ==
  ASSUME UsbAudioInv, outPc # "failed", Writer
  PROVE  UsbAudioInv'
<1> USE SizesNat, UsbAudioAssumption DEF UsbAudioInv
<1>1. CASE SendSeesOpen
  <2>1. UsbAudioTypeOK'
    <3>1. oldFrame' \in BOOLEAN
      BY <1>1, ZenonT(30) DEF SendSeesOpen
    <3>2. /\ sendPc' = "check"
          /\ UNCHANGED <<outVars, readerVars, inVars, paceVars, usbPc, hostVars>>
      BY <1>1 DEF SendSeesOpen
    <3> QED
      BY <3>1, <3>2
      DEF UsbAudioTypeOK, outVars, readerVars, inVars, paceVars, hostVars
  <2>2. NotificationsMatchFill'
    BY <1>1 DEF SendSeesOpen, NotificationsMatchFill, Pending, Giving, outVars, readerVars
  <2> QED
    BY <1>1, <2>1, <2>2
    DEF SendSeesOpen, OldFrameFirst, OldAudioIsOneFrame, RoomForNominal, outVars,
        inVars
<1>2. CASE SendSeesRoom
  <2>1. UsbAudioTypeOK' /\ NotificationsMatchFill'
    BY <1>2
    DEF SendSeesRoom, UsbAudioTypeOK, NotificationsMatchFill, Pending, Giving, outVars,
        readerVars, inVars, paceVars, hostVars
  <2> QED
    BY <1>2, <2>1
    DEF SendSeesRoom, OldFrameFirst, OldAudioIsOneFrame, RoomForNominal, outVars,
        inVars
<1>3. CASE SendWrites
  <2> DEFINE units == Smaller(FrameUnits, ToHostSize - toHost)
  <2>1. /\ units \in 0 .. FrameUnits /\ toHost + units \in 0 .. ToHostSize
        /\ toHost \in Nat /\ oldUnits \in 0 .. toHost
    BY DEF Smaller, UsbAudioTypeOK
  <2>2. /\ toHost' = toHost + units
        /\ oldUnits' = (IF oldFrame THEN oldUnits + units ELSE oldUnits)
    BY <1>3 DEF SendWrites
  <2> HIDE DEF units
  <2>3. UsbAudioTypeOK'
    <3>1. oldFrame' \in BOOLEAN
      BY <1>3, ZenonT(30) DEF SendWrites
    <3>2. toHost' \in 0 .. ToHostSize /\ oldUnits' \in 0 .. toHost'
      BY <2>1, <2>2
    <3>3. /\ sendPc' = "idle"
          /\ UNCHANGED <<outVars, readerVars, micOpen, ready, written, paceVars,
                         usbPc, hostVars>>
      BY <1>3 DEF SendWrites
    <3> QED
      BY <3>1, <3>2, <3>3
      DEF UsbAudioTypeOK, outVars, readerVars, paceVars, hostVars
  <2>4. NotificationsMatchFill'
    BY <1>3 DEF SendWrites, NotificationsMatchFill, Pending, Giving, outVars, readerVars
  <2>5. (OldFrameFirst /\ OldAudioIsOneFrame)'
    BY <1>3, <2>1, <2>2 DEF SendWrites, OldFrameFirst, OldAudioIsOneFrame
  <2> QED
    BY <1>3, <2>3, <2>4, <2>5 DEF SendWrites, RoomForNominal, outVars
<1> QED
  BY <1>1, <1>2, <1>3 DEF Writer

LEMMA LoadInv ==
  ASSUME UsbAudioInv, outPc # "failed", LoadStarts \/ LoadWrites
  PROVE  UsbAudioInv'
<1> USE SizesNat, UsbAudioAssumption DEF UsbAudioInv
<1>1. CASE LoadStarts
  <2>1. UsbAudioTypeOK'
    <3>1. micOpen' \in BOOLEAN /\ ready' \in BOOLEAN
      BY <1>1, ZenonT(30) DEF LoadStarts
    <3>2. /\ toHost' \in 0 .. ToHostSize /\ oldUnits' \in 0 .. toHost'
          /\ written' \in PacketSizes \cup {0, Nominal}
          /\ usbPc' \in {"idle", "notify", "give", "load"}
      BY <1>1 DEF LoadStarts, UsbAudioTypeOK
    <3>3. UNCHANGED <<outVars, readerVars, writerVars, paceVars, hostVars>>
      BY <1>1 DEF LoadStarts
    <3> QED
      BY <3>1, <3>2, <3>3
      DEF UsbAudioTypeOK, outVars, readerVars, writerVars, paceVars, hostVars
  <2>2. NotificationsMatchFill'
    BY <1>1 DEF LoadStarts, NotificationsMatchFill, Pending, Giving, outVars, readerVars
  <2>3. (OldFrameFirst /\ OldAudioIsOneFrame)'
    BY <1>1 DEF LoadStarts, OldFrameFirst, OldAudioIsOneFrame, writerVars
  <2> QED
    BY <1>1, <2>1, <2>2, <2>3 DEF LoadStarts, RoomForNominal, outVars
<1>2. CASE LoadWrites
  <2> DEFINE units == IF ready' THEN Smaller(toHost, TxUnits) ELSE 0
  <2>1. /\ units \in 0 .. toHost /\ toHost \in 0 .. ToHostSize
        /\ oldUnits \in 0 .. toHost
    BY TxUnitsNat DEF Smaller, UsbAudioTypeOK
  <2>2. /\ toHost' = toHost - units
        /\ oldUnits' = oldUnits - Smaller(oldUnits, units)
    BY <1>2 DEF LoadWrites
  <2> HIDE DEF units
  <2>3. /\ toHost' \in 0 .. ToHostSize /\ oldUnits' \in 0 .. toHost'
        /\ oldUnits' <= oldUnits
    BY <2>1, <2>2 DEF Smaller
  <2>4. written' \in PacketSizes \cup {0, Nominal} /\ ready' \in BOOLEAN
    BY <1>2, TxUnitsNat DEF LoadWrites, UsbAudioTypeOK
  <2>5. UsbAudioTypeOK'
    BY <1>2, <2>3, <2>4
    DEF LoadWrites, UsbAudioTypeOK, outVars, readerVars, writerVars, paceVars,
        hostVars
  <2>6. NotificationsMatchFill'
    BY <1>2 DEF LoadWrites, NotificationsMatchFill, Pending, Giving, outVars, readerVars
  <2>7. (OldFrameFirst /\ OldAudioIsOneFrame)'
    BY <1>2, <2>1, <2>3
    DEF LoadWrites, OldFrameFirst, OldAudioIsOneFrame, writerVars
  <2> QED
    BY <1>2, <2>5, <2>6, <2>7 DEF LoadWrites, RoomForNominal, outVars
<1> QED
  BY <1>1, <1>2

LEMMA InterfaceInv ==
  ASSUME UsbAudioInv, outPc # "failed", NEW alt \in {0, 1},
         SetSpeaker(alt) \/ SetMicrophone(alt)
  PROVE  UsbAudioInv'
<1> USE SizesNat, UsbAudioAssumption DEF UsbAudioInv
<1>1. CASE SetSpeaker(alt)
  <2>1. Pending \in 0 .. MaxNotified + 1
    BY DEF Pending, UsbAudioTypeOK
  <2>2. UsbAudioTypeOK'
    <3>1. spkrOpen' \in BOOLEAN
      BY <1>1, ZenonT(30) DEF SetSpeaker
    <3>2. /\ altOut' = alt /\ fromHost' = 0 /\ rxBuffer' = 0 /\ surplus' = Pending
          /\ UNCHANGED <<notified, readerVars, inVars, writerVars, paceVars, usbPc,
                         altIn>>
      BY <1>1 DEF SetSpeaker
    <3> QED
      BY <2>1, <3>1, <3>2
      DEF UsbAudioTypeOK, readerVars, inVars, writerVars, paceVars
  <2>3. NotificationsMatchFill'
    BY <1>1, <2>1 DEF SetSpeaker, NotificationsMatchFill, Pending, Giving, readerVars
  <2> QED
    BY <1>1, <2>2, <2>3
    DEF SetSpeaker, OldFrameFirst, OldAudioIsOneFrame, RoomForNominal, inVars,
        writerVars
<1>2. CASE SetMicrophone(alt)
  <2>1. UsbAudioTypeOK'
    <3>1. micOpen' \in BOOLEAN /\ oldFrame' \in BOOLEAN
      BY <1>2, ZenonT(30) DEF SetMicrophone, LeftToHost
    <3>2. /\ altIn' = alt /\ toHost' = 0 /\ oldUnits' = 0
          /\ UNCHANGED <<outVars, readerVars, ready, written, sendPc, paceVars,
                         usbPc, altOut>>
      BY <1>2 DEF SetMicrophone, LeftToHost
    <3> QED
      BY <3>1, <3>2 DEF UsbAudioTypeOK, outVars, readerVars, paceVars
  <2>2. NotificationsMatchFill'
    BY <1>2 DEF SetMicrophone, LeftToHost, NotificationsMatchFill, Pending, Giving, outVars, readerVars
  <2> QED
    BY <1>2, <2>1, <2>2
    DEF SetMicrophone, LeftToHost, OldFrameFirst, OldAudioIsOneFrame, RoomForNominal, outVars
<1> QED
  BY <1>1, <1>2

LEMMA NextInv == UsbAudioInv /\ [UsbAudioNext]_usbVars => UsbAudioInv'
<1> SUFFICES ASSUME UsbAudioInv, [UsbAudioNext]_usbVars PROVE UsbAudioInv'
  OBVIOUS
<1>1. CASE UNCHANGED usbVars
  BY <1>1
  DEF usbVars, UsbAudioInv, UsbAudioTypeOK, NotificationsMatchFill, Pending, Giving,
      OldFrameFirst, OldAudioIsOneFrame, RoomForNominal, outVars, readerVars,
      inVars, writerVars, paceVars, hostVars
<1>2. CASE UsbAudioNext
  <2>1. outPc # "failed" /\ (Reader \/ SpeakerReceives \/ Writer \/ Callback \/ Host)
    BY <1>2 DEF UsbAudioNext
  <2>2. CASE Reader \/ SpeakerReceives
    BY <2>1, <2>2, ReaderInv
  <2>3. CASE Writer
    BY <2>1, <2>3, WriterInv
  <2>4. CASE Callback
    BY <2>1, <2>4, HostPacketNotifyInv, HostPacketGiveInv, LoadInv DEF Callback
  <2>5. CASE Host
    BY <2>1, <2>5, HostPacketInv, LoadInv, InterfaceInv DEF Host
  <2> QED
    BY <2>1, <2>2, <2>3, <2>4, <2>5
<1> QED
  BY <1>1, <1>2

LEMMA InvAlways == UsbAudioSpec => []UsbAudioInv
<1>1. UsbAudioInit => UsbAudioInv
  BY InitInv
<1>2. UsbAudioInv /\ [UsbAudioNext]_usbVars => UsbAudioInv'
  BY NextInv
<1> QED
  BY <1>1, <1>2, PTL DEF UsbAudioSpec

-----------------------------------------------------------------------------
\* The assertion on the read's length in usb_audio_out_task can only fail with
\* a notification from before a reset, and otherwise a notification is there
\* exactly while there is a backlog that needs one.
THEOREM NotificationsCorrect == UsbAudioSpec => []NotificationsMatchFill
<1>1. UsbAudioInv => NotificationsMatchFill
  BY DEF UsbAudioInv
<1> QED
  BY <1>1, InvAlways, PTL

\* An interface that is set again gets at most one frame of old audio.
THEOREM OldAudioCorrect == UsbAudioSpec => []OldAudioIsOneFrame
<1>1. UsbAudioInv => OldAudioIsOneFrame
  BY DEF UsbAudioInv
<1> QED
  BY <1>1, InvAlways, PTL

\* A packet of nominal size is never dropped for want of room in rx_buffer,
\* whatever the sizes of the packets before it.
THEOREM NominalPacketFits == UsbAudioSpec => []RoomForNominal
<1>1. UsbAudioInv => RoomForNominal
  BY DEF UsbAudioInv
<1> QED
  BY <1>1, InvAlways, PTL


-----------------------------------------------------------------------------
(***************************************************************************)
(* The adaptive sample rate, for every number of starts of frame to a      *)
(* transfer, if the task handles a transfer before the next one is due: it *)
(* has the highest priority, and a millisecond.                            *)
(***************************************************************************)
Prompt == MaxLate < SofsPerMs

Stamps == 0 .. StampModulus - 1
Transfers == [dir : Directions, time : Stamps, calc : BOOLEAN, late : Nat]
Queued(d) == \E i \in 1 .. Len(queue) : queue[i].dir = d

RateTypes ==
  /\ sofs \in 0 .. SofsPerMs - 1 /\ stamp \in Stamps
  /\ queue \in Seq(Transfers)
  /\ dataSeen \in [Directions -> BOOLEAN] /\ firstTime \in [Directions -> BOOLEAN]
  /\ sofCount \in [Directions -> 0 .. SofsPerMs + 1]
  /\ quiet \in [Directions -> Nat] /\ steady \in [Directions -> BOOLEAN]
  /\ handled \in [Directions -> Stamps]

\* A direction has at most one transfer in the queue, which is there as long
\* as the direction has been quiet; data_seen tells of one just taken.
QueueInv ==
  /\ TransfersFit /\ Len(queue) <= QueueSize
  /\ \A i \in 1 .. Len(queue) :
       queue[i].late = quiet[queue[i].dir] /\ queue[i].late <= MaxLate
  /\ \A i, j \in 1 .. Len(queue) : queue[i].dir = queue[j].dir => i = j
  /\ \A d \in Directions : dataSeen[d] => ~Queued(d) /\ quiet[d] <= MaxLate

RateInv == RateTypes /\ QueueInv

LEMMA EntryTypes ==
  ASSUME RateTypes, NEW i \in 1 .. Len(queue)
  PROVE  /\ queue[i] \in Transfers /\ queue[i].dir \in Directions
         /\ queue[i].time \in Stamps /\ queue[i].late \in Nat
<1>1. queue[i] \in Transfers
  BY DEF RateTypes
<1>2. QED BY <1>1 DEF Transfers

\* What the actions do to the queue, an entry at a time
LEMMA QueueLonger ==
  ASSUME RateTypes, NEW r \in Transfers, queue' = Append(queue, r)
  PROVE  /\ queue' \in Seq(Transfers) /\ Len(queue') = Len(queue) + 1
         /\ \A i \in 1 .. Len(queue) : queue'[i] = queue[i]
         /\ queue'[Len(queue')] = r
         /\ \A d : Queued(d)' <=> Queued(d) \/ d = r.dir
<1>1. /\ queue' \in Seq(Transfers) /\ Len(queue') = Len(queue) + 1
      /\ \A i \in 1 .. Len(queue) : queue'[i] = queue[i]
      /\ queue'[Len(queue')] = r /\ Len(queue) \in Nat
  BY DEF RateTypes
<1>2. \A i \in 1 .. Len(queue') : i \in 1 .. Len(queue) \/ i = Len(queue')
  BY <1>1
<1>3. Len(queue') \in 1 .. Len(queue') /\ 1 .. Len(queue) \subseteq 1 .. Len(queue')
  BY <1>1
<1>4. QED BY <1>1, <1>2, <1>3 DEF Queued

LEMMA QueueShorter ==
  ASSUME RateTypes, queue # <<>>, queue' = Tail(queue)
  PROVE  /\ queue' \in Seq(Transfers) /\ Len(queue') = Len(queue) - 1
         /\ Head(queue) = queue[1] /\ 1 \in 1 .. Len(queue)
         /\ \A i \in 1 .. Len(queue') :
              i + 1 \in 1 .. Len(queue) /\ queue'[i] = queue[i + 1]
         /\ \A d : Queued(d) <=> Queued(d)' \/ d = queue[1].dir
<1>1. /\ queue' \in Seq(Transfers) /\ Len(queue') = Len(queue) - 1
      /\ Head(queue) = queue[1] /\ Len(queue) \in Nat \ {0}
      /\ \A i \in 1 .. Len(queue') : queue'[i] = queue[i + 1]
  BY DEF RateTypes
<1>2. \A i \in 1 .. Len(queue') : i + 1 \in 1 .. Len(queue)
  BY <1>1
<1>3. \A i \in 1 .. Len(queue) : i = 1 \/ (i - 1 \in 1 .. Len(queue') /\ i = (i - 1) + 1)
  BY <1>1
<1>4. ASSUME NEW d, Queued(d) PROVE Queued(d)' \/ d = queue[1].dir
  <2>1. PICK i \in 1 .. Len(queue) : queue[i].dir = d
    BY <1>4 DEF Queued
  <2>2. CASE i # 1
    <3>1. i - 1 \in 1 .. Len(queue') /\ queue'[i - 1] = queue[i]
      BY <1>1, <1>3, <2>2
    <3>2. QED BY <2>1, <3>1 DEF Queued
  <2>3. QED BY <2>1, <2>2
<1>5. 1 \in 1 .. Len(queue)
  BY <1>1
<1>6. \A d : Queued(d)' \/ d = queue[1].dir => Queued(d)
  BY <1>1, <1>2, <1>5 DEF Queued
<1>7. QED BY <1>1, <1>2, <1>4, <1>5, <1>6

LEMMA QueueOlder ==
  ASSUME RateTypes,
         queue' = [i \in 1 .. Len(queue) |-> [queue[i] EXCEPT !.late = @ + 1]]
  PROVE  /\ queue' \in Seq(Transfers) /\ Len(queue') = Len(queue)
         /\ \A i \in 1 .. Len(queue) :
              /\ queue'[i].dir = queue[i].dir /\ queue'[i].time = queue[i].time
              /\ queue'[i].late = queue[i].late + 1
         /\ \A d : Queued(d)' <=> Queued(d)
<1>1. \A i \in 1 .. Len(queue) :
        queue[i] \in Transfers /\ queue'[i] = [queue[i] EXCEPT !.late = @ + 1]
  BY DEF RateTypes
<1>2. \A i \in 1 .. Len(queue) :
        /\ queue'[i] \in Transfers
        /\ queue'[i].dir = queue[i].dir /\ queue'[i].time = queue[i].time
        /\ queue'[i].late = queue[i].late + 1
  BY <1>1 DEF Transfers
<1>3. queue' \in Seq(Transfers) /\ Len(queue') = Len(queue)
  <2>1. Len(queue) \in Nat
    BY DEF RateTypes
  <2>2. queue' \in [1 .. Len(queue) -> Transfers]
    BY <1>2
  <2>3. QED BY <2>1, <2>2
<1>4. QED BY <1>2, <1>3 DEF Queued


\* A direction that was quiet for a whole millisecond has nothing in the queue.
LEMMA QuietIsHandled ==
  ASSUME Prompt, RateInv, NEW d \in Directions, quiet[d] >= SofsPerMs
  PROVE  ~Queued(d) /\ ~dataSeen[d]
<1>1. \A i \in 1 .. Len(queue) : queue[i].dir = d => quiet[d] <= MaxLate
  BY DEF RateInv, QueueInv
<1>2. ~(quiet[d] <= MaxLate)
  BY AdaptiveRateAssumption DEF Prompt, RateInv, RateTypes
<1>3. QED BY <1>1, <1>2 DEF RateInv, QueueInv, Queued

LEMMA RateStarts == AdaptiveRateInit => RateInv
<1> SUFFICES ASSUME AdaptiveRateInit PROVE RateInv
  OBVIOUS
<1> USE AdaptiveRateAssumption
<1>1. queue = <<>> /\ Len(queue) = 0
  BY DEF AdaptiveRateInit
<1>2. RateTypes
  BY <1>1 DEF AdaptiveRateInit, RateTypes, Stamps
<1>3. QueueInv
  BY <1>1 DEF AdaptiveRateInit, QueueInv, TransfersFit, QueueSize
<1>4. QED BY <1>2, <1>3 DEF RateInv

LEMMA TransferKeeps ==
  ASSUME Prompt, RateInv, NEW d \in Directions, Transfer(d)
  PROVE  /\ RateInv'
         /\ \E r \in Transfers :
              r.dir = d /\ r.time = stamp /\ queue' = Append(queue, r)
<1> USE AdaptiveRateAssumption
<1>1. ~Queued(d) /\ ~dataSeen[d]
  BY QuietIsHandled DEF Transfer
<1>2. Len(queue) < QueueSize
  <2>1. \A i \in 1 .. Len(queue) : queue[i].dir \in Directions /\ queue[i].dir # d
    BY <1>1, EntryTypes DEF Queued, RateInv
  <2>2. \A i, j \in 1 .. Len(queue) : i = j
    BY <2>1 DEF RateInv, QueueInv, Directions
  <2>3. Len(queue) \in Nat
    BY DEF RateInv, RateTypes
  <2>4. ~(Len(queue) >= 2)
    <3>1. SUFFICES ASSUME Len(queue) >= 2 PROVE FALSE
      OBVIOUS
    <3>2. 1 \in 1 .. Len(queue) /\ 2 \in 1 .. Len(queue)
      BY <2>3, <3>1
    <3>3. QED BY <2>2, <3>2
  <2>5. QED BY <2>3, <2>4 DEF QueueSize
<1>3. PICK r : r = [dir |-> d, time |-> stamp, calc |-> Calculates(d), late |-> 0]
  OBVIOUS
<1>4. r \in Transfers /\ r.dir = d /\ r.time = stamp /\ r.late = 0
  BY <1>3 DEF Transfers, RateInv, RateTypes, Calculates
<1>5. queue' = Append(queue, r) /\ UNCHANGED queueFailed
  BY <1>2, <1>3 DEF Transfer
<1>6. /\ queue' \in Seq(Transfers) /\ Len(queue') = Len(queue) + 1
      /\ \A i \in 1 .. Len(queue) : queue'[i] = queue[i]
      /\ queue'[Len(queue')] = r
      /\ \A e : Queued(e)' <=> Queued(e) \/ e = d
  BY <1>4, <1>5, QueueLonger DEF RateInv
<1>7. /\ quiet' = [quiet EXCEPT ![d] = 0]
      /\ UNCHANGED <<sofs, stamp, dataSeen, sofCount, firstTime, handled>>
      /\ steady' = [steady EXCEPT ![d] = (quiet[d] = SofsPerMs)]
  BY DEF Transfer
<1>8. RateTypes'
  BY <1>6, <1>7 DEF RateInv, RateTypes, Stamps
<1>9. \A i \in 1 .. Len(queue') :
        /\ queue'[i].late = quiet'[queue'[i].dir] /\ queue'[i].late <= MaxLate
        /\ i # Len(queue') => i \in 1 .. Len(queue) /\ queue[i].dir # d
        /\ i # Len(queue') => queue'[i].dir = queue[i].dir
        /\ i = Len(queue') => queue'[i].dir = d
  <2> SUFFICES ASSUME NEW i \in 1 .. Len(queue')
               PROVE  /\ queue'[i].late = quiet'[queue'[i].dir] /\ queue'[i].late <= MaxLate
                      /\ i # Len(queue') => i \in 1 .. Len(queue) /\ queue[i].dir # d
                      /\ i # Len(queue') => queue'[i].dir = queue[i].dir
                      /\ i = Len(queue') => queue'[i].dir = d
    OBVIOUS
  <2>1. Len(queue) \in Nat /\ d \in DOMAIN quiet
    BY DEF RateInv, RateTypes
  <2>2. CASE i = Len(queue')
    BY <1>4, <1>6, <1>7, <2>1, <2>2
  <2>3. CASE i # Len(queue')
    <3>1. i \in 1 .. Len(queue) /\ queue'[i] = queue[i]
      BY <1>6, <2>1, <2>3
    <3>2. queue[i].dir \in Directions /\ queue[i].dir # d
      BY <1>1, <3>1, EntryTypes DEF Queued, RateInv
    <3>3. quiet'[queue[i].dir] = quiet[queue[i].dir]
      BY <1>7, <3>2 DEF RateInv, RateTypes
    <3>4. QED BY <2>3, <3>1, <3>2, <3>3 DEF RateInv, QueueInv
  <2>4. QED BY <2>2, <2>3
<1>10. \A i, j \in 1 .. Len(queue') : queue'[i].dir = queue'[j].dir => i = j
  BY <1>9 DEF RateInv, QueueInv
<1>11. \A e \in Directions : dataSeen'[e] => ~Queued(e)' /\ quiet'[e] <= MaxLate
  BY <1>1, <1>6, <1>7 DEF RateInv, RateTypes, QueueInv
<1>12. Len(queue') <= QueueSize /\ TransfersFit'
  BY <1>2, <1>5, <1>6 DEF RateInv, RateTypes, QueueInv, TransfersFit, QueueSize
<1>13. RateInv'
  BY <1>8, <1>9, <1>10, <1>11, <1>12 DEF RateInv, QueueInv
<1>14. QED BY <1>4, <1>5, <1>13

LEMMA StartOfFrameKeeps ==
  ASSUME Prompt, RateInv, StartOfFrame
  PROVE  RateInv'
<1> USE AdaptiveRateAssumption
<1>1. queue' = [i \in 1 .. Len(queue) |-> [queue[i] EXCEPT !.late = @ + 1]]
  BY DEF StartOfFrame
<1>2. /\ queue' \in Seq(Transfers) /\ Len(queue') = Len(queue)
      /\ \A i \in 1 .. Len(queue) :
           /\ queue'[i].dir = queue[i].dir /\ queue'[i].time = queue[i].time
           /\ queue'[i].late = queue[i].late + 1
      /\ \A d : Queued(d)' <=> Queued(d)
  BY <1>1, QueueOlder DEF RateInv
<1>3. /\ dataSeen' = [d \in Directions |-> FALSE]
      /\ UNCHANGED <<queueFailed, handled, steady>>
  BY DEF StartOfFrame
<1>4. \A d \in Directions :
        quiet'[d] = IF quiet[d] > SofsPerMs + MaxLate + 1 THEN quiet[d] ELSE quiet[d] + 1
  BY DEF StartOfFrame
<1>5. RateTypes'
  <2>1. sofs' \in 0 .. SofsPerMs - 1 /\ stamp' \in Stamps
    BY DEF StartOfFrame, StampAfter, Stamps, RateInv, RateTypes
  <2>2. sofCount' \in [Directions -> 0 .. SofsPerMs + 1]
    BY DEF StartOfFrame, RateInv, RateTypes, TooQuiet
  <2>3. quiet' \in [Directions -> Nat]
    BY DEF StartOfFrame, RateInv, RateTypes
  <2>4. firstTime' \in [Directions -> BOOLEAN]
    BY DEF StartOfFrame, RateInv, RateTypes, TooQuiet
  <2>5. QED BY <1>2, <1>3, <2>1, <2>2, <2>3, <2>4 DEF RateInv, RateTypes, Stamps
<1>6. ASSUME NEW i \in 1 .. Len(queue')
      PROVE  queue'[i].late = quiet'[queue'[i].dir] /\ queue'[i].late <= MaxLate
  <2>1. /\ i \in 1 .. Len(queue) /\ queue[i].dir \in Directions /\ queue[i].late \in Nat
        /\ queue[i].late = quiet[queue[i].dir] /\ queue[i].late < MaxLate
    BY <1>2, <1>6, EntryTypes DEF StartOfFrame, RateInv, QueueInv
  <2>2. quiet'[queue[i].dir] = quiet[queue[i].dir] + 1
    BY <1>4, <2>1
  <2>3. QED BY <1>2, <2>1, <2>2
<1>7. QueueInv'
  BY <1>2, <1>3, <1>6 DEF RateInv, QueueInv, TransfersFit
<1>8. QED BY <1>5, <1>7 DEF RateInv

LEMMA TaskKeeps ==
  ASSUME RateInv, TaskHandles
  PROVE  RateInv'
<1> USE AdaptiveRateAssumption
<1>1. /\ queue' \in Seq(Transfers) /\ Len(queue') = Len(queue) - 1
      /\ Head(queue) = queue[1] /\ 1 \in 1 .. Len(queue)
      /\ \A i \in 1 .. Len(queue') :
           i + 1 \in 1 .. Len(queue) /\ queue'[i] = queue[i + 1]
      /\ \A d : Queued(d) <=> Queued(d)' \/ d = queue[1].dir
  BY QueueShorter DEF RateInv, TaskHandles
<1>2. PICK p : p = queue[1]
  OBVIOUS
<1>3. p \in Transfers /\ p.dir \in Directions /\ p.time \in Stamps
  BY <1>1, <1>2, EntryTypes DEF RateInv
<1>4. /\ dataSeen' = [dataSeen EXCEPT ![p.dir] = TRUE]
      /\ firstTime' = [firstTime EXCEPT ![p.dir] = FALSE]
      /\ handled' = [handled EXCEPT ![p.dir] = p.time]
      /\ UNCHANGED <<sofs, stamp, queueFailed, sofCount, quiet, steady>>
  BY <1>1, <1>2 DEF TaskHandles
<1>5. RateTypes'
  BY <1>1, <1>3, <1>4 DEF RateInv, RateTypes, Stamps
<1>6. ~Queued(p.dir)'
  <2>1. \A i \in 1 .. Len(queue') : i + 1 # 1 /\ queue'[i].dir # queue[1].dir
    BY <1>1 DEF RateInv, QueueInv
  <2>2. QED BY <1>2, <2>1 DEF Queued
<1>7. \A d \in Directions : dataSeen'[d] => ~Queued(d)' /\ quiet'[d] <= MaxLate
  <2>1. quiet[p.dir] <= MaxLate
    BY <1>1, <1>2 DEF RateInv, QueueInv
  <2>2. QED BY <1>1, <1>4, <1>6, <2>1 DEF RateInv, RateTypes, QueueInv
<1>8. \A i \in 1 .. Len(queue') :
        queue'[i].late = quiet'[queue'[i].dir] /\ queue'[i].late <= MaxLate
  <2> SUFFICES ASSUME NEW i \in 1 .. Len(queue')
               PROVE  queue'[i].late = quiet'[queue'[i].dir] /\ queue'[i].late <= MaxLate
    OBVIOUS
  <2>1. i + 1 \in 1 .. Len(queue) /\ queue'[i] = queue[i + 1]
    BY <1>1
  <2>2. queue[i + 1].late = quiet[queue[i + 1].dir] /\ queue[i + 1].late <= MaxLate
    BY <2>1 DEF RateInv, QueueInv
  <2>3. QED BY <1>4, <2>1, <2>2
<1>9. \A i, j \in 1 .. Len(queue') : queue'[i].dir = queue'[j].dir => i = j
  <2> SUFFICES ASSUME NEW i \in 1 .. Len(queue'), NEW j \in 1 .. Len(queue'),
                      queue'[i].dir = queue'[j].dir
               PROVE  i = j
    OBVIOUS
  <2>1. i + 1 = j + 1
    BY <1>1 DEF RateInv, QueueInv
  <2>2. QED BY <2>1
<1>10. Len(queue') <= QueueSize /\ TransfersFit'
  BY <1>1, <1>4 DEF RateInv, RateTypes, QueueInv, TransfersFit, QueueSize
<1>11. QED BY <1>5, <1>7, <1>8, <1>9, <1>10 DEF RateInv, QueueInv


\* All the invariants read: the interfaces and the PLL are not among it.
measured == <<sofs, stamp, queue, queueFailed, dataSeen, sofCount, firstTime,
              quiet, steady, handled>>

LEMMA RateKept ==
  Prompt => (RateInv /\ [AdaptiveRateNext]_rateVars => RateInv')
<1> SUFFICES ASSUME Prompt, RateInv, [AdaptiveRateNext]_rateVars PROVE RateInv'
  OBVIOUS
<1>1. ASSUME NEW d \in Directions, Transfer(d) PROVE RateInv'
  BY <1>1, TransferKeeps
<1>2. CASE StartOfFrame
  BY <1>2, StartOfFrameKeeps
<1>3. CASE TaskHandles
  BY <1>3, TaskKeeps
<1>4. CASE UNCHANGED measured
  BY <1>4 DEF measured, RateInv, RateTypes, QueueInv, TransfersFit, Queued, Stamps
<1>5. InterfacesChange \/ UNCHANGED rateVars => UNCHANGED measured
  BY DEF InterfacesChange, rateVars, measured
<1>6. QED BY <1>1, <1>2, <1>3, <1>4, <1>5 DEF AdaptiveRateNext

LEMMA RateAlways == Prompt => (AdaptiveRateSpec => []RateInv)
<1> SUFFICES ASSUME Prompt PROVE AdaptiveRateSpec => []RateInv
  OBVIOUS
<1>1. RateInv /\ [AdaptiveRateNext]_rateVars => RateInv'
  BY RateKept
<1>2. QED BY <1>1, RateStarts, PTL DEF AdaptiveRateSpec

\* The assertion behind xQueueSendFromISR in tud_xcore_data_cb never fails: a
\* queue of two is enough for the transfers of two directions, if the task
\* takes a transfer before the same direction has the next one.
THEOREM QueueHasRoom == Prompt => (AdaptiveRateSpec => []TransfersFit)
<1> SUFFICES ASSUME Prompt PROVE AdaptiveRateSpec => []TransfersFit
  OBVIOUS
<1>1. AdaptiveRateSpec => []RateInv
  BY RateAlways
<1>2. RateInv => TransfersFit
  BY DEF RateInv, QueueInv
<1>3. QED BY <1>1, <1>2, PTL

-----------------------------------------------------------------------------
(***************************************************************************)
(* A steady stream: sof_count stays behind the starts of frame since the   *)
(* last transfer, until the next one is handled, a start of frame late at  *)
(* most.                                                                   *)
(***************************************************************************)
SteadyInv ==
  \A d \in Directions :
    /\ ~Queued(d) /\ ~dataSeen[d] => sofCount[d] < quiet[d]
    /\ Queued(d) /\ steady[d] => sofCount[d] < SofsPerMs + quiet[d]

LEMMA SteadyStarts == AdaptiveRateInit => SteadyInv
<1> SUFFICES ASSUME AdaptiveRateInit, NEW d \in Directions
             PROVE  ~Queued(d) /\ sofCount[d] < quiet[d]
  BY DEF SteadyInv
<1>1. Len(queue) = 0
  BY DEF AdaptiveRateInit
<1>2. QED BY <1>1, AdaptiveRateAssumption DEF AdaptiveRateInit, Queued

LEMMA SteadyKept ==
  ASSUME Prompt, RateInv, SteadyInv, [AdaptiveRateNext]_rateVars
  PROVE  SteadyInv'
<1> USE AdaptiveRateAssumption
<1>t. \A e \in Directions :
        /\ sofCount[e] \in 0 .. SofsPerMs + 1 /\ quiet[e] \in Nat
        /\ dataSeen[e] \in BOOLEAN /\ steady[e] \in BOOLEAN
  BY DEF RateInv, RateTypes
<1>1. ASSUME NEW d \in Directions, Transfer(d) PROVE SteadyInv'
  <2>1. ~Queued(d) /\ ~dataSeen[d] /\ quiet[d] >= SofsPerMs
    BY <1>1, QuietIsHandled DEF Transfer
  <2>2. \A e \in Directions : Queued(e)' <=> Queued(e) \/ e = d
    BY <1>1, TransferKeeps, QueueLonger DEF RateInv
  <2>3. /\ quiet' = [quiet EXCEPT ![d] = 0]
        /\ steady' = [steady EXCEPT ![d] = (quiet[d] = SofsPerMs)]
        /\ UNCHANGED <<dataSeen, sofCount>>
    BY <1>1 DEF Transfer
  <2>4. ASSUME NEW e \in Directions, e # d
        PROVE  /\ ~Queued(e)' /\ ~dataSeen'[e] => sofCount'[e] < quiet'[e]
               /\ Queued(e)' /\ steady'[e] => sofCount'[e] < SofsPerMs + quiet'[e]
    BY <2>2, <2>3, <2>4 DEF SteadyInv, RateInv, RateTypes
  <2>5. Queued(d)' /\ (steady'[d] => sofCount'[d] < SofsPerMs + quiet'[d])
    <3>1. quiet'[d] = 0 /\ (steady'[d] <=> quiet[d] = SofsPerMs)
      BY <2>3 DEF RateInv, RateTypes
    <3>2. sofCount[d] < quiet[d]
      BY <2>1 DEF SteadyInv
    <3>3. QED BY <1>t, <2>2, <2>3, <3>1, <3>2
  <2>6. QED BY <2>4, <2>5 DEF SteadyInv
<1>2. CASE StartOfFrame
  <2>1. \A d : Queued(d)' <=> Queued(d)
    BY <1>2, QueueOlder DEF RateInv, StartOfFrame
  <2> SUFFICES ASSUME NEW d \in Directions
               PROVE  /\ ~Queued(d)' /\ ~dataSeen'[d] => sofCount'[d] < quiet'[d]
                      /\ Queued(d)' /\ steady'[d] => sofCount'[d] < SofsPerMs + quiet'[d]
    BY DEF SteadyInv
  <2>2. /\ sofCount'[d] = IF dataSeen[d] THEN 0
                          ELSE IF TooQuiet(sofCount[d]) THEN sofCount[d]
                          ELSE sofCount[d] + 1
        /\ quiet'[d] = IF quiet[d] > SofsPerMs + MaxLate + 1 THEN quiet[d]
                       ELSE quiet[d] + 1
        /\ UNCHANGED steady
    BY <1>2 DEF StartOfFrame
  <2>3. CASE ~Queued(d)
    BY <1>t, <2>1, <2>2, <2>3 DEF SteadyInv, TooQuiet
  <2>4. CASE Queued(d)
    <3>1. quiet[d] <= MaxLate
      BY <2>4 DEF Queued, RateInv, QueueInv
    <3>2. quiet'[d] = quiet[d] + 1
      BY <1>t, <2>2, <3>1
    <3>3. sofCount'[d] <= sofCount[d] + 1
      BY <1>t, <2>2
    <3>4. sofCount'[d] \in Nat
      BY <1>t, <2>2
    <3>5. QED BY <1>t, <2>1, <2>2, <2>4, <3>2, <3>3, <3>4 DEF SteadyInv
  <2>5. QED BY <2>3, <2>4
<1>3. CASE TaskHandles
  <2>1. queue[1].dir \in Directions /\ Head(queue) = queue[1]
        /\ \A d : Queued(d) <=> Queued(d)' \/ d = queue[1].dir
    BY <1>3, QueueShorter, EntryTypes DEF RateInv, TaskHandles
  <2>2. PICK e : e = queue[1].dir
    OBVIOUS
  <2>3. /\ dataSeen' = [dataSeen EXCEPT ![e] = TRUE]
        /\ UNCHANGED <<sofCount, quiet, steady>>
    BY <1>3, <2>1, <2>2 DEF TaskHandles
  <2>4. dataSeen'[e] /\ ~Queued(e)'
    <3>1. RateInv'
      BY <1>3, TaskKeeps
    <3>2. dataSeen'[e]
      BY <2>1, <2>2, <2>3 DEF RateInv, RateTypes
    <3>3. QED BY <2>1, <2>2, <3>1, <3>2 DEF RateInv, QueueInv
  <2>5. ASSUME NEW d \in Directions, d # e
        PROVE  (Queued(d)' <=> Queued(d)) /\ dataSeen'[d] = dataSeen[d]
    BY <2>1, <2>2, <2>3, <2>5 DEF RateInv, RateTypes
  <2>6. QED BY <2>3, <2>4, <2>5 DEF SteadyInv
<1>4. CASE UNCHANGED measured
  BY <1>4 DEF measured, SteadyInv, Queued
<1>5. InterfacesChange \/ UNCHANGED rateVars => UNCHANGED measured
  BY DEF InterfacesChange, rateVars, measured
<1>6. QED BY <1>1, <1>2, <1>3, <1>4, <1>5 DEF AdaptiveRateNext

\* sof_toggle restarts the measurement of a steady stream only after a pause of
\* the host, when the task handles a transfer one start of frame late at most.
THEOREM SteadyStreamKept ==
  Prompt /\ MaxLate \in {0, 1} => (AdaptiveRateSpec => SteadyStreamMeasured)
<1> DEFINE Restarts == \A d \in Directions :
             firstTime'[d] /\ ~firstTime[d] => quiet[d] >= SofsPerMs \/ ~steady[d]
<1> SUFFICES ASSUME Prompt, MaxLate \in {0, 1}
             PROVE  AdaptiveRateSpec => SteadyStreamMeasured
  OBVIOUS
<1>1. AdaptiveRateSpec => []RateInv
  BY RateAlways
<1>2. RateInv /\ SteadyInv /\ [AdaptiveRateNext]_rateVars => SteadyInv'
  BY SteadyKept
<1>3. RateInv /\ SteadyInv /\ [AdaptiveRateNext]_rateVars => Restarts
  <2> SUFFICES ASSUME RateInv, SteadyInv, [AdaptiveRateNext]_rateVars,
                      NEW d \in Directions, firstTime'[d], ~firstTime[d],
                      quiet[d] < SofsPerMs, steady[d]
               PROVE  FALSE
    BY AdaptiveRateAssumption DEF RateInv, RateTypes
  <2>1. StartOfFrame
    <3>1. ASSUME NEW e \in Directions, Transfer(e) PROVE FALSE
      BY <3>1 DEF Transfer
    <3>2. CASE TaskHandles
      <4>1. firstTime' = [firstTime EXCEPT ![Head(queue).dir] = FALSE]
        BY <3>2 DEF TaskHandles
      <4>2. QED BY <4>1 DEF RateInv, RateTypes
    <3>3. CASE InterfacesChange \/ UNCHANGED rateVars
      BY <3>3 DEF InterfacesChange, rateVars
    <3>4. QED BY <3>1, <3>2, <3>3 DEF AdaptiveRateNext
  <2>2. ~dataSeen[d] /\ sofCount'[d] > SofsPerMs
    BY <2>1 DEF StartOfFrame, TooQuiet
  <2>3. sofCount'[d] = IF TooQuiet(sofCount[d]) THEN sofCount[d] ELSE sofCount[d] + 1
    BY <2>1, <2>2 DEF StartOfFrame
  <2>4. sofCount[d] \in Nat /\ quiet[d] \in Nat
    BY DEF RateInv, RateTypes
  <2>5. sofCount[d] >= SofsPerMs
    BY <2>2, <2>3, <2>4, AdaptiveRateAssumption DEF TooQuiet
  <2>6. CASE ~Queued(d)
    BY <2>2, <2>4, <2>5, <2>6, AdaptiveRateAssumption DEF SteadyInv
  <2>7. CASE Queued(d)
    <3>1. PICK i \in 1 .. Len(queue) : queue[i].dir = d
      BY <2>7 DEF Queued
    <3>2. queue[i].late = quiet[d] /\ queue[i].late < MaxLate
      BY <2>1, <3>1 DEF StartOfFrame, RateInv, QueueInv
    <3>3. quiet[d] = 0
      BY <2>4, <3>2
    <3>4. QED BY <2>4, <2>5, <2>7, <3>3, AdaptiveRateAssumption DEF SteadyInv
  <2>8. QED BY <2>6, <2>7
<1>4. QED BY <1>1, <1>2, <1>3, SteadyStarts, PTL DEF AdaptiveRateSpec, SteadyStreamMeasured


-----------------------------------------------------------------------------
(***************************************************************************)
(* The time between two transfers of a measurement: one millisecond or     *)
(* two, since a longer pause restarts the measurement.                     *)
(***************************************************************************)
NextStamp(t) == (t + 1) % StampModulus

\* The time was t when there were n starts of frame less, no more than two
\* milliseconds ago.
Since(t, n) ==
  \/ n <= sofs /\ stamp = t
  \/ sofs < n /\ n <= sofs + SofsPerMs /\ stamp = NextStamp(t)
  \/ sofs + SofsPerMs < n /\ n <= sofs + 2 * SofsPerMs /\ stamp = NextStamp(NextStamp(t))

TimeInv ==
  /\ TimeAdvances
  /\ \A i \in 1 .. Len(queue) : Since(queue[i].time, quiet[queue[i].dir])
  /\ \A d \in Directions : ~Queued(d) /\ ~firstTime[d] =>
       /\ Since(handled[d], quiet[d])
       /\ ~dataSeen[d] =>
            sofCount[d] <= SofsPerMs /\ quiet[d] <= sofCount[d] + 1 + MaxLate

LEMMA StampMoves ==
  ASSUME StampModulus > 2, NEW t \in Stamps
  PROVE  NextStamp(t) \in Stamps /\ NextStamp(t) # t /\ NextStamp(NextStamp(t)) # t
<1> USE AdaptiveRateAssumption
<1>1. \A u \in Stamps : NextStamp(u) = IF u + 1 = StampModulus THEN 0 ELSE u + 1
  <2> SUFFICES ASSUME NEW u \in Stamps
               PROVE  NextStamp(u) = IF u + 1 = StampModulus THEN 0 ELSE u + 1
    OBVIOUS
  <2>1. CASE u + 1 = StampModulus
    BY <2>1 DEF NextStamp
  <2>2. CASE u + 1 # StampModulus
    BY <2>2 DEF NextStamp, Stamps
  <2>3. QED BY <2>1, <2>2
<1>2. NextStamp(t) \in Stamps
  BY <1>1 DEF Stamps
<1>3. NextStamp(t) = IF t + 1 = StampModulus THEN 0 ELSE t + 1
  BY <1>1
<1>4. NextStamp(NextStamp(t)) =
        IF NextStamp(t) + 1 = StampModulus THEN 0 ELSE NextStamp(t) + 1
  BY <1>1, <1>2
<1>5. QED BY <1>2, <1>3, <1>4 DEF Stamps

\* A start of frame moves the time and what is remembered of it alike.
LEMMA SinceMoves ==
  ASSUME RateTypes, StartOfFrame, NEW t \in Stamps, NEW n \in Nat,
         Since(t, n), n < 2 * SofsPerMs
  PROVE  Since(t, n + 1)'
<1> USE AdaptiveRateAssumption DEF Since
<1>1. sofs \in 0 .. SofsPerMs - 1
  BY DEF RateTypes
<1>2. /\ sofs' = IF sofs + 1 = SofsPerMs THEN 0 ELSE sofs + 1
      /\ stamp' = IF sofs' = 0 THEN NextStamp(stamp) ELSE stamp
  <2>1. sofs' = (sofs + 1) % SofsPerMs
    BY DEF StartOfFrame, StampAfter
  <2>2. sofs' = IF sofs + 1 = SofsPerMs THEN 0 ELSE sofs + 1
    <3>1. CASE sofs + 1 = SofsPerMs
      BY <2>1, <3>1
    <3>2. CASE sofs + 1 # SofsPerMs
      BY <1>1, <2>1, <3>2
    <3>3. QED BY <3>1, <3>2
  <2>3. stamp' = IF sofs' = 0 THEN NextStamp(stamp) ELSE stamp
    BY DEF StartOfFrame, NextStamp
  <2>4. QED BY <2>2, <2>3
<1>3. CASE sofs + 1 = SofsPerMs
  BY <1>1, <1>2, <1>3 DEF NextStamp
<1>4. CASE sofs + 1 # SofsPerMs
  BY <1>1, <1>2, <1>4 DEF NextStamp
<1>5. QED BY <1>3, <1>4

LEMMA TimeStarts == AdaptiveRateInit => TimeInv
<1> SUFFICES ASSUME AdaptiveRateInit PROVE TimeInv
  OBVIOUS
<1>1. Len(queue) = 0 /\ \A d \in Directions : firstTime[d]
  BY DEF AdaptiveRateInit
<1>2. QED BY <1>1 DEF TimeInv, TimeAdvances

LEMMA TransferTimed ==
  ASSUME Prompt, StampModulus > 2, RateInv, TimeInv, NEW d \in Directions, Transfer(d)
  PROVE  TimeInv'
<1> USE AdaptiveRateAssumption
<1>1. ~Queued(d) /\ ~dataSeen[d] /\ quiet[d] >= SofsPerMs
  BY QuietIsHandled DEF Transfer
<1>2. PICK r \in Transfers : r.dir = d /\ r.time = stamp /\ queue' = Append(queue, r)
  BY TransferKeeps
<1>3. /\ Len(queue') = Len(queue) + 1 /\ Len(queue) \in Nat
      /\ \A i \in 1 .. Len(queue) : queue'[i] = queue[i]
      /\ queue'[Len(queue')] = r
      /\ \A e : Queued(e)' <=> Queued(e) \/ e = d
  BY <1>2, QueueLonger DEF RateInv, RateTypes
<1>4. /\ quiet' = [quiet EXCEPT ![d] = 0]
      /\ UNCHANGED <<sofs, stamp, dataSeen, sofCount, firstTime, handled>>
  BY DEF Transfer
<1>5. quiet'[d] = 0 /\ \A e \in Directions : e # d => quiet'[e] = quiet[e]
  BY <1>4 DEF RateInv, RateTypes
<1>6. \A t, n : Since(t, n)' <=> Since(t, n)
  BY <1>4 DEF Since, NextStamp
<1>7. ~firstTime[d] => stamp # handled[d]
  <2> SUFFICES ASSUME ~firstTime[d] PROVE stamp # handled[d]
    OBVIOUS
  <2>1. Since(handled[d], quiet[d]) /\ handled[d] \in Stamps /\ quiet[d] \in Nat
    BY <1>1 DEF TimeInv, RateInv, RateTypes
  <2>2. ~(quiet[d] <= sofs)
    BY <1>1, <2>1 DEF RateInv, RateTypes
  <2>3. QED BY <2>1, <2>2, StampMoves DEF Since
<1>8. Since(stamp, 0)
  BY DEF Since, RateInv, RateTypes
<1>9. ASSUME NEW i \in 1 .. Len(queue')
      PROVE  /\ Since(queue'[i].time, quiet'[queue'[i].dir])
             /\ ~firstTime[queue'[i].dir] => queue'[i].time # handled[queue'[i].dir]
  <2>1. CASE i = Len(queue')
    BY <1>2, <1>3, <1>5, <1>7, <1>8, <2>1
  <2>2. CASE i # Len(queue')
    <3>1. i \in 1 .. Len(queue) /\ queue'[i] = queue[i]
      BY <1>3, <2>2
    <3>2. queue[i].dir \in Directions /\ queue[i].dir # d
      BY <1>1, <3>1, EntryTypes DEF RateInv, Queued
    <3>3. QED BY <1>5, <3>1, <3>2 DEF TimeInv, TimeAdvances
  <2>3. QED BY <2>1, <2>2
<1>10. TimeAdvances' /\ \A i \in 1 .. Len(queue') :
         Since(queue[i].time, quiet[queue[i].dir])'
  BY <1>4, <1>6, <1>9 DEF TimeAdvances
<1>11. ASSUME NEW e \in Directions, ~Queued(e)', ~firstTime'[e]
       PROVE  /\ Since(handled[e], quiet[e])'
              /\ ~dataSeen'[e] =>
                   sofCount'[e] <= SofsPerMs /\ quiet'[e] <= sofCount'[e] + 1 + MaxLate
  <2>1. e # d /\ ~Queued(e) /\ ~firstTime[e]
    BY <1>3, <1>4, <1>11
  <2>2. QED BY <1>4, <1>5, <1>6, <2>1 DEF TimeInv
<1>12. QED BY <1>10, <1>11 DEF TimeInv

LEMMA StartOfFrameTimed ==
  ASSUME Prompt, RateInv, TimeInv, StartOfFrame
  PROVE  TimeInv'
<1> USE AdaptiveRateAssumption
<1>1. /\ Len(queue') = Len(queue)
      /\ \A i \in 1 .. Len(queue) :
           queue'[i].dir = queue[i].dir /\ queue'[i].time = queue[i].time
      /\ \A d : Queued(d)' <=> Queued(d)
  BY QueueOlder DEF RateInv, StartOfFrame
<1>2. /\ UNCHANGED handled
      /\ \A d \in Directions :
           /\ quiet'[d] = IF quiet[d] > SofsPerMs + MaxLate + 1 THEN quiet[d]
                          ELSE quiet[d] + 1
           /\ sofCount'[d] = IF dataSeen[d] THEN 0
                             ELSE IF TooQuiet(sofCount[d]) THEN sofCount[d]
                             ELSE sofCount[d] + 1
           /\ firstTime'[d] = (firstTime[d] \/ (~dataSeen[d] /\ TooQuiet(sofCount'[d])))
           /\ ~dataSeen'[d]
  BY DEF StartOfFrame
<1>3. \A d \in Directions :
        /\ sofCount[d] \in Nat /\ quiet[d] \in Nat /\ handled[d] \in Stamps
        /\ firstTime[d] \in BOOLEAN /\ dataSeen[d] \in BOOLEAN
  BY DEF RateInv, RateTypes
<1>4. TimeAdvances'
  <2> SUFFICES ASSUME NEW i \in 1 .. Len(queue), ~firstTime'[queue[i].dir]
               PROVE  queue[i].time # handled[queue[i].dir]
    BY <1>1, <1>2 DEF TimeAdvances
  <2>1. queue[i].dir \in Directions
    BY EntryTypes DEF RateInv
  <2>2. ~firstTime[queue[i].dir]
    BY <1>2, <2>1
  <2>3. QED BY <2>2 DEF TimeInv, TimeAdvances
<1>5. ASSUME NEW i \in 1 .. Len(queue')
      PROVE  Since(queue[i].time, quiet[queue[i].dir])'
  <2>1. PICK d, t : d = queue[i].dir /\ t = queue[i].time
    OBVIOUS
  <2>2. d \in Directions /\ t \in Stamps /\ Since(t, quiet[d]) /\ quiet[d] <= MaxLate
    BY <1>1, <2>1, EntryTypes DEF RateInv, QueueInv, TimeInv
  <2>3. PICK n : n = quiet[d]
    OBVIOUS
  <2>4. n \in Nat /\ n < 2 * SofsPerMs /\ quiet'[d] = n + 1
    BY <1>2, <1>3, <2>2, <2>3 DEF Prompt
  <2>5. Since(t, n + 1)'
    BY <2>2, <2>3, <2>4, SinceMoves DEF RateInv
  <2>6. queue'[i].dir = d /\ queue'[i].time = t
    BY <1>1, <2>1
  <2>7. QED BY <2>4, <2>5, <2>6 DEF Since
<1>6. ASSUME NEW d \in Directions, ~Queued(d)', ~firstTime'[d]
      PROVE  /\ Since(handled[d], quiet[d])'
             /\ sofCount'[d] <= SofsPerMs /\ quiet'[d] <= sofCount'[d] + 1 + MaxLate
  <2>1. ~Queued(d) /\ ~firstTime[d] /\ (dataSeen[d] \/ ~TooQuiet(sofCount'[d]))
    BY <1>1, <1>2, <1>6
  <2>2. PICK n, t : n = quiet[d] /\ t = handled[d]
    OBVIOUS
  <2>3. Since(t, n) /\ n \in Nat /\ t \in Stamps
    BY <1>3, <2>1, <2>2 DEF TimeInv
  <2>4. /\ n < 2 * SofsPerMs /\ quiet'[d] = n + 1
        /\ sofCount'[d] <= SofsPerMs /\ quiet'[d] <= sofCount'[d] + 1 + MaxLate
    <3>1. CASE dataSeen[d]
      <4>1. n <= MaxLate
        BY <2>2, <3>1 DEF RateInv, QueueInv
      <4>2. QED BY <1>2, <2>2, <2>3, <3>1, <4>1 DEF Prompt
    <3>2. CASE ~dataSeen[d]
      <4>1. sofCount[d] <= SofsPerMs /\ n <= sofCount[d] + 1 + MaxLate
        BY <2>1, <2>2, <3>2 DEF TimeInv
      <4>2. sofCount'[d] = sofCount[d] + 1 /\ sofCount'[d] <= SofsPerMs
        BY <1>2, <1>3, <2>1, <3>2, <4>1 DEF TooQuiet
      <4>3. QED BY <1>2, <1>3, <2>2, <2>3, <4>1, <4>2 DEF Prompt
    <3>3. QED BY <1>3, <3>1, <3>2
  <2>5. Since(t, n + 1)'
    BY <2>3, <2>4, SinceMoves DEF RateInv
  <2>6. QED BY <1>2, <2>2, <2>4, <2>5 DEF Since
<1>7. QED BY <1>4, <1>5, <1>6 DEF TimeInv

LEMMA TaskTimed ==
  ASSUME RateInv, TimeInv, TaskHandles
  PROVE  TimeInv'
<1>1. /\ Head(queue) = queue[1] /\ 1 \in 1 .. Len(queue)
      /\ \A i \in 1 .. Len(queue') :
           i + 1 \in 1 .. Len(queue) /\ queue'[i] = queue[i + 1]
      /\ \A d : Queued(d) <=> Queued(d)' \/ d = queue[1].dir
  BY QueueShorter DEF RateInv, TaskHandles
<1>2. PICK p : p = queue[1]
  OBVIOUS
<1>3. p.dir \in Directions
  BY <1>1, <1>2, EntryTypes DEF RateInv
<1>4. /\ dataSeen' = [dataSeen EXCEPT ![p.dir] = TRUE]
      /\ firstTime' = [firstTime EXCEPT ![p.dir] = FALSE]
      /\ handled' = [handled EXCEPT ![p.dir] = p.time]
      /\ UNCHANGED <<sofs, stamp, sofCount, quiet>>
  BY <1>1, <1>2 DEF TaskHandles
<1>5. \A t, n : Since(t, n)' <=> Since(t, n)
  BY <1>4 DEF Since, NextStamp
<1>6. /\ dataSeen'[p.dir] /\ handled'[p.dir] = p.time
      /\ \A d \in Directions : d # p.dir =>
           /\ handled'[d] = handled[d] /\ firstTime'[d] = firstTime[d]
           /\ dataSeen'[d] = dataSeen[d]
  BY <1>3, <1>4 DEF RateInv, RateTypes
<1>7. ASSUME NEW i \in 1 .. Len(queue')
      PROVE  /\ Since(queue'[i].time, quiet'[queue'[i].dir])
             /\ ~firstTime'[queue'[i].dir] => queue'[i].time # handled'[queue'[i].dir]
  <2>1. /\ i + 1 \in 1 .. Len(queue) /\ queue'[i] = queue[i + 1] /\ i + 1 # 1
    BY <1>1
  <2>2. queue[i + 1].dir # p.dir /\ queue[i + 1].dir \in Directions
    BY <1>1, <1>2, <2>1, EntryTypes DEF RateInv, QueueInv
  <2>3. QED BY <1>4, <1>6, <2>1, <2>2 DEF TimeInv, TimeAdvances
<1>8. TimeAdvances' /\ \A i \in 1 .. Len(queue') :
        Since(queue[i].time, quiet[queue[i].dir])'
  BY <1>5, <1>7 DEF TimeAdvances
<1>9. ASSUME NEW d \in Directions, ~Queued(d)', ~firstTime'[d]
      PROVE  /\ Since(handled[d], quiet[d])'
             /\ ~dataSeen'[d] =>
                  sofCount'[d] <= SofsPerMs /\ quiet'[d] <= sofCount'[d] + 1 + MaxLate
  <2>1. CASE d = p.dir
    BY <1>1, <1>2, <1>4, <1>5, <1>6, <2>1 DEF TimeInv
  <2>2. CASE d # p.dir
    BY <1>1, <1>2, <1>4, <1>5, <1>6, <1>9, <2>2 DEF TimeInv
  <2>3. QED BY <2>1, <2>2
<1>10. QED BY <1>8, <1>9 DEF TimeInv

\* determine_USB_audio_rate never divides by zero: within a measurement, the
\* time of a transfer is another than that of the one before, also when the
\* timestamps wrap.
THEOREM TimeAlwaysAdvances ==
  Prompt /\ StampModulus > 2 => (AdaptiveRateSpec => []TimeAdvances)
<1> SUFFICES ASSUME Prompt, StampModulus > 2
             PROVE  AdaptiveRateSpec => []TimeAdvances
  OBVIOUS
<1>1. AdaptiveRateSpec => []RateInv
  BY RateAlways
<1>2. RateInv /\ TimeInv /\ [AdaptiveRateNext]_rateVars => TimeInv'
  <2> SUFFICES ASSUME RateInv, TimeInv, [AdaptiveRateNext]_rateVars PROVE TimeInv'
    OBVIOUS
  <2>1. CASE UNCHANGED measured
    BY <2>1 DEF measured, TimeInv, TimeAdvances, Since, NextStamp, Queued
  <2>2. InterfacesChange \/ UNCHANGED rateVars => UNCHANGED measured
    BY DEF InterfacesChange, rateVars, measured
  <2>3. QED BY <2>1, <2>2, TransferTimed, StartOfFrameTimed, TaskTimed DEF AdaptiveRateNext
<1>3. TimeInv => TimeAdvances
  BY DEF TimeInv
<1>4. QED BY <1>1, <1>2, <1>3, TimeStarts, PTL DEF AdaptiveRateSpec

-----------------------------------------------------------------------------
(***************************************************************************)
(* RateWindow                                                              *)
(*                                                                         *)
(* The library's induction theorems take an operator and cannot be cited   *)
(* here; that < is well founded on the naturals can, and gives every set   *)
(* its least element, which is induction enough for the sum of the ring.   *)
(***************************************************************************)
\* Every set of natural numbers that is not empty has a least element.
LEMMA LeastNatural ==
  ASSUME NEW T \in SUBSET Nat, T # {}
  PROVE  \E m \in T : \A k \in T : m <= k
<1>1. PICK m \in T : \A k \in T : <<k, m>> \notin OpToRel(<, Nat)
  BY WFMin, NatLessThanWellFounded, Zenon
<1>2. \A k \in T : <<k, m>> \in Nat \X Nat /\ ~(k < m)
  BY <1>1, Zenon DEF OpToRel
<1>3. ASSUME NEW k \in T PROVE m <= k
  <2>1. m \in Nat /\ k \in Nat /\ ~(k < m)
    BY <1>2
  <2> QED
    BY <2>1
<1> QED
  BY <1>3

\* Induction over the indices of a ring: a set that has 0, and the successor of
\* each of its elements, has them all.
LEMMA UpToInduction ==
  ASSUME NEW N \in Nat, NEW P, 0 \in P,
         \A i \in 0 .. N - 1 : i \in P => i + 1 \in P
  PROVE  0 .. N \subseteq P
<1> DEFINE T == {i \in 0 .. N : i \notin P}
<1> SUFFICES ASSUME T # {} PROVE FALSE
  OBVIOUS
<1>1. PICK m \in T : \A k \in T : m <= k
  <2>1. T \in SUBSET Nat
    OBVIOUS
  <2> HIDE DEF T
  <2> QED
    BY <2>1, LeastNatural
<1>2. m \in 0 .. N /\ m # 0 /\ m - 1 \in 0 .. N - 1
  BY <1>1
<1>3. m - 1 \in P
  BY <1>1, <1>2
<1> QED
  BY <1>1, <1>2, <1>3

\* The loop of sum_array has a result for each of its passes.
Accumulates(acc, array, last) ==
  acc = [i \in 0 .. last |-> IF i = 0 THEN 0 ELSE acc[i - 1] + array[i - 1]]

LEMMA AccumulatorExists ==
  ASSUME NEW array
  PROVE  Accumulates(Accumulated(array), array, TotalStored)
<1> DEFINE P == {n \in 0 .. TotalStored : \E acc : Accumulates(acc, array, n)}
<1>1. 0 \in P
  <2>1. Accumulates([i \in 0 .. 0 |-> 0], array, 0)
    BY DEF Accumulates
  <2> QED
    BY <2>1, RateWindowAssumption
<1>2. ASSUME NEW n \in 0 .. TotalStored - 1, n \in P
      PROVE  n + 1 \in P
  <2>1. PICK acc : Accumulates(acc, array, n)
    BY <1>2
  <2> DEFINE more == [i \in 0 .. n + 1 |-> IF i = n + 1 THEN acc[n] + array[n] ELSE acc[i]]
  <2>2. \A i \in 0 .. n + 1 :
          more[i] = IF i = 0 THEN 0 ELSE more[i - 1] + array[i - 1]
    <3> TAKE i \in 0 .. n + 1
    <3>1. CASE i = n + 1
      BY <3>1, RateWindowAssumption
    <3>2. CASE i # n + 1
      <4>1. i \in 0 .. n /\ (i # 0 => i - 1 \in 0 .. n)
        BY <3>2, RateWindowAssumption
      <4>2. acc[i] = IF i = 0 THEN 0 ELSE acc[i - 1] + array[i - 1]
        BY <2>1, <4>1 DEF Accumulates
      <4> QED
        BY <4>1, <4>2, <3>2, RateWindowAssumption
    <3> QED
      BY <3>1, <3>2
  <2>3. Accumulates(more, array, n + 1)
    <3> DEFINE f == [i \in 0 .. n + 1 |->
                       IF i = 0 THEN 0 ELSE more[i - 1] + array[i - 1]]
    <3>1. more = f
      BY <2>2
    <3> QED
      BY <3>1 DEF Accumulates
  <2> QED
    BY <2>3, RateWindowAssumption
<1>3. TotalStored \in P
  <2>1. TotalStored \in Nat /\ TotalStored \in 0 .. TotalStored
    BY RateWindowAssumption
  <2>2. \A n \in 0 .. TotalStored - 1 : n \in P => n + 1 \in P
    BY <1>2
  <2> HIDE DEF P
  <2> QED
    BY <1>1, <2>1, <2>2, UpToInduction
<1>4. PICK acc : Accumulates(acc, array, TotalStored)
  BY <1>3
<1> QED
  BY <1>4 DEF Accumulates, Accumulated

LEMMA SumPasses ==
  ASSUME NEW array \in [Buckets -> Nat]
  PROVE  /\ Accumulated(array) \in [0 .. TotalStored -> Nat]
         /\ Accumulated(array)[0] = 0
         /\ \A i \in Buckets : Accumulated(array)[i + 1] = Accumulated(array)[i] + array[i]
<1> DEFINE acc == Accumulated(array)
           P == {i \in 0 .. TotalStored : acc[i] \in Nat}
<1>1. /\ DOMAIN acc = 0 .. TotalStored
      /\ acc = [i \in DOMAIN acc |-> acc[i]]
      /\ \A i \in 0 .. TotalStored : acc[i] = IF i = 0 THEN 0 ELSE acc[i - 1] + array[i - 1]
  <2>1. Accumulates(acc, array, TotalStored)
    BY AccumulatorExists
  <2> HIDE DEF acc
  <2> QED
    BY <2>1 DEF Accumulates
<1>2. acc[0] = 0 /\ \A i \in Buckets : acc[i + 1] = acc[i] + array[i]
  <2>1. 0 \in 0 .. TotalStored
    BY RateWindowAssumption
  <2>2. ASSUME NEW i \in Buckets PROVE acc[i + 1] = acc[i] + array[i]
    <3>1. i + 1 \in 0 .. TotalStored /\ i + 1 # 0 /\ (i + 1) - 1 = i
      BY RateWindowAssumption DEF Buckets
    <3> HIDE DEF acc
    <3> QED
      BY <1>1, <3>1
  <2> HIDE DEF acc
  <2> QED
    BY <1>1, <2>1, <2>2
<1> HIDE DEF acc
<1>3. 0 \in P
  BY <1>2, RateWindowAssumption
<1>4. ASSUME NEW i \in 0 .. TotalStored - 1, i \in P
      PROVE  i + 1 \in P
  BY <1>2, <1>4, RateWindowAssumption DEF Buckets
<1>5. 0 .. TotalStored \subseteq P
  <2> HIDE DEF P
  <2> QED
    BY <1>3, <1>4, UpToInduction, RateWindowAssumption
<1> QED
  BY <1>1, <1>2, <1>5 DEF acc

\* sum_array of an empty ring, and after one bucket has changed
LEMMA SumOfNone == Empty \in [Buckets -> Nat] /\ sum_array(Empty) = 0
<1> DEFINE acc == Accumulated(Empty)
           P == {i \in 0 .. TotalStored : acc[i] = 0}
<1>1. Empty \in [Buckets -> Nat] /\ \A i \in Buckets : Empty[i] = 0
  BY DEF Empty
<1>2. acc[0] = 0 /\ \A i \in Buckets : acc[i + 1] = acc[i] + 0
  BY <1>1, SumPasses
<1> HIDE DEF acc
<1>3. 0 \in P
  BY <1>2, RateWindowAssumption
<1>4. ASSUME NEW i \in 0 .. TotalStored - 1, i \in P
      PROVE  i + 1 \in P
  BY <1>2, <1>4, RateWindowAssumption DEF Buckets
<1>5. 0 .. TotalStored \subseteq P
  <2> HIDE DEF P
  <2> QED
    BY <1>3, <1>4, UpToInduction, RateWindowAssumption
<1> QED
  BY <1>1, <1>5, RateWindowAssumption DEF acc, sum_array

LEMMA SumChanges ==
  ASSUME NEW array \in [Buckets -> Nat], NEW b \in Buckets, NEW v \in Nat
  PROVE  /\ sum_array(array) \in Nat
         /\ sum_array([array EXCEPT ![b] = v]) = sum_array(array) - array[b] + v
<1> DEFINE other == [array EXCEPT ![b] = v]
           old == Accumulated(array)
           new == Accumulated(other)
           P == {i \in 0 .. TotalStored :
                   new[i] = old[i] + (IF i > b THEN v - array[b] ELSE 0)}
<1>1. /\ other \in [Buckets -> Nat] /\ other[b] = v
      /\ \A i \in Buckets : i # b => other[i] = array[i]
  OBVIOUS
<1>2. /\ old \in [0 .. TotalStored -> Nat] /\ old[0] = 0
      /\ \A i \in Buckets : old[i + 1] = old[i] + array[i]
  BY SumPasses
<1>3. /\ new \in [0 .. TotalStored -> Nat] /\ new[0] = 0
      /\ \A i \in Buckets : new[i + 1] = new[i] + other[i]
  <2> HIDE DEF other
  <2> QED
    BY <1>1, SumPasses
<1>4. sum_array(array) = old[TotalStored] /\ sum_array(other) = new[TotalStored]
  BY DEF sum_array
<1> HIDE DEF other, old, new
<1>5. 0 \in P
  BY <1>2, <1>3, RateWindowAssumption DEF Buckets
<1>6. ASSUME NEW i \in 0 .. TotalStored - 1, i \in P
      PROVE  i + 1 \in P
  <2>1. i \in Buckets /\ i \in 0 .. TotalStored /\ i + 1 \in 0 .. TotalStored /\ b \in Nat
    BY RateWindowAssumption DEF Buckets
  <2>2. new[i] = old[i] + (IF i > b THEN v - array[b] ELSE 0)
    BY <1>6
  <2>3. new[i + 1] = new[i] + other[i] /\ old[i + 1] = old[i] + array[i]
    BY <2>1, <1>2, <1>3
  <2>4. old[i] \in Nat /\ array[i] \in Nat /\ array[b] \in Nat
    BY <2>1, <1>2
  <2>5. new[i + 1] = old[i + 1] + (IF i + 1 > b THEN v - array[b] ELSE 0)
    <3>1. CASE i = b
      BY <3>1, <2>1, <2>2, <2>3, <2>4, <1>1
    <3>2. CASE i # b
      BY <3>2, <2>1, <2>2, <2>3, <2>4, <1>1
    <3> QED
      BY <3>1, <3>2
  <2> QED
    BY <2>1, <2>5
<1>7. 0 .. TotalStored \subseteq P
  <2> HIDE DEF P
  <2> QED
    BY <1>5, <1>6, UpToInduction, RateWindowAssumption
<1>8. TotalStored \in 0 .. TotalStored /\ TotalStored > b
  BY RateWindowAssumption DEF Buckets
<1>9. new[TotalStored] = old[TotalStored] + (v - array[b])
  BY <1>7, <1>8
<1> QED
  BY <1>2, <1>4, <1>8, <1>9 DEF other

-----------------------------------------------------------------------------
\* Where the ring's bucket is in the order of time, from the newest, and the one
\* that was filled after it
Age(b) == IF b < overflowed THEN overflowed - 1 - b ELSE overflowed - 1 - b + TotalStored
Stored(b) == bucketsFull \/ b < overflowed
NextBucket(b) == IF b + 1 = TotalStored THEN 0 ELSE b + 1

\* A time that spans k parts of m each
Span(k, m) == k * m

Entry == [time : Nat, data : Nat, first : BOOLEAN]

WindowTypeOK ==
  /\ dataLengths \in [Buckets -> Nat] /\ timeBuckets \in [Buckets -> Nat]
  /\ bucketData \in Nat
  /\ firstStamp \in 0 .. ClockModulus - 1 /\ clock \in 0 .. ClockModulus - 1
  /\ bucketsFull \in BOOLEAN /\ overflowed \in Buckets
  /\ firstCall \in BOOLEAN
  /\ divided \in [time : Nat, data : Nat]
  /\ since \subseteq Entry

\* A bucket that is stored holds what lies between its own cut in the history
\* and the next one, and its age says how far back the cut is; the others are
\* empty.
BucketOK(b, cut, open) ==
  LET end == IF Age(b) = 0 THEN open ELSE cut[NextBucket(b)]
  IN IF Stored(b)
     THEN /\ cut[b].data = end.data + dataLengths[b]
          /\ cut[b].time = end.time + timeBuckets[b]
          /\ cut[b].time >= Span(Age(b) + 1, TicksPerStored) + open.time
          /\ cut[b].time <= Span(Age(b) + 1, LongestBucket) + open.time
     ELSE dataLengths[b] = 0 /\ timeBuckets[b] = 0

\* Where the window begins
Oldest(cut, open) ==
  IF bucketsFull THEN cut[overflowed] ELSE IF overflowed = 0 THEN open ELSE cut[0]

\* The transfer after which the bucket being filled began is open; the bucket b
\* began after cut[b].
Cuts(cut, open) ==
  /\ open.data = bucketData
  /\ open.time = Timespan(clock) /\ open.time < TicksPerStored
  /\ \A b \in Buckets : BucketOK(b, cut, open)
  /\ Oldest(cut, open).data = bucketData + sum_array(dataLengths)
  /\ Oldest(cut, open).time = open.time + sum_array(timeBuckets)
  /\ bucketsFull \/ Oldest(cut, open).first

WindowInv ==
  /\ WindowTypeOK
  /\ RateOfRecentTransfers
  /\ firstCall \/ \E open \in since, cut \in [Buckets -> since] : Cuts(cut, open)

LEMMA SpanFacts ==
  ASSUME NEW k \in Nat, NEW m \in Nat
  PROVE  /\ Span(k, m) \in Nat /\ Span(k + 1, m) = Span(k, m) + m /\ Span(1, m) = m
         /\ \A j \in Nat : k <= j => Span(k, m) <= Span(j, m)
<1>1. Span(k, m) \in Nat /\ Span(k + 1, m) = Span(k, m) + m /\ Span(1, m) = m
  BY DEF Span
<1>2. ASSUME NEW j \in Nat, k <= j PROVE Span(k, m) <= Span(j, m)
  <2>1. j - k \in Nat /\ (j - k) * m >= 0
    BY <1>2
  <2>2. j * m = k * m + (j - k) * m
    OBVIOUS
  <2>3. k * m \in Int /\ j * m \in Int /\ (j - k) * m \in Int
    OBVIOUS
  <2> QED
    BY <2>1, <2>2, <2>3 DEF Span
<1> QED
  BY <1>1, <1>2

LEMMA WindowSizes ==
  /\ LongestBucket \in Nat \ {0} /\ LongestBucket = TicksPerStored - 1 + MaxTicks
  /\ Horizon \in Nat /\ Horizon = Span(TotalStored, LongestBucket) + LongestBucket
  /\ Horizon < ClockModulus /\ ClockModulus \in Nat \ {0}
  /\ LongestBucket <= Horizon
<1>1. LongestBucket \in Nat \ {0} /\ LongestBucket = TicksPerStored - 1 + MaxTicks
  BY RateWindowAssumption DEF LongestBucket
<1>2. Span(TotalStored, LongestBucket) \in Nat
      /\ Horizon = Span(TotalStored, LongestBucket) + LongestBucket
  <2>1. Horizon = Span(TotalStored + 1, LongestBucket)
    BY DEF Horizon, Span
  <2> QED
    BY <1>1, <2>1, SpanFacts, RateWindowAssumption
<1> QED
  BY <1>1, <1>2, RateWindowAssumption

\* Remainders of numbers that are at most one turn away
LEMMA OneTurn ==
  ASSUME NEW M \in Nat \ {0}, NEW x \in Int
  PROVE  /\ 0 <= x /\ x < M => x % M = x
         /\ M <= x /\ x < 2 * M => x % M = x - M
         /\ -M <= x /\ x < 0 => x % M = x + M
<1>1. 0 <= x /\ x < M => x % M = x
  OBVIOUS
<1>2. M <= x /\ x < 2 * M => x % M = x - M
  OBVIOUS
<1>3. -M <= x /\ x < 0 => x % M = x + M
  OBVIOUS
<1> QED
  BY <1>1, <1>2, <1>3

\* Time goes on by ticks, whether the clock wraps or not.
LEMMA TimespanGrows ==
  ASSUME NEW from \in 0 .. ClockModulus - 1, NEW at \in 0 .. ClockModulus - 1,
         NEW ticks \in Nat, ((at - from) % ClockModulus) + ticks < ClockModulus
  PROVE  /\ (at + ticks) % ClockModulus \in 0 .. ClockModulus - 1
         /\ (((at + ticks) % ClockModulus) - from) % ClockModulus
              = ((at - from) % ClockModulus) + ticks
         /\ (at - from) % ClockModulus \in Nat /\ (at - at) % ClockModulus = 0
<1> DEFINE M == ClockModulus
           span == (at - from) % M
           now == (at + ticks) % M
<1>1. M \in Nat \ {0} /\ from \in Int /\ at \in Int /\ 0 <= from /\ from < M
      /\ 0 <= at /\ at < M /\ ticks \in Int /\ 0 <= ticks /\ span + ticks < M
  BY WindowSizes
<1> HIDE DEF M
<1>2. span = (IF at >= from THEN at - from ELSE at - from + M)
  <2>1. at - from \in Int /\ -M <= at - from /\ at - from < M
    BY <1>1
  <2>2. 0 <= at - from => span = at - from
    BY <1>1, <2>1, OneTurn
  <2>3. at - from < 0 => span = at - from + M
    BY <1>1, <2>1, OneTurn
  <2> HIDE DEF span
  <2> QED
    BY <1>1, <2>1, <2>2, <2>3
<1> HIDE DEF span
<1>3. span \in Nat /\ ticks < M
  BY <1>1, <1>2
<1>5. now = (IF at + ticks < M THEN at + ticks ELSE (at + ticks) - M)
  <2>1. at + ticks \in Int /\ 0 <= at + ticks /\ at + ticks < 2 * M
    BY <1>1, <1>3
  <2>2. at + ticks < M => now = at + ticks
    BY <1>1, <2>1, OneTurn
  <2>3. M <= at + ticks => now = (at + ticks) - M
    BY <1>1, <2>1, OneTurn
  <2> HIDE DEF now
  <2> QED
    BY <1>1, <2>1, <2>2, <2>3
<1> HIDE DEF now
<1>6. now \in Int /\ 0 <= now /\ now < M
  BY <1>1, <1>3, <1>5
<1>7. (now - from) % M = (IF now >= from THEN now - from ELSE now - from + M)
  <2>1. now - from \in Int /\ -M <= now - from /\ now - from < M
    BY <1>1, <1>6
  <2>2. 0 <= now - from => (now - from) % M = now - from
    BY <1>1, <2>1, OneTurn
  <2>3. now - from < 0 => (now - from) % M = now - from + M
    BY <1>1, <2>1, OneTurn
  <2> QED
    BY <1>1, <1>6, <2>1, <2>2, <2>3
<1>8. (now - from) % M = span + ticks
  BY <1>1, <1>2, <1>5, <1>6, <1>7
<1>9. (at - at) % M = 0
  <2>1. at - at = 0
    BY <1>1
  <2> QED
    BY <1>1, <2>1, OneTurn
<1> QED
  BY <1>1, <1>3, <1>6, <1>8, <1>9 DEF M, span, now

LEMMA WindowStarts == WindowInit => WindowInv
<1> SUFFICES ASSUME WindowInit PROVE WindowInv
  OBVIOUS
<1>1. WindowTypeOK
  <2>1. Empty \in [Buckets -> Nat] /\ 0 \in Buckets
    BY SumOfNone, RateWindowAssumption DEF Buckets
  <2>2. Nothing \in [time : Nat, data : Nat] /\ 0 \in 0 .. ClockModulus - 1
    BY WindowSizes DEF Nothing
  <2> QED
    BY <2>1, <2>2 DEF WindowInit, WindowTypeOK
<1> QED
  BY <1>1 DEF WindowInit, WindowInv, RateOfRecentTransfers

\* What an entry of the history is after a transfer
Later(r, ticks, n) ==
  [time |-> r.time + ticks, data |-> r.data + n, first |-> r.first]

LEMMA LoggedFacts ==
  ASSUME WindowTypeOK, NEW ticks \in Nat, NEW n \in Nat
  PROVE  /\ Logged(ticks, n) \subseteq Entry
         /\ [time |-> 0, data |-> 0, first |-> FALSE] \in Logged(ticks, n)
         /\ \A r \in since : /\ r \in Entry
                             /\ Later(r, ticks, n) \in Entry
                             /\ r.time + ticks <= Horizon
                                  => Later(r, ticks, n) \in Logged(ticks, n)
<1>1. \A r \in since : r \in Entry /\ Later(r, ticks, n) \in Entry
  BY DEF WindowTypeOK, Entry, Later
<1>2. Logged(ticks, n) = {r \in {Later(q, ticks, n) : q \in since} : r.time <= Horizon}
                         \cup {[time |-> 0, data |-> 0, first |-> FALSE]}
  BY DEF Logged, Later
<1>3. [time |-> 0, data |-> 0, first |-> FALSE] \in Entry
  BY DEF Entry
<1>4. ASSUME NEW r \in since, r.time + ticks <= Horizon
      PROVE  Later(r, ticks, n) \in Logged(ticks, n)
  <2>1. Later(r, ticks, n).time <= Horizon
    BY <1>4 DEF Later
  <2> QED
    BY <1>2, <2>1
<1> QED
  BY <1>1, <1>2, <1>3, <1>4

LEMMA FirstKeeps ==
  ASSUME WindowInv, NEW ticks \in 1 .. MaxTicks, NEW n \in Lengths,
         clock' = (clock + ticks) % ClockModulus,
         FirstTransfer((clock + ticks) % ClockModulus)
  PROVE  WindowInv'
<1> DEFINE now == (clock + ticks) % ClockModulus
           open == [time |-> 0, data |-> 0, first |-> TRUE]
           cut == [b \in Buckets |-> open]
<1>1. now \in 0 .. ClockModulus - 1 /\ (now - now) % ClockModulus = 0
  <2>1. clock + ticks \in Int /\ ClockModulus \in Nat \ {0}
    BY WindowSizes, RateWindowAssumption DEF WindowInv, WindowTypeOK
  <2>2. now \in 0 .. ClockModulus - 1
    BY <2>1
  <2>3. now - now = 0 /\ 0 % ClockModulus = 0
    BY <2>1, <2>2, OneTurn
  <2> QED
    BY <2>2, <2>3
<1>2. WindowTypeOK'
  <2>1. Empty \in [Buckets -> Nat] /\ 0 \in Buckets
    BY SumOfNone, RateWindowAssumption DEF Buckets
  <2>2. Nothing \in [time : Nat, data : Nat] /\ open \in Entry
    BY DEF Nothing, Entry
  <2> QED
    BY <1>1, <2>1, <2>2 DEF WindowTypeOK, FirstTransfer
<1>3. RateOfRecentTransfers'
  BY DEF FirstTransfer, RateOfRecentTransfers, Nothing
<1>4. Cuts(cut, open)'
  <2>1. Timespan(clock)' = 0
    BY <1>1 DEF FirstTransfer, Timespan
  <2>2. ASSUME NEW b \in Buckets PROVE BucketOK(b, cut, open)'
    BY RateWindowAssumption DEF BucketOK, Stored, FirstTransfer, Buckets, Empty
  <2>3. Oldest(cut, open)' = open
    BY DEF Oldest, FirstTransfer
  <2>4. sum_array(dataLengths)' = 0 /\ sum_array(timeBuckets)' = 0
    BY SumOfNone DEF FirstTransfer
  <2>5. bucketData' = 0 /\ open.data = 0 /\ open.time = 0 /\ open.first
        /\ 0 < TicksPerStored /\ 0 + 0 = 0
    BY RateWindowAssumption DEF FirstTransfer
  <2> HIDE DEF open, cut
  <2> QED
    BY <2>1, <2>2, <2>3, <2>4, <2>5 DEF Cuts
<1>5. open \in since' /\ cut \in [Buckets -> since']
  BY DEF FirstTransfer
<1> QED
  BY <1>2, <1>3, <1>4, <1>5 DEF WindowInv

LEMMA AgeFacts ==
  ASSUME WindowTypeOK
  PROVE  /\ \A b \in Buckets : /\ Age(b) \in 0 .. TotalStored - 1
                               /\ NextBucket(b) \in Buckets
                               /\ Age(b) = 0 /\ b # overflowed => NextBucket(b) = overflowed
                               /\ Age(b) # 0 /\ b # overflowed /\ Stored(b) =>
                                    NextBucket(b) # overflowed /\ Stored(NextBucket(b))
         /\ Age(overflowed) = TotalStored - 1 /\ overflowed \in Buckets
         /\ Age(overflowed) = 0 => NextBucket(overflowed) = overflowed
         /\ Age(overflowed) # 0 => NextBucket(overflowed) # overflowed
         /\ overflowed % TotalStored = overflowed
         /\ (overflowed + 1) % TotalStored = NextBucket(overflowed)
         /\ ~bucketsFull /\ overflowed # 0 => Stored(0) /\ 0 \in Buckets
<1>1. TotalStored \in Nat \ {0} /\ overflowed \in 0 .. TotalStored - 1
      /\ bucketsFull \in BOOLEAN
  BY RateWindowAssumption DEF WindowTypeOK, Buckets
<1>2. overflowed % TotalStored = overflowed
      /\ (overflowed + 1) % TotalStored = NextBucket(overflowed)
  <2>1. overflowed % TotalStored = overflowed
    BY <1>1, OneTurn
  <2>2. CASE overflowed + 1 = TotalStored
    <3>1. (overflowed + 1) % TotalStored = (overflowed + 1) - TotalStored
      BY <1>1, <2>2, OneTurn
    <3> QED
      BY <1>1, <2>1, <2>2, <3>1 DEF NextBucket
  <2>3. CASE overflowed + 1 # TotalStored
    <3>1. (overflowed + 1) % TotalStored = overflowed + 1
      BY <1>1, <2>3, OneTurn
    <3> QED
      BY <2>1, <2>3, <3>1 DEF NextBucket
  <2> QED
    BY <2>2, <2>3
<1> QED
  BY <1>1, <1>2 DEF Age, NextBucket, Stored, Buckets

\* A call that divides, in terms of the cuts
LEMMA DivideFacts ==
  ASSUME WindowTypeOK, ~firstCall, NEW open \in since, NEW cut \in [Buckets -> since],
         Cuts(cut, open),
         NEW ticks \in 1 .. MaxTicks, NEW n \in Lengths, NEW now,
         now = (clock + ticks) % ClockModulus,
         clock' = now, Divide(now, ticks, n)
  PROVE  /\ now \in 0 .. ClockModulus - 1 /\ (now - now) % ClockModulus = 0
         /\ Timespan(now) = open.time + ticks /\ Timespan(now) <= LongestBucket
         /\ open \in Entry /\ Later(open, ticks, n) \in since'
         /\ \A b \in Buckets : /\ cut[b] \in Entry
                               /\ Stored(b) => Later(cut[b], ticks, n) \in since'
         /\ [time |-> 0, data |-> 0, first |-> FALSE] \in since'
         /\ since' \subseteq Entry
         /\ divided' \in [time : Nat, data : Nat]
         /\ RateOfRecentTransfers'
<1> DEFINE oldest == Oldest(cut, open)
<1>1. ticks \in Nat /\ n \in Nat /\ ticks <= MaxTicks /\ MaxTicks \in Nat
      /\ TicksPerStored \in Nat
  BY RateWindowAssumption
<1>2. /\ since' = Logged(ticks, n)
      /\ divided' = [time |-> TotalTimespan(now), data |-> TotalData(n)]
  BY DEF Divide
<1>3. /\ open \in Entry /\ \A b \in Buckets : cut[b] \in since /\ cut[b] \in Entry
      /\ since' \subseteq Entry
      /\ [time |-> 0, data |-> 0, first |-> FALSE] \in since'
      /\ \A r \in since : r.time + ticks <= Horizon => Later(r, ticks, n) \in since'
  BY <1>1, <1>2, LoggedFacts
<1>4. open.time \in Nat /\ open.data \in Nat
      /\ \A b \in Buckets : cut[b].time \in Nat /\ cut[b].data \in Nat
  BY <1>3 DEF Entry
<1>5. /\ open.time = Timespan(clock) /\ open.time < TicksPerStored
      /\ open.time + ticks <= LongestBucket
  BY <1>1, <1>4, WindowSizes DEF Cuts
<1>6. /\ now \in 0 .. ClockModulus - 1 /\ (now - now) % ClockModulus = 0
      /\ Timespan(now) = open.time + ticks
  <2>1. /\ firstStamp \in 0 .. ClockModulus - 1 /\ clock \in 0 .. ClockModulus - 1
        /\ (clock - firstStamp) % ClockModulus = open.time
    BY <1>5 DEF WindowTypeOK, Timespan
  <2>2. open.time + ticks < ClockModulus
    BY <1>1, <1>4, <1>5, WindowSizes
  <2>3. now \in 0 .. ClockModulus - 1 /\ Timespan(now) = open.time + ticks
    BY <1>1, <2>1, <2>2, TimespanGrows DEF Timespan
  <2>4. now - now = 0 /\ 0 % ClockModulus = 0
    BY <2>3, WindowSizes, OneTurn
  <2> QED
    BY <2>3, <2>4
<1>7. ASSUME NEW b \in Buckets, Stored(b)
      PROVE  cut[b].time + ticks <= Horizon
  <2>1. cut[b].time <= Span(Age(b) + 1, LongestBucket) + open.time
    BY <1>7 DEF Cuts, BucketOK
  <2>2. Age(b) + 1 \in Nat /\ Age(b) + 1 <= TotalStored
    BY AgeFacts, RateWindowAssumption
  <2>3. /\ Span(Age(b) + 1, LongestBucket) <= Span(TotalStored, LongestBucket)
        /\ Span(Age(b) + 1, LongestBucket) \in Nat /\ Span(TotalStored, LongestBucket) \in Nat
    BY <2>2, SpanFacts, WindowSizes, RateWindowAssumption
  <2> QED
    BY <1>1, <1>4, <1>5, <2>1, <2>3, WindowSizes
<1>8. open.time + ticks <= Horizon
  BY <1>1, <1>4, <1>5, WindowSizes
<1>9. oldest \in since /\ oldest.time + ticks <= Horizon
  <2>1. CASE bucketsFull
    <3>1. Stored(overflowed) /\ overflowed \in Buckets
      BY <2>1, AgeFacts DEF Stored
    <3> QED
      BY <1>3, <1>7, <2>1, <3>1 DEF Oldest
  <2>2. CASE ~bucketsFull /\ overflowed = 0
    BY <1>8, <2>2 DEF Oldest
  <2>3. CASE ~bucketsFull /\ overflowed # 0
    <3>1. Stored(0) /\ 0 \in Buckets
      BY <2>3, AgeFacts
    <3> QED
      BY <1>3, <1>7, <2>3, <3>1 DEF Oldest
  <2> QED
    BY <2>1, <2>2, <2>3
<1>10. oldest \in Entry /\ oldest.time \in Nat /\ oldest.data \in Nat
  BY <1>9 DEF WindowTypeOK, Entry
<1>11. sum_array(dataLengths) \in Nat /\ sum_array(timeBuckets) \in Nat
       /\ bucketData \in Nat
  BY SumChanges, AgeFacts DEF WindowTypeOK
<1>12. divided' = [time |-> oldest.time + ticks, data |-> oldest.data + n]
  <2>1. TotalData(n) = oldest.data + n
    BY <1>1, <1>10, <1>11 DEF TotalData, Cuts
  <2>2. Timespan(now) + sum_array(timeBuckets) = oldest.time + ticks
    BY <1>1, <1>4, <1>6, <1>10, <1>11 DEF Cuts
  <2>3. oldest.time + ticks \in Nat /\ oldest.time + ticks < ClockModulus
    BY <1>1, <1>9, <1>10, WindowSizes
  <2>4. TotalTimespan(now) = oldest.time + ticks
    <3> HIDE DEF oldest
    <3> QED
      BY <2>2, <2>3, WindowSizes, OneTurn DEF TotalTimespan
  <2> QED
    BY <1>2, <2>1, <2>4
<1>13. RateOfRecentTransfers'
  <2> DEFINE r == Later(oldest, ticks, n)
  <2>1. r \in since'
    BY <1>3, <1>9
  <2>2. divided' = [time |-> r.time, data |-> r.data] /\ r.first = oldest.first
        /\ r.time = oldest.time + ticks
    BY <1>12 DEF Later
  <2>3. CASE oldest.first
    BY <2>1, <2>2, <2>3 DEF RateOfRecentTransfers
  <2>4. CASE bucketsFull
    <3>1. overflowed \in Buckets /\ Stored(overflowed) /\ oldest = cut[overflowed]
          /\ Age(overflowed) = TotalStored - 1
      BY <2>4, AgeFacts DEF Stored, Oldest
    <3>2. oldest.time >= Span(Age(overflowed) + 1, TicksPerStored) + open.time
      BY <3>1 DEF Cuts, BucketOK
    <3>3. Age(overflowed) + 1 = TotalStored
      BY <3>1, RateWindowAssumption
    <3>4. Span(TotalStored, TicksPerStored) \in Nat
          /\ Span(TotalStored, TicksPerStored) = TotalStored * TicksPerStored
      BY SpanFacts, RateWindowAssumption DEF Span
    <3>5. r.time >= TotalStored * TicksPerStored
      BY <1>1, <1>4, <1>10, <2>2, <3>2, <3>3, <3>4
    <3> QED
      BY <2>1, <2>2, <3>5 DEF RateOfRecentTransfers
  <2> QED
    BY <2>3, <2>4 DEF Cuts
<1>14. divided' \in [time : Nat, data : Nat]
  BY <1>1, <1>10, <1>12
<1> QED
  BY <1>3, <1>5, <1>6, <1>7, <1>8, <1>13, <1>14

LEMMA AddKeeps ==
  ASSUME WindowInv, NEW ticks \in 1 .. MaxTicks, NEW n \in Lengths, NEW now,
         now = (clock + ticks) % ClockModulus,
         clock' = now, Divide(now, ticks, n), AddToBucket(now, n)
  PROVE  WindowInv'
<1>1. PICK open \in since, cut \in [Buckets -> since] : Cuts(cut, open)
  BY DEF WindowInv, Divide
<1>2. WindowTypeOK /\ ~firstCall
  BY DEF WindowInv, Divide
<1>3. /\ now \in 0 .. ClockModulus - 1
      /\ Timespan(now) = open.time + ticks
      /\ open \in Entry /\ Later(open, ticks, n) \in since'
      /\ \A b \in Buckets : /\ cut[b] \in Entry
                            /\ Stored(b) => Later(cut[b], ticks, n) \in since'
      /\ since' \subseteq Entry
      /\ divided' \in [time : Nat, data : Nat]
      /\ RateOfRecentTransfers'
  BY <1>1, <1>2, DivideFacts
<1>4. /\ ticks \in Nat /\ n \in Nat /\ TicksPerStored \in Nat
      /\ open.time \in Nat /\ open.data \in Nat /\ bucketData \in Nat
      /\ \A b \in Buckets : cut[b].time \in Nat /\ cut[b].data \in Nat
  BY <1>2, <1>3, RateWindowAssumption DEF Entry, WindowTypeOK
<1>5. /\ UNCHANGED <<dataLengths, timeBuckets, firstStamp, bucketsFull, overflowed, firstCall>>
      /\ bucketData' = bucketData + n /\ Timespan(now) < TicksPerStored
  BY DEF AddToBucket, Divide
<1>6. WindowTypeOK'
  BY <1>2, <1>3, <1>4, <1>5 DEF WindowTypeOK
<1> PICK open2 \in since' : open2 = Later(open, ticks, n)
  BY <1>3
<1>7. PICK cut2 \in [Buckets -> since'] :
        \A b \in Buckets : Stored(b) => cut2[b] = Later(cut[b], ticks, n)
  <2> DEFINE f == [b \in Buckets |-> IF Stored(b) THEN Later(cut[b], ticks, n) ELSE open2]
  <2>1. f \in [Buckets -> since'] /\ \A b \in Buckets : Stored(b) => f[b] = Later(cut[b], ticks, n)
    BY <1>3
  <2> QED
    BY <2>1
<1>8. /\ open2.time = open.time + ticks /\ open2.data = open.data + n
      /\ open2.first = open.first
      /\ \A b \in Buckets : /\ Later(cut[b], ticks, n).time = cut[b].time + ticks
                            /\ Later(cut[b], ticks, n).data = cut[b].data + n
                            /\ Later(cut[b], ticks, n).first = cut[b].first
  BY DEF Later
<1>9. ASSUME NEW b \in Buckets PROVE BucketOK(b, cut2, open2)'
  <2>1. Stored(b)' = Stored(b) /\ Age(b)' = Age(b)
    BY <1>5 DEF Stored, Age
  <2>2. CASE ~Stored(b)
    BY <1>1, <1>5, <2>1, <2>2 DEF Cuts, BucketOK
  <2>3. CASE Stored(b)
    <3> DEFINE end == IF Age(b) = 0 THEN open ELSE cut[NextBucket(b)]
               end2 == IF Age(b) = 0 THEN open2 ELSE cut2[NextBucket(b)]
    <3>1. /\ cut[b].data = end.data + dataLengths[b]
          /\ cut[b].time = end.time + timeBuckets[b]
          /\ cut[b].time >= Span(Age(b) + 1, TicksPerStored) + open.time
          /\ cut[b].time <= Span(Age(b) + 1, LongestBucket) + open.time
      BY <1>1, <2>3 DEF Cuts, BucketOK
    <3>2. /\ end2.data = end.data + n /\ end2.time = end.time + ticks
          /\ end.data \in Nat /\ end.time \in Nat
      <4>1. CASE Age(b) = 0
        BY <1>4, <1>8, <4>1
      <4>2. CASE Age(b) # 0 /\ b # overflowed
        BY <1>2, <1>4, <1>7, <1>8, <2>3, <4>2, AgeFacts
      <4>3. CASE Age(b) # 0 /\ b = overflowed
        <5>1. NextBucket(b) \in Buckets /\ Stored(NextBucket(b))
          BY <1>2, <2>3, <4>3, AgeFacts DEF Stored, WindowTypeOK, Buckets
        <5> QED
          BY <1>4, <1>7, <1>8, <4>3, <5>1
      <4> QED
        BY <4>1, <4>2, <4>3
    <3>3. Span(Age(b) + 1, TicksPerStored) \in Nat /\ Span(Age(b) + 1, LongestBucket) \in Nat
      <4>1. Age(b) + 1 \in Nat
        BY <1>2, AgeFacts, RateWindowAssumption
      <4> QED
        BY <4>1, SpanFacts, WindowSizes, RateWindowAssumption
    <3>4. dataLengths[b] \in Nat /\ timeBuckets[b] \in Nat
      BY <1>2 DEF WindowTypeOK
    <3>5. cut2[b].time = cut[b].time + ticks /\ cut2[b].data = cut[b].data + n
      BY <1>7, <1>8, <2>3
    <3> HIDE DEF end, end2
    <3>6. /\ cut2[b].data = end2.data + dataLengths[b]
          /\ cut2[b].time = end2.time + timeBuckets[b]
          /\ cut2[b].time >= Span(Age(b) + 1, TicksPerStored) + open2.time
          /\ cut2[b].time <= Span(Age(b) + 1, LongestBucket) + open2.time
      BY <1>4, <1>8, <3>1, <3>2, <3>3, <3>4, <3>5
    <3> QED
      BY <1>5, <2>1, <2>3, <3>6 DEF BucketOK, end2
  <2> QED
    BY <2>2, <2>3
<1>10. Cuts(cut2, open2)'
  <2>1. open2.time = Timespan(clock)' /\ open2.time < TicksPerStored
        /\ open2.data = bucketData'
    <3>1. Timespan(clock)' = Timespan(now)
      BY <1>5 DEF Timespan
    <3> QED
      BY <1>1, <1>3, <1>4, <1>5, <1>8, <3>1 DEF Cuts
  <2>2. /\ Oldest(cut2, open2)'.time = Oldest(cut, open).time + ticks
        /\ Oldest(cut2, open2)'.data = Oldest(cut, open).data + n
        /\ Oldest(cut2, open2)'.first = Oldest(cut, open).first
        /\ Oldest(cut, open).time \in Nat /\ Oldest(cut, open).data \in Nat
    <3>1. CASE bucketsFull
      <4>1. overflowed \in Buckets /\ Stored(overflowed)
        BY <1>2, <3>1, AgeFacts DEF Stored
      <4> QED
        BY <1>4, <1>5, <1>7, <1>8, <3>1, <4>1 DEF Oldest
    <3>2. CASE ~bucketsFull /\ overflowed = 0
      BY <1>4, <1>5, <1>8, <3>2 DEF Oldest
    <3>3. CASE ~bucketsFull /\ overflowed # 0
      BY <1>2, <1>4, <1>5, <1>7, <1>8, <3>3, AgeFacts DEF Oldest
    <3> QED
      BY <3>1, <3>2, <3>3
  <2>3. sum_array(dataLengths) \in Nat /\ sum_array(timeBuckets) \in Nat
    BY <1>2, SumChanges, AgeFacts DEF WindowTypeOK
  <2>4. /\ sum_array(dataLengths)' = sum_array(dataLengths)
        /\ sum_array(timeBuckets)' = sum_array(timeBuckets)
    BY <1>5
  <2>5. /\ Oldest(cut2, open2)'.data = bucketData' + sum_array(dataLengths)'
        /\ Oldest(cut2, open2)'.time = open2.time + sum_array(timeBuckets)'
        /\ bucketsFull' \/ Oldest(cut2, open2)'.first
    BY <1>1, <1>4, <1>5, <1>8, <2>2, <2>3, <2>4 DEF Cuts
  <2> QED
    BY <1>9, <2>1, <2>5 DEF Cuts
<1> QED
  BY <1>3, <1>6, <1>7, <1>10 DEF WindowInv

LEMMA StoreKeeps ==
  ASSUME WindowInv, NEW ticks \in 1 .. MaxTicks, NEW n \in Lengths, NEW now,
         now = (clock + ticks) % ClockModulus,
         clock' = now, Divide(now, ticks, n), StoreBucket(now, n)
  PROVE  WindowInv'
<1>1. PICK open \in since, cut \in [Buckets -> since] : Cuts(cut, open)
  BY DEF WindowInv, Divide
<1>2. WindowTypeOK /\ ~firstCall
  BY DEF WindowInv, Divide
<1>3. /\ now \in 0 .. ClockModulus - 1 /\ (now - now) % ClockModulus = 0
      /\ Timespan(now) = open.time + ticks /\ Timespan(now) <= LongestBucket
      /\ open \in Entry /\ Later(open, ticks, n) \in since'
      /\ \A b \in Buckets : /\ cut[b] \in Entry
                            /\ Stored(b) => Later(cut[b], ticks, n) \in since'
      /\ [time |-> 0, data |-> 0, first |-> FALSE] \in since'
      /\ since' \subseteq Entry
      /\ divided' \in [time : Nat, data : Nat]
      /\ RateOfRecentTransfers'
  BY <1>1, <1>2, DivideFacts
<1>4. /\ ticks \in Nat /\ n \in Nat /\ TicksPerStored \in Nat \ {0}
      /\ open.time \in Nat /\ open.data \in Nat /\ bucketData \in Nat
      /\ \A b \in Buckets : cut[b].time \in Nat /\ cut[b].data \in Nat
      /\ \A b \in Buckets : dataLengths[b] \in Nat /\ timeBuckets[b] \in Nat
  BY <1>2, <1>3, RateWindowAssumption DEF Entry, WindowTypeOK
<1>5. /\ timeBuckets' = [timeBuckets EXCEPT ![overflowed] = open.time + ticks]
      /\ dataLengths' = [dataLengths EXCEPT ![overflowed] = bucketData + n]
      /\ bucketData' = 0 /\ firstStamp' = now
      /\ bucketsFull' = (bucketsFull \/ overflowed + 1 = TotalStored)
      /\ overflowed' = NextBucket(overflowed)
      /\ TicksPerStored <= open.time + ticks
      /\ firstCall' = firstCall
  BY <1>2, <1>3, <1>4, AgeFacts DEF StoreBucket, Divide, oldest_bucket
<1>6. open.data = bucketData /\ open.time + ticks <= LongestBucket
      /\ LongestBucket \in Nat
  BY <1>1, <1>3, WindowSizes DEF Cuts
<1>7. WindowTypeOK'
  BY <1>2, <1>3, <1>4, <1>5, AgeFacts DEF WindowTypeOK
<1> PICK open2 \in since' : open2 = [time |-> 0, data |-> 0, first |-> FALSE]
  BY <1>3
<1>8. PICK cut2 \in [Buckets -> since'] :
        /\ cut2[overflowed] = Later(open, ticks, n)
        /\ \A b \in Buckets : Stored(b) /\ b # overflowed => cut2[b] = Later(cut[b], ticks, n)
  <2> DEFINE f == [b \in Buckets |-> IF b = overflowed THEN Later(open, ticks, n)
                                     ELSE IF Stored(b) THEN Later(cut[b], ticks, n)
                                     ELSE open2]
  <2>1. f \in [Buckets -> since']
    BY <1>3
  <2>2. f[overflowed] = Later(open, ticks, n)
        /\ \A b \in Buckets : Stored(b) /\ b # overflowed => f[b] = Later(cut[b], ticks, n)
    BY <1>2, AgeFacts
  <2> QED
    BY <2>1, <2>2
<1>9. /\ open2.time = 0 /\ open2.data = 0
      /\ Later(open, ticks, n).time = open.time + ticks
      /\ Later(open, ticks, n).data = open.data + n
      /\ Later(open, ticks, n).first = open.first
      /\ \A b \in Buckets : /\ Later(cut[b], ticks, n).time = cut[b].time + ticks
                            /\ Later(cut[b], ticks, n).data = cut[b].data + n
                            /\ Later(cut[b], ticks, n).first = cut[b].first
  BY DEF Later
<1>10. \A b \in Buckets : /\ b = overflowed => Age(b)' = 0 /\ Stored(b)'
                          /\ b # overflowed => Age(b)' = Age(b) + 1
                          /\ b # overflowed => (Stored(b)' <=> Stored(b))
  <2>1. TotalStored \in Nat \ {0} /\ overflowed \in 0 .. TotalStored - 1
        /\ bucketsFull \in BOOLEAN
    BY <1>2, RateWindowAssumption DEF WindowTypeOK, Buckets
  <2>2. /\ overflowed' = IF overflowed + 1 = TotalStored THEN 0 ELSE overflowed + 1
        /\ bucketsFull' = (bucketsFull \/ overflowed + 1 = TotalStored)
    BY <1>5 DEF NextBucket
  <2>3. ASSUME NEW b \in 0 .. TotalStored - 1
        PROVE  /\ b = overflowed => Age(b)' = 0 /\ Stored(b)'
               /\ b # overflowed => Age(b)' = Age(b) + 1
               /\ b # overflowed => (Stored(b)' <=> Stored(b))
    <3>1. CASE overflowed + 1 = TotalStored
      <4>1. overflowed' = 0 /\ bucketsFull'
        BY <2>2, <3>1
      <4>2. b < overflowed \/ b = overflowed
        BY <2>1, <3>1
      <4> QED
        BY <2>1, <3>1, <4>1, <4>2 DEF Age, Stored
    <3>2. CASE overflowed + 1 # TotalStored
      BY <2>1, <2>2, <3>2 DEF Age, Stored
    <3> QED
      BY <3>1, <3>2
  <2> QED
    BY <2>3 DEF Buckets
<1>11. ASSUME NEW b \in Buckets PROVE BucketOK(b, cut2, open2)'
  <2>1. CASE b = overflowed
    <3>1. Age(b)' = 0 /\ Stored(b)'
      BY <1>10, <2>1
    <3>2. dataLengths'[b] = bucketData + n /\ timeBuckets'[b] = open.time + ticks
      BY <1>2, <1>5, <2>1 DEF WindowTypeOK
    <3>3. Span(0 + 1, TicksPerStored) = TicksPerStored
          /\ Span(0 + 1, LongestBucket) = LongestBucket
      BY SpanFacts, WindowSizes, RateWindowAssumption
    <3>4. /\ cut2[b].data = open2.data + dataLengths'[b]
          /\ cut2[b].time = open2.time + timeBuckets'[b]
          /\ cut2[b].time >= Span(0 + 1, TicksPerStored) + open2.time
          /\ cut2[b].time <= Span(0 + 1, LongestBucket) + open2.time
      BY <1>4, <1>5, <1>6, <1>8, <1>9, <2>1, <3>2, <3>3
    <3> QED
      BY <3>1, <3>4 DEF BucketOK
  <2>2. CASE b # overflowed /\ ~Stored(b)
    <3>1. ~Stored(b)' /\ dataLengths'[b] = 0 /\ timeBuckets'[b] = 0
      <4>1. dataLengths[b] = 0 /\ timeBuckets[b] = 0
        BY <1>1, <2>2 DEF Cuts, BucketOK
      <4>2. dataLengths'[b] = dataLengths[b] /\ timeBuckets'[b] = timeBuckets[b]
        BY <1>2, <1>5, <2>2 DEF WindowTypeOK
      <4> QED
        BY <1>10, <2>2, <4>1, <4>2
    <3> QED
      BY <3>1 DEF BucketOK
  <2>3. CASE b # overflowed /\ Stored(b)
    <3> DEFINE end == IF Age(b) = 0 THEN open ELSE cut[NextBucket(b)]
    <3>1. /\ cut[b].data = end.data + dataLengths[b]
          /\ cut[b].time = end.time + timeBuckets[b]
          /\ cut[b].time >= Span(Age(b) + 1, TicksPerStored) + open.time
          /\ cut[b].time <= Span(Age(b) + 1, LongestBucket) + open.time
      BY <1>1, <2>3 DEF Cuts, BucketOK
    <3>2. /\ cut2[NextBucket(b)].data = end.data + n
          /\ cut2[NextBucket(b)].time = end.time + ticks
          /\ end.data \in Nat /\ end.time \in Nat
      BY <1>2, <1>4, <1>8, <1>9, <2>3, AgeFacts
    <3>3. cut2[b].time = cut[b].time + ticks /\ cut2[b].data = cut[b].data + n
      BY <1>8, <1>9, <2>3
    <3>4. dataLengths'[b] = dataLengths[b] /\ timeBuckets'[b] = timeBuckets[b]
      BY <1>2, <1>5, <2>3 DEF WindowTypeOK
    <3>5. Age(b) \in Nat /\ Age(b) + 1 \in Nat
      BY <1>2, AgeFacts, RateWindowAssumption
    <3>6. /\ Span(Age(b) + 1, TicksPerStored) \in Nat /\ Span(Age(b) + 1, LongestBucket) \in Nat
          /\ Span((Age(b) + 1) + 1, TicksPerStored)
               = Span(Age(b) + 1, TicksPerStored) + TicksPerStored
          /\ Span((Age(b) + 1) + 1, LongestBucket)
               = Span(Age(b) + 1, LongestBucket) + LongestBucket
      BY <1>4, <3>5, SpanFacts, WindowSizes
    <3>7. Age(b)' = Age(b) + 1 /\ Age(b)' # 0 /\ Stored(b)'
      BY <1>10, <2>3, <3>5
    <3> HIDE DEF end
    <3>8. /\ cut2[b].data = cut2[NextBucket(b)].data + dataLengths'[b]
          /\ cut2[b].time = cut2[NextBucket(b)].time + timeBuckets'[b]
          /\ cut2[b].time >= Span((Age(b) + 1) + 1, TicksPerStored) + open2.time
          /\ cut2[b].time <= Span((Age(b) + 1) + 1, LongestBucket) + open2.time
      BY <1>4, <1>5, <1>6, <1>9, <3>1, <3>2, <3>3, <3>4, <3>6
    <3> QED
      BY <3>7, <3>8 DEF BucketOK
  <2> QED
    BY <2>1, <2>2, <2>3
<1>12. /\ sum_array(dataLengths)' = sum_array(dataLengths) - dataLengths[overflowed] + (bucketData + n)
       /\ sum_array(timeBuckets)' = sum_array(timeBuckets) - timeBuckets[overflowed] + (open.time + ticks)
       /\ sum_array(dataLengths) \in Nat /\ sum_array(timeBuckets) \in Nat
       /\ dataLengths[overflowed] \in Nat /\ timeBuckets[overflowed] \in Nat
  <2>1. overflowed \in Buckets /\ bucketData + n \in Nat /\ open.time + ticks \in Nat
        /\ dataLengths \in [Buckets -> Nat] /\ timeBuckets \in [Buckets -> Nat]
    BY <1>2, <1>4 DEF WindowTypeOK
  <2> QED
    BY <1>4, <1>5, <2>1, SumChanges
<1>13. PICK start \in since :
         /\ Oldest(cut2, open2)' = Later(start, ticks, n)
         /\ start.data \in Nat /\ start.time \in Nat
         /\ Oldest(cut, open).data = start.data + dataLengths[overflowed]
         /\ Oldest(cut, open).time = start.time + timeBuckets[overflowed]
         /\ bucketsFull \/ start.first
  <2>1. CASE bucketsFull
    <3> DEFINE end == IF Age(overflowed) = 0 THEN open ELSE cut[NextBucket(overflowed)]
    <3>1. overflowed \in Buckets /\ Stored(overflowed) /\ \A b \in Buckets : Stored(b)
      BY <1>2, <2>1, AgeFacts DEF Stored
    <3>2. /\ cut[overflowed].data = end.data + dataLengths[overflowed]
          /\ cut[overflowed].time = end.time + timeBuckets[overflowed]
      BY <1>1, <3>1 DEF Cuts, BucketOK
    <3>3. end \in since /\ end.data \in Nat /\ end.time \in Nat
      BY <1>2, <1>4, <3>1, AgeFacts
    <3>4. Oldest(cut2, open2)' = cut2[NextBucket(overflowed)]
      BY <1>5, <2>1 DEF Oldest
    <3>5. cut2[NextBucket(overflowed)] = Later(end, ticks, n)
      <4>1. CASE Age(overflowed) = 0
        BY <1>2, <1>8, <4>1, AgeFacts
      <4>2. CASE Age(overflowed) # 0
        BY <1>2, <1>8, <3>1, <4>2, AgeFacts
      <4> QED
        BY <4>1, <4>2
    <3>6. Oldest(cut, open) = cut[overflowed]
      BY <2>1 DEF Oldest
    <3> QED
      BY <2>1, <3>2, <3>3, <3>4, <3>5, <3>6
  <2>2. CASE ~bucketsFull
    <3>1. dataLengths[overflowed] = 0 /\ timeBuckets[overflowed] = 0
      <4>1. overflowed \in Buckets /\ ~Stored(overflowed)
        BY <1>2, <2>2, AgeFacts DEF Stored, WindowTypeOK, Buckets
      <4> QED
        BY <1>1, <4>1 DEF Cuts, BucketOK
    <3>2. Oldest(cut, open).first
      BY <1>1, <2>2 DEF Cuts
    <3>3. CASE overflowed = 0
      <4>1. Oldest(cut, open) = open
        BY <2>2, <3>3 DEF Oldest
      <4>2. Oldest(cut2, open2)' = cut2[0]
        <5> overflowed' = NextBucket(0)
            /\ (bucketsFull' <=> bucketsFull \/ 0 + 1 = TotalStored)
          BY <1>5, <3>3
        <5>1. CASE TotalStored = 1
          <6>1. overflowed' = 0 /\ bucketsFull'
            BY <5>1 DEF NextBucket
          <6> QED
            BY <6>1 DEF Oldest
        <5>2. CASE TotalStored # 1
          <6>1. overflowed' = 1 /\ ~bucketsFull'
            BY <2>2, <5>2, RateWindowAssumption DEF NextBucket
          <6> QED
            BY <6>1 DEF Oldest
        <5> QED
          BY <5>1, <5>2
      <4>3. open.data = open.data + 0 /\ open.time = open.time + 0
        BY <1>4
      <4> QED
        BY <1>4, <1>8, <3>1, <3>2, <3>3, <4>1, <4>2, <4>3
    <3>4. CASE overflowed # 0
      <4>1. Stored(0) /\ 0 \in Buckets
        BY <1>2, <2>2, <3>4, AgeFacts
      <4>2. Oldest(cut, open) = cut[0]
        BY <2>2, <3>4 DEF Oldest
      <4>3. Oldest(cut2, open2)' = cut2[0]
        <5>1. /\ bucketsFull' = (overflowed + 1 = TotalStored)
              /\ overflowed' = IF overflowed + 1 = TotalStored THEN 0 ELSE overflowed + 1
              /\ overflowed + 1 # 0
          BY <1>2, <1>5, <2>2, RateWindowAssumption DEF NextBucket, WindowTypeOK, Buckets
        <5> QED
          BY <5>1 DEF Oldest
      <4>4. cut2[0] = Later(cut[0], ticks, n)
        BY <1>8, <3>4, <4>1
      <4>5. cut[0].data = cut[0].data + 0 /\ cut[0].time = cut[0].time + 0
        BY <1>4, <4>1
      <4> QED
        BY <1>4, <3>1, <3>2, <4>1, <4>2, <4>3, <4>4, <4>5
    <3> QED
      BY <3>3, <3>4
  <2> QED
    BY <2>1, <2>2
<1>14. Cuts(cut2, open2)'
  <2>1. Timespan(clock)' = 0
    BY <1>3, <1>5 DEF Timespan
  <2>2. /\ Oldest(cut2, open2)'.data = start.data + n
        /\ Oldest(cut2, open2)'.time = start.time + ticks
        /\ Oldest(cut2, open2)'.first = start.first
    BY <1>13 DEF Later
  <2>3. /\ start.data + dataLengths[overflowed] = bucketData + sum_array(dataLengths)
        /\ start.time + timeBuckets[overflowed] = open.time + sum_array(timeBuckets)
    BY <1>1, <1>13 DEF Cuts
  <2>4. /\ start.data + n = 0 + sum_array(dataLengths)'
        /\ start.time + ticks = 0 + sum_array(timeBuckets)'
    BY <1>4, <1>12, <1>13, <2>3
  <2>5. bucketsFull' \/ start.first
    BY <1>5, <1>13
  <2>6. bucketData' = 0 /\ 0 < TicksPerStored
    BY <1>4, <1>5
  <2> QED
    BY <1>9, <1>11, <2>1, <2>2, <2>4, <2>5, <2>6 DEF Cuts
<1> QED
  BY <1>3, <1>7, <1>8, <1>14 DEF WindowInv

LEMMA WindowKept == WindowInv /\ [WindowNext]_windowVars => WindowInv'
<1> SUFFICES ASSUME WindowInv, [WindowNext]_windowVars PROVE WindowInv'
  OBVIOUS
<1>1. CASE WindowReset
  BY <1>1 DEF WindowReset, WindowInv, WindowTypeOK, RateOfRecentTransfers
<1>2. ASSUME NEW ticks \in 1 .. MaxTicks, NEW n \in Lengths, WindowTransfer(ticks, n)
      PROVE  WindowInv'
  <2> DEFINE now == (clock + ticks) % ClockModulus
  <2>1. clock' = now
    BY <1>2 DEF WindowTransfer
  <2>2. CASE FirstTransfer(now)
    BY <2>1, <2>2, FirstKeeps
  <2>3. CASE Divide(now, ticks, n) /\ AddToBucket(now, n)
    <3> HIDE DEF now
    <3>1. now = (clock + ticks) % ClockModulus
      BY DEF now
    <3> QED
      BY <2>1, <2>3, <3>1, AddKeeps
  <2>4. CASE Divide(now, ticks, n) /\ StoreBucket(now, n)
    <3> HIDE DEF now
    <3>1. now = (clock + ticks) % ClockModulus
      BY DEF now
    <3> QED
      BY <2>1, <2>4, <3>1, StoreKeeps
  <2> QED
    BY <1>2, <2>2, <2>3, <2>4 DEF WindowTransfer
<1>3. CASE UNCHANGED windowVars
  <2>1. UNCHANGED <<dataLengths, timeBuckets, bucketData, firstStamp, bucketsFull,
                    overflowed, firstCall, clock, divided, since>>
    BY <1>3 DEF windowVars
  <2>2. WindowTypeOK' /\ RateOfRecentTransfers'
    BY <2>1 DEF WindowInv, WindowTypeOK, RateOfRecentTransfers
  <2>3. \A open, cut : Cuts(cut, open) => Cuts(cut, open)'
    BY <2>1 DEF Cuts, BucketOK, Oldest, Timespan, Age, Stored
  <2> QED
    BY <2>1, <2>2, <2>3 DEF WindowInv
<1> QED
  BY <1>1, <1>2, <1>3 DEF WindowNext

\* RateOfRecentTransfers holds for every ring, every width of the timestamps
\* that the ring cannot outlast, and any transfers: determine_USB_audio_rate
\* divides the data of the latest transfers by the time they took, and of no
\* others, however often the ring and the clock wrap.
THEOREM RateCorrect == WindowSpec => []RateOfRecentTransfers
<1>1. WindowInv => RateOfRecentTransfers
  BY DEF WindowInv
<1> QED
  BY <1>1, WindowStarts, WindowKept, PTL DEF WindowSpec
=============================================================================
