----------------------------- MODULE Audio_proofs -----------------------------
(***************************************************************************)
(* Proofs about the audio paths and the delay line.                        *)
(*                                                                         *)
(* AudioFlow: nothing that comes in is lost as long as no task was late,   *)
(* for every length of a frame, size of the buffers and depth of the       *)
(* queues that go together as in the code.  The invariant counts the       *)
(* samples that are under way between two places, in ticks: those of the   *)
(* input that the microphones' frames will be paired with, those of the    *)
(* input that the DAC has yet to play, and those of the microphones.       *)
(*                                                                         *)
(* DelayBuffer: the line delays by what is set, for every size of the      *)
(* ring, every frame length and every sequence of delays.  The invariant   *)
(* says what each cell holds by how many samples ago it was written.       *)
(***************************************************************************)
EXTENDS AudioFlow, DelayBuffer, TLAPS

(***************************************************************************)
(* AudioFlow                                                               *)
(***************************************************************************)
LEMMA FlowTypeInit == AudioFlowInit => AudioFlowTypeOK
BY AudioFlowAssumption DEF AudioFlowInit, AudioFlowTypeOK, RefDepth

LEMMA SpeakerTypes ==
  ASSUME AudioFlowTypeOK,
         \/ SpeakerInput \/ SpeakerPush \/ SpeakerPop \/ SpeakerOutput
         \/ SpeakerSendsReference
  PROVE  AudioFlowTypeOK'
<1> USE AudioFlowAssumption
    DEF AudioFlowTypeOK, i2sVars, micVars, t0Vars, clockVars, RefDepth
<1>1. CASE SpeakerInput
  BY <1>1 DEF SpeakerInput
<1>2. CASE SpeakerPush
  BY <1>2 DEF SpeakerPush
<1>3. CASE SpeakerPop
  BY <1>3 DEF SpeakerPop
<1>4. CASE SpeakerOutput
  BY <1>4 DEF SpeakerOutput, Fits
<1>5. CASE SpeakerSendsReference
  BY <1>5 DEF SpeakerSendsReference
<1> QED
  BY <1>1, <1>2, <1>3, <1>4, <1>5

LEMMA MicTypes ==
  ASSUME AudioFlowTypeOK,
         \/ FlushMics \/ Discard \/ TakeReference \/ MicInput \/ MicPush
         \/ MicPop \/ MicWorkDone \/ CrossTiles
  PROVE  AudioFlowTypeOK'
<1> USE AudioFlowAssumption
    DEF AudioFlowTypeOK, i2sVars, spkVars, t0Vars, clockVars, RefDepth
<1>1. CASE FlushMics
  BY <1>1 DEF FlushMics
<1>2. CASE Discard
  BY <1>2 DEF Discard
<1>3. CASE TakeReference
  BY <1>3 DEF TakeReference
<1>4. CASE MicInput
  BY <1>4 DEF MicInput
<1>5. CASE MicPush
  BY <1>5 DEF MicPush
<1>6. CASE MicPop
  BY <1>6 DEF MicPop
<1>7. CASE MicWorkDone
  BY <1>7 DEF MicWorkDone
<1>8. CASE CrossTiles
  BY <1>8 DEF CrossTiles
<1> QED
  BY <1>1, <1>2, <1>3, <1>4, <1>5, <1>6, <1>7, <1>8

LEMMA TileZeroTypes ==
  ASSUME AudioFlowTypeOK,
         \/ IcPush \/ NsPop \/ NsPush \/ AgcPop
         \/ RemoteTx \/ HostTx \/ RemoteTxReturns
  PROVE  AudioFlowTypeOK'
<1> USE AudioFlowAssumption
    DEF AudioFlowTypeOK, i2sVars, spkVars, micVars, t0Vars, clockVars, RefDepth
<1>1. CASE IcPush
  BY <1>1 DEF IcPush
<1>2. CASE NsPop
  BY <1>2 DEF NsPop
<1>3. CASE NsPush
  BY <1>3 DEF NsPush
<1>4. CASE AgcPop
  BY <1>4 DEF AgcPop
<1>5. CASE RemoteTx
  BY <1>5 DEF RemoteTx
<1>6. CASE HostTx
  BY <1>6 DEF HostTx
<1>7. CASE RemoteTxReturns
  BY <1>7 DEF RemoteTxReturns
<1> QED
  BY <1>1, <1>2, <1>3, <1>4, <1>5, <1>6, <1>7

\* phase counts to S, and a tick that is late is one more of MostLate
LEMMA PhaseSteps ==
  ASSUME NEW p \in 0 .. S - 1
  PROVE  (p + 1) % S = IF p = S - 1 THEN 0 ELSE p + 1
<1> USE AudioFlowAssumption
<1>1. CASE p = S - 1
  BY <1>1
<1>2. CASE p # S - 1
  <2>1. p + 1 \in 0 .. S - 1
    BY <1>2
  <2> QED
    BY <2>1, <1>2
<1> QED
  BY <1>1, <1>2

LEMMA TickTypes ==
  ASSUME AudioFlowTypeOK, Tick
  PROVE  AudioFlowTypeOK'
<1> USE AudioFlowAssumption
    DEF AudioFlowTypeOK, spkVars, t0Vars, RefDepth
<1>1. phase' = IF phase = S - 1 THEN 0 ELSE phase + 1
  BY PhaseSteps DEF Tick
<1>2. /\ recv' \in 0 .. RecvTicks /\ send' \in 0 .. SendTicks
      /\ send1' \in 0 .. SendTicks /\ work' \in 0 .. MaxWork
      /\ mics' \in 0 .. MicFrames /\ phase' \in 0 .. S - 1
  BY <1>1 DEF Tick
<1>3. late' \in 0 .. MostLate
  BY DEF Tick
<1>4. glitch' \subseteq {"recv", "send", "send1", "mics"}
  BY DEF Tick
<1> QED
  BY <1>2, <1>3, <1>4 DEF Tick

LEMMA FlowTypeStep == AudioFlowTypeOK /\ [AudioFlowNext]_flowVars => AudioFlowTypeOK'
<1>1. AudioFlowTypeOK /\ UNCHANGED flowVars => AudioFlowTypeOK'
  BY DEF AudioFlowTypeOK, flowVars, i2sVars, spkVars, micVars, t0Vars, clockVars
<1> QED
  BY <1>1, SpeakerTypes, MicTypes, TileZeroTypes, TickTypes DEF AudioFlowNext, PipelineTask

-----------------------------------------------------------------------------
THEOREM FlowTypeCorrect == AudioFlowSpec => []AudioFlowTypeOK
<1> QED
  BY FlowTypeInit, FlowTypeStep, PTL DEF AudioFlowSpec

-----------------------------------------------------------------------------
\* A remote call is under way exactly while i2s_rpc_thread works on it.
RpcInv == rpc # "request" <=> t0Out = "wait"

\* Ticks' worth of k frames, and of a frame that is there if b
Frames(k) == S * k
FrameIf(b) == IF b THEN S ELSE 0

\* The input on its way to the reference queue, and in it
ToReference ==
  recv + FrameIf(spkIn = "push") + Frames(spkStage) + FrameIf(spkOut # "pop")
    + Frames(refs)

\* The input on its way to the DAC, and in the DAC's buffer
ToSpeaker ==
  recv + send1 + FrameIf(spkIn = "push") + Frames(spkStage)
    + FrameIf(spkOut = "tx")

\* What the microphones have given and nobody has taken
FromMics == Frames(mics) + phase

\* On tile 1 until the filter is done with it, and after it until it is sent
BeforeWork ==
  Frames(micStage) + FrameIf(micIn = "push") + FrameIf(micOut = "work")
ToSend ==
  send + FrameIf(micOut = "send") + FrameIf(t0In = "push") + Frames(t0Ic)
    + FrameIf(t0Ns = "push") + Frames(t0Agc)
    + FrameIf(t0Out = "call" \/ rpc = "tx")
OnTheWay == ToSend + BeforeWork + FromMics

\* The microphones' backlog, from the pairing with the references
Backlog == IF SendTicks > RecvTicks THEN S ELSE RecvTicks + S - SendTicks

\* The ticks of work for which the output has nothing
Uncovered(ticks) == IF ticks > ToSend THEN ticks - ToSend ELSE 0

\* Until the flush has ended no tick passes, for the loop can always go on.
StartInv ==
  /\ micIn \in {"flush", "discard"} => ToSend = 0 /\ BeforeWork = 0
  /\ micIn = "flush" => ToReference <= RecvTicks
  /\ micIn = "discard" => /\ mics <= 1 /\ (mics = 1 => phase = 0)
                          /\ ToReference <= RecvTicks + FromMics

\* A microphone frame is paired with a reference that is there already or comes
\* soon enough, and the references do not run ahead of the frames either.
PairInv ==
  /\ micIn \in {"ref", "push"} =>
       FromMics <= ToReference /\ ToReference <= RecvTicks + S + FromMics
  /\ micIn = "mic" =>
       FromMics <= ToReference + S /\ ToReference <= RecvTicks + FromMics

\* What waits on the microphones' way, with the silence that is to come while
\* the filter works, is no more than the backlog and one such time.
WayInv ==
  micIn # "flush" =>
    /\ FromMics <= Backlog
    /\ micOut = "pop" => OnTheWay + Uncovered(MaxWork) <= MaxWork + Backlog
    /\ micOut = "work" => OnTheWay + Uncovered(work) <= MaxWork + Backlog
    /\ micOut = "send" => OnTheWay <= MaxWork + Backlog

InTime ==
  /\ glitch \cap {"recv", "mics"} = {}
  /\ ToSpeaker <= RecvTicks /\ StartInv /\ PairInv /\ WayInv

FlowInv == AudioFlowTypeOK /\ RpcInv /\ (late = 0 => InTime)

LEMMA FewFrames == Frames(0) = 0 /\ Frames(1) = S /\ Frames(2) = 2 * S
BY AudioFlowAssumption DEF Frames

LEMMA MoreFrames == \A k \in Nat : Frames(k) \in Nat /\ Frames(k + 1) = Frames(k) + S
BY AudioFlowAssumption DEF Frames

LEMMA LessFrames ==
  \A k \in Nat \ {0} : Frames(k) >= S /\ Frames(k - 1) = Frames(k) - S
<1> SUFFICES ASSUME NEW k \in Nat \ {0}
             PROVE  Frames(k) >= S /\ Frames(k - 1) = Frames(k) - S
  OBVIOUS
<1>1. k - 1 \in Nat /\ (k - 1) + 1 = k
  OBVIOUS
<1>2. Frames(k) = Frames(k - 1) + S /\ Frames(k - 1) \in Nat
  BY <1>1, MoreFrames
<1> QED
  BY <1>2, AudioFlowAssumption

\* The sizes in frames
LEMMA Sizes ==
  /\ RecvTicks < Frames(MicFrames) + SendTicks
  /\ RecvTicks + MaxWork < Frames(StageDepth) + S + SendTicks
  /\ Backlog \in Nat /\ S <= Backlog /\ RecvTicks + S <= Backlog + SendTicks
  /\ MaxWork + Backlog < Frames(StageDepth) + 2 * S
<1> USE AudioFlowAssumption, BufferAssumption
<1>1. S * (StageDepth + 1) = S * StageDepth + S
  OBVIOUS
<1>2. /\ RecvTicks < Frames(MicFrames) + SendTicks
      /\ RecvTicks + MaxWork < Frames(StageDepth) + S + SendTicks
  BY <1>1 DEF Frames
<1>3. Frames(StageDepth) \in Nat /\ Frames(StageDepth) >= S
  BY MoreFrames, LessFrames
<1> QED
  BY <1>2, <1>3 DEF Backlog

LEMMA Counts ==
  ASSUME AudioFlowTypeOK
  PROVE  /\ Frames(mics) \in Nat /\ Frames(spkStage) \in Nat
         /\ Frames(refs) \in Nat /\ Frames(micStage) \in Nat
         /\ Frames(t0Ic) \in Nat /\ Frames(t0Agc) \in Nat
         /\ ToReference \in Nat /\ ToSpeaker \in Nat /\ FromMics \in Nat
         /\ BeforeWork \in Nat /\ ToSend \in Nat
         /\ \A t \in Nat : Uncovered(t) \in Nat
<1> USE AudioFlowAssumption
<1>1. /\ mics \in Nat /\ spkStage \in Nat /\ refs \in Nat
      /\ micStage \in Nat /\ t0Ic \in Nat /\ t0Agc \in Nat
  BY DEF AudioFlowTypeOK, RefDepth
<1>2. /\ Frames(mics) \in Nat /\ Frames(spkStage) \in Nat
      /\ Frames(refs) \in Nat /\ Frames(micStage) \in Nat
      /\ Frames(t0Ic) \in Nat /\ Frames(t0Agc) \in Nat
  BY <1>1, MoreFrames
<1>3. /\ ToReference \in Nat /\ ToSpeaker \in Nat /\ FromMics \in Nat
      /\ BeforeWork \in Nat /\ ToSend \in Nat
  BY <1>2 DEF ToReference, ToSpeaker, FromMics, BeforeWork, ToSend, FrameIf,
     AudioFlowTypeOK
<1> QED
  BY <1>2, <1>3 DEF Uncovered

\* One frame more or less in each of the queues
LEMMA Steps ==
  ASSUME AudioFlowTypeOK, NEW k \in {mics, spkStage, refs, micStage, t0Ic, t0Agc}
  PROVE  /\ Frames(k) \in Nat /\ Frames(k + 1) = Frames(k) + S
         /\ k = 0 => Frames(k) = 0
         /\ k > 0 => Frames(k) >= S
         /\ k > 0 => Frames(k - 1) = Frames(k) - S
<1>1. k \in Nat
  BY DEF AudioFlowTypeOK, RefDepth
<1>2. Frames(k) \in Nat /\ Frames(k + 1) = Frames(k) + S
  BY <1>1, MoreFrames
<1>3. k > 0 => Frames(k) >= S /\ Frames(k - 1) = Frames(k) - S
  BY <1>1, LessFrames
<1> QED
  BY <1>1, <1>2, <1>3, FewFrames

LEMMA FlowInit == AudioFlowInit => FlowInv
<1> SUFFICES ASSUME AudioFlowInit PROVE FlowInv
  OBVIOUS
<1> USE AudioFlowAssumption, BufferAssumption DEF AudioFlowInit
<1>1. AudioFlowTypeOK
  BY FlowTypeInit
<1>2. /\ ToSpeaker = recv /\ ToReference = recv
      /\ ToSend = 0 /\ BeforeWork = 0
  BY FewFrames DEF ToSpeaker, ToReference, ToSend, BeforeWork, FrameIf
<1>3. RpcInv
  BY DEF RpcInv
<1> QED
  BY <1>1, <1>2, <1>3 DEF FlowInv, InTime, StartInv, PairInv, WayInv

\* The speaker pipeline moves the input on, and neither makes nor takes any.
LEMMA SpeakerKeeps ==
  ASSUME AudioFlowTypeOK,
         \/ SpeakerInput \/ SpeakerPush \/ SpeakerPop \/ SpeakerOutput
         \/ SpeakerSendsReference
  PROVE  /\ ToSpeaker' = ToSpeaker /\ ToReference' = ToReference
         /\ UNCHANGED <<send, mics, micVars, t0Vars, rpc, clockVars>>
<1> USE AudioFlowAssumption
    DEF AudioFlowTypeOK, i2sVars, micVars, t0Vars, clockVars, RefDepth,
        ToSpeaker, ToReference, FrameIf
<1>1. CASE SpeakerInput
  BY <1>1, Steps DEF SpeakerInput
<1>2. CASE SpeakerPush
  BY <1>2, Steps DEF SpeakerPush
<1>3. CASE SpeakerPop
  BY <1>3, Steps DEF SpeakerPop
<1>4. CASE SpeakerOutput
  BY <1>4, Steps DEF SpeakerOutput, Fits
<1>5. CASE SpeakerSendsReference
  BY <1>5, Steps DEF SpeakerSendsReference
<1> QED
  BY <1>1, <1>2, <1>3, <1>4, <1>5

\* So does tile 0 with what it is to send.
LEMMA TileZeroKeeps ==
  ASSUME AudioFlowTypeOK, RpcInv,
         \/ IcPush \/ NsPop \/ NsPush \/ AgcPop
         \/ RemoteTx \/ HostTx \/ RemoteTxReturns
  PROVE  /\ ToSend' = ToSend /\ RpcInv'
         /\ UNCHANGED <<recv, send1, mics, spkVars, refs, micVars, clockVars>>
<1> USE AudioFlowAssumption
    DEF AudioFlowTypeOK, RpcInv, i2sVars, spkVars, micVars, t0Vars, clockVars,
        ToSend, FrameIf
<1>1. CASE IcPush
  BY <1>1, Steps DEF IcPush
<1>2. CASE NsPop
  BY <1>2, Steps DEF NsPop
<1>3. CASE NsPush
  BY <1>3, Steps DEF NsPush
<1>4. CASE AgcPop
  BY <1>4, Steps DEF AgcPop
<1>5. CASE RemoteTx
  BY <1>5, Steps DEF RemoteTx
<1>6. CASE HostTx
  <2>1. /\ t0Out = "wait" /\ send' = send + S /\ rpc' = "response"
        /\ UNCHANGED <<recv, send1, mics, spkVars, refs, micVars, t0Vars, clockVars>>
    BY <1>6 DEF HostTx
  <2>2. /\ FrameIf(t0Out = "call" \/ rpc = "tx") = S
        /\ FrameIf(t0Out = "call" \/ rpc = "tx")' = 0
    BY <1>6, <2>1 DEF HostTx
  <2>3. Frames(t0Ic) \in Nat /\ Frames(t0Agc) \in Nat
    BY Steps
  <2>4. ToSend' = ToSend
    BY <2>1, <2>2, <2>3
  <2>5. RpcInv'
    BY <2>1
  <2> QED
    BY <2>1, <2>4, <2>5
<1>7. CASE RemoteTxReturns
  BY <1>7, Steps DEF RemoteTxReturns
<1> QED
  BY <1>1, <1>2, <1>3, <1>4, <1>5, <1>6, <1>7

\* The invariant speaks of nothing but these.
LEMMA SameInTime ==
  ASSUME InTime,
         ToSpeaker' = ToSpeaker, ToReference' = ToReference,
         ToSend' = ToSend, BeforeWork' = BeforeWork, FromMics' = FromMics,
         UNCHANGED <<mics, phase, micIn, micOut, work, glitch>>
  PROVE  InTime'
BY DEF InTime, StartInv, PairInv, WayInv, OnTheWay, Uncovered

LEMMA SpeakerInTime ==
  ASSUME AudioFlowTypeOK, InTime,
         \/ SpeakerInput \/ SpeakerPush \/ SpeakerPop \/ SpeakerOutput
         \/ SpeakerSendsReference
  PROVE  InTime'
<1>1. /\ ToSpeaker' = ToSpeaker /\ ToReference' = ToReference
      /\ UNCHANGED <<send, mics, micVars, t0Vars, rpc, clockVars>>
  BY SpeakerKeeps
<1>2. ToSend' = ToSend /\ BeforeWork' = BeforeWork /\ FromMics' = FromMics
  BY <1>1 DEF ToSend, BeforeWork, FromMics, micVars, t0Vars, clockVars
<1> QED
  BY <1>1, <1>2, SameInTime DEF micVars, clockVars

LEMMA TileZeroInTime ==
  ASSUME AudioFlowTypeOK, RpcInv, InTime,
         \/ IcPush \/ NsPop \/ NsPush \/ AgcPop
         \/ RemoteTx \/ HostTx \/ RemoteTxReturns
  PROVE  InTime'
<1>1. /\ ToSend' = ToSend
      /\ UNCHANGED <<recv, send1, mics, spkVars, refs, micVars, clockVars>>
  BY TileZeroKeeps
<1>2. /\ ToSpeaker' = ToSpeaker /\ ToReference' = ToReference
      /\ BeforeWork' = BeforeWork /\ FromMics' = FromMics
  BY <1>1
  DEF ToSpeaker, ToReference, BeforeWork, FromMics, spkVars, micVars, clockVars
<1> QED
  BY <1>1, <1>2, SameInTime DEF micVars, clockVars

LEMMA FlushInTime ==
  ASSUME AudioFlowTypeOK, InTime, FlushMics
  PROVE  InTime'
<1> USE AudioFlowAssumption
<1>1. /\ ToSpeaker' = ToSpeaker /\ ToReference' = ToReference
      /\ ToSend' = ToSend /\ BeforeWork' = BeforeWork
  BY DEF FlushMics, ToSpeaker, ToReference, ToSend, BeforeWork, FrameIf,
     i2sVars, spkVars, t0Vars
<1>2. /\ ToSend = 0 /\ BeforeWork = 0 /\ ToReference <= RecvTicks
      /\ glitch \cap {"recv", "mics"} = {} /\ ToSpeaker <= RecvTicks
  BY DEF InTime, StartInv, FlushMics
<1>3. /\ ToSpeaker \in Nat /\ ToReference \in Nat /\ phase \in 0 .. S - 1
      /\ mics \in Nat /\ MaxWork \in Nat
  BY Counts DEF AudioFlowTypeOK
<1>4. CASE mics > 0
  <2>1. micIn' = "flush" /\ UNCHANGED glitch
    BY <1>4 DEF FlushMics, clockVars
  <2> QED
    BY <1>1, <1>2, <2>1 DEF InTime, StartInv, PairInv, WayInv
<1>5. CASE mics = 0
  <2>1. /\ micIn' = "discard" /\ mics' = 0
        /\ UNCHANGED <<phase, glitch, work, micOut>>
    BY <1>5 DEF FlushMics, clockVars
  <2>2. FromMics' = phase
    BY <1>3, <2>1, FewFrames DEF FromMics
  <2>3. micOut = "pop"
    <3>1. ToSend >= FrameIf(micOut = "send") /\ BeforeWork >= FrameIf(micOut = "work")
      BY Steps DEF ToSend, BeforeWork, FrameIf, AudioFlowTypeOK
    <3> QED
      BY <3>1, <1>2 DEF FrameIf, AudioFlowTypeOK
  <2>4. Uncovered(MaxWork)' = MaxWork
    BY <1>1, <1>2, <1>3 DEF Uncovered
  <2>5. StartInv' /\ PairInv'
    BY <1>1, <1>2, <1>3, <2>1, <2>2 DEF StartInv, PairInv
  <2>6. WayInv'
    BY <1>1, <1>2, <1>3, <2>1, <2>2, <2>3, <2>4, Sizes DEF WayInv, OnTheWay
  <2> QED
    BY <1>1, <1>2, <2>1, <2>5, <2>6 DEF InTime
<1> QED
  BY <1>3, <1>4, <1>5

LEMMA DiscardInTime ==
  ASSUME AudioFlowTypeOK, InTime, Discard
  PROVE  InTime'
<1> USE AudioFlowAssumption
<1>1. /\ ToSpeaker' = ToSpeaker /\ ToReference' = ToReference
      /\ ToSend' = ToSend /\ BeforeWork' = BeforeWork
  BY DEF Discard, ToSpeaker, ToReference, ToSend, BeforeWork, FrameIf,
     i2sVars, spkVars, t0Vars
<1>2. /\ mics = 1 /\ phase = 0 /\ ToReference <= RecvTicks + FromMics
      /\ micIn' = "ref" /\ mics' = 0 /\ UNCHANGED <<phase, glitch, work, micOut>>
  BY DEF InTime, StartInv, Discard, AudioFlowTypeOK, clockVars
<1>3. FromMics = S /\ FromMics' = 0
  BY <1>2, FewFrames DEF FromMics
<1>4. ToReference \in Nat /\ ToSend \in Nat /\ BeforeWork \in Nat
  BY Counts
<1>5. \A t \in Nat : Uncovered(t)' = Uncovered(t)
  BY <1>1 DEF Uncovered
<1>6. PairInv'
  BY <1>1, <1>2, <1>3, <1>4 DEF PairInv
<1>7. WayInv'
  <2>1. MaxWork \in Nat /\ work \in Nat /\ Uncovered(MaxWork) \in Nat
        /\ Uncovered(work) \in Nat
    BY Counts DEF AudioFlowTypeOK
  <2>2. Uncovered(MaxWork)' = Uncovered(MaxWork) /\ Uncovered(work)' = Uncovered(work)
    BY <1>1, <1>2 DEF Uncovered
  <2>3. OnTheWay' = OnTheWay - S /\ OnTheWay \in Nat
    BY <1>1, <1>3, <1>4 DEF OnTheWay
  <2> QED
    BY <1>2, <1>3, <2>1, <2>2, <2>3, Sizes DEF InTime, WayInv, Discard
<1> QED
  BY <1>1, <1>2, <1>6, <1>7 DEF InTime, StartInv

LEMMA TakeReferenceInTime ==
  ASSUME AudioFlowTypeOK, InTime, TakeReference
  PROVE  InTime'
<1> USE AudioFlowAssumption
<1>1. /\ ToSpeaker' = ToSpeaker /\ FromMics' = FromMics
      /\ ToSend' = ToSend /\ BeforeWork' = BeforeWork
  BY DEF TakeReference, ToSpeaker, FromMics, ToSend, BeforeWork, FrameIf,
     i2sVars, spkVars, t0Vars, clockVars
<1>2. ToReference' = ToReference - S
  <2>1. /\ refs > 0 /\ refs' = refs - 1 /\ recv \in Nat
        /\ UNCHANGED <<recv, spkIn, spkStage, spkOut>>
    BY DEF TakeReference, i2sVars, spkVars, AudioFlowTypeOK
  <2>2. /\ Frames(refs) \in Nat /\ Frames(refs') = Frames(refs) - S
        /\ Frames(spkStage) \in Nat
    BY <2>1, Steps
  <2> QED
    BY <2>1, <2>2 DEF ToReference, FrameIf
<1>3. micIn = "ref" /\ micIn' = "mic" /\ UNCHANGED <<mics, phase, glitch, work, micOut>>
  BY DEF TakeReference, clockVars
<1>4. ToReference \in Nat /\ FromMics \in Nat
  BY Counts
<1>5. PairInv'
  BY <1>1, <1>2, <1>3, <1>4 DEF InTime, PairInv
<1>6. WayInv'
  BY <1>1, <1>3 DEF InTime, WayInv, OnTheWay, Uncovered
<1> QED
  BY <1>1, <1>3, <1>5, <1>6 DEF InTime, StartInv

LEMMA MicInputInTime ==
  ASSUME AudioFlowTypeOK, InTime, MicInput
  PROVE  InTime'
<1> USE AudioFlowAssumption
<1>1. /\ ToSpeaker' = ToSpeaker /\ ToReference' = ToReference /\ ToSend' = ToSend
  BY DEF MicInput, ToSpeaker, ToReference, ToSend, FrameIf, i2sVars, spkVars, t0Vars
<1>2. micIn = "mic" /\ micIn' = "push" /\ UNCHANGED <<phase, glitch, work, micOut>>
  BY DEF MicInput, clockVars
<1>3. FromMics' = FromMics - S
  BY <1>2, Steps DEF MicInput, FromMics, AudioFlowTypeOK
<1>4. BeforeWork' = BeforeWork + S
  BY <1>2, Steps DEF MicInput, BeforeWork, FrameIf
<1>5. ToReference \in Nat /\ FromMics \in Nat /\ BeforeWork \in Nat /\ ToSend \in Nat
  BY Counts
<1>6. OnTheWay' = OnTheWay
  BY <1>1, <1>3, <1>4, <1>5 DEF OnTheWay
<1>7. PairInv'
  BY <1>1, <1>2, <1>3, <1>5 DEF InTime, PairInv
<1>8. WayInv'
  BY <1>1, <1>2, <1>3, <1>5, <1>6, Sizes DEF InTime, WayInv, Uncovered
<1> QED
  BY <1>1, <1>2, <1>7, <1>8 DEF InTime, StartInv

LEMMA MicPushInTime ==
  ASSUME AudioFlowTypeOK, InTime, MicPush
  PROVE  InTime'
<1> USE AudioFlowAssumption
<1>1. /\ ToSpeaker' = ToSpeaker /\ ToReference' = ToReference
      /\ ToSend' = ToSend /\ FromMics' = FromMics
  BY DEF MicPush, ToSpeaker, ToReference, ToSend, FromMics, FrameIf, i2sVars,
     spkVars, t0Vars, clockVars
<1>2. micIn = "push" /\ micIn' = "ref" /\ UNCHANGED <<mics, phase, glitch, work, micOut>>
  BY DEF MicPush, clockVars
<1>3. BeforeWork' = BeforeWork
  BY <1>2, Steps DEF MicPush, BeforeWork, FrameIf
<1>4. PairInv' /\ WayInv'
  BY <1>1, <1>2, <1>3 DEF InTime, PairInv, WayInv, OnTheWay, Uncovered
<1> QED
  BY <1>1, <1>2, <1>4 DEF InTime, StartInv

LEMMA MicPopInTime ==
  ASSUME AudioFlowTypeOK, InTime, MicPop
  PROVE  InTime'
<1> USE AudioFlowAssumption
<1>1. /\ ToSpeaker' = ToSpeaker /\ ToReference' = ToReference
      /\ FromMics' = FromMics
  BY DEF MicPop, ToSpeaker, ToReference, FromMics, FrameIf, i2sVars, spkVars,
     clockVars
<1>2. /\ micOut = "pop" /\ micOut' = "work" /\ work' \in 0 .. MaxWork
      /\ UNCHANGED <<mics, phase, glitch, micIn>>
  BY DEF MicPop, clockVars
<1>3. ToSend' = ToSend /\ BeforeWork' = BeforeWork
  BY <1>2, Steps DEF MicPop, ToSend, BeforeWork, FrameIf, i2sVars, t0Vars
<1>4. Uncovered(work)' <= Uncovered(MaxWork) /\ Uncovered(work)' \in Nat
  BY <1>2, <1>3, Counts DEF Uncovered
<1>5. Uncovered(MaxWork) \in Nat /\ OnTheWay \in Nat
  BY Counts DEF OnTheWay
<1>6. WayInv'
  BY <1>1, <1>2, <1>3, <1>4, <1>5, Sizes DEF InTime, WayInv, OnTheWay
<1> QED
  BY <1>1, <1>2, <1>3, <1>6 DEF InTime, StartInv, PairInv

LEMMA MicWorkDoneInTime ==
  ASSUME AudioFlowTypeOK, InTime, MicWorkDone
  PROVE  InTime'
<1> USE AudioFlowAssumption
<1>1. /\ ToSpeaker' = ToSpeaker /\ ToReference' = ToReference
      /\ FromMics' = FromMics
  BY DEF MicWorkDone, ToSpeaker, ToReference, FromMics, FrameIf, i2sVars, spkVars,
     clockVars
<1>2. /\ micOut = "work" /\ work = 0 /\ micOut' = "send"
      /\ UNCHANGED <<mics, phase, glitch, micIn, micStage>>
  BY DEF MicWorkDone, clockVars
<1>3. ToSend' = ToSend + S /\ BeforeWork' = BeforeWork - S
  <2>1. /\ Frames(micStage) \in Nat /\ Frames(t0Ic) \in Nat
        /\ Frames(t0Agc) \in Nat /\ send \in Nat
    BY Steps DEF AudioFlowTypeOK
  <2>2. UNCHANGED <<send, t0In, t0Ic, t0Ns, t0Agc, t0Out, rpc>>
    BY DEF MicWorkDone, i2sVars, t0Vars
  <2>3. ToSend' = ToSend + S
    BY <1>2, <2>1, <2>2 DEF ToSend, FrameIf
  <2>4. BeforeWork' = BeforeWork - S
    BY <1>2, <2>1 DEF BeforeWork, FrameIf
  <2> QED
    BY <2>3, <2>4
<1>4. ToSend \in Nat /\ BeforeWork \in Nat /\ FromMics \in Nat
  BY Counts
<1>5. Uncovered(work) = 0 /\ OnTheWay' = OnTheWay
  BY <1>1, <1>2, <1>3, <1>4 DEF Uncovered, OnTheWay
<1>6. BeforeWork >= S
  BY <1>2, Steps DEF BeforeWork, FrameIf
<1>7. WayInv'
  BY <1>1, <1>2, <1>4, <1>5 DEF InTime, WayInv, OnTheWay
<1> QED
  BY <1>1, <1>2, <1>6, <1>7 DEF InTime, StartInv, PairInv

LEMMA CrossTilesInTime ==
  ASSUME AudioFlowTypeOK, InTime, CrossTiles
  PROVE  InTime'
<1> USE AudioFlowAssumption
<1>1. /\ ToSpeaker' = ToSpeaker /\ ToReference' = ToReference
      /\ FromMics' = FromMics
  BY DEF CrossTiles, ToSpeaker, ToReference, FromMics, FrameIf, i2sVars, spkVars,
     clockVars
<1>2. /\ micOut = "send" /\ micOut' = "pop"
      /\ UNCHANGED <<mics, phase, glitch, micIn, micStage, work>>
  BY DEF CrossTiles, clockVars
<1>3. ToSend' = ToSend /\ BeforeWork' = BeforeWork /\ ToSend >= S
  BY <1>2, Steps DEF CrossTiles, ToSend, BeforeWork, FrameIf, i2sVars,
     AudioFlowTypeOK
<1>4. OnTheWay' = OnTheWay /\ Uncovered(MaxWork)' = 0 /\ OnTheWay \in Nat
  BY <1>1, <1>3, Counts DEF Uncovered, OnTheWay
<1>5. WayInv'
  BY <1>1, <1>2, <1>4 DEF InTime, WayInv
<1> QED
  BY <1>1, <1>2, <1>3, <1>5 DEF InTime, StartInv, PairInv

(***************************************************************************)
(* A tick that no task could go before                                     *)
(***************************************************************************)
\* With nothing in its buffer tile 1 has nothing more to send, or tile 0 or the
\* remote call could go on.
LEMMA NothingToSend ==
  ASSUME AudioFlowTypeOK, RpcInv, ~TaskCanRun, send = 0
  PROVE  ToSend = 0
<1> USE AudioFlowAssumption, BufferAssumption DEF AudioFlowTypeOK
<1>1. rpc # "tx"
  BY DEF TaskCanRun
<1>2. rpc = "request" /\ t0Out = "pop"
  BY <1>1 DEF TaskCanRun, RpcInv
<1>3. t0Agc = 0
  BY <1>2 DEF TaskCanRun
<1>4. t0Ns = "pop"
  BY <1>3 DEF TaskCanRun
<1>5. t0Ic = 0
  BY <1>4 DEF TaskCanRun
<1>6. t0In = "rx"
  BY <1>5 DEF TaskCanRun
<1>7. micOut # "send"
  BY <1>6 DEF TaskCanRun
<1> QED
  BY <1>2, <1>3, <1>4, <1>5, <1>6, <1>7, FewFrames DEF ToSend, FrameIf

\* The stages have room for the microphones' frame.
LEMMA NeverPushing ==
  ASSUME AudioFlowTypeOK, InTime, ~TaskCanRun
  PROVE  micIn \in {"discard", "ref", "mic"}
<1> USE AudioFlowAssumption
<1>1. micIn # "flush"
  BY DEF TaskCanRun
<1>2. ASSUME micIn = "push" PROVE FALSE
  <2>1. micStage = StageDepth
    BY <1>2 DEF TaskCanRun, AudioFlowTypeOK
  <2>2. micOut \in {"work", "send"}
    BY <2>1 DEF TaskCanRun, AudioFlowTypeOK
  <2>3. /\ Frames(StageDepth) \in Nat /\ ToSend \in Nat /\ FromMics \in Nat
        /\ Uncovered(work) \in Nat
    BY <2>1, Counts DEF AudioFlowTypeOK
  <2>4. BeforeWork = Frames(StageDepth) + S + (IF micOut = "work" THEN S ELSE 0)
    BY <1>2, <2>1, <2>3 DEF BeforeWork, FrameIf
  <2>5. micOut = "send" => ToSend >= S
    BY Steps DEF ToSend, FrameIf, AudioFlowTypeOK
  <2>6. OnTheWay >= Frames(StageDepth) + 2 * S
    BY <2>2, <2>3, <2>4, <2>5 DEF OnTheWay
  <2>7. OnTheWay \in Nat
    BY <2>3, <2>4 DEF OnTheWay
  <2>8. OnTheWay <= MaxWork + Backlog
    BY <1>2, <2>2, <2>3, <2>7, Sizes DEF InTime, WayInv
  <2> QED
    BY <2>3, <2>6, <2>7, <2>8, Sizes
<1> QED
  BY <1>1, <1>2 DEF AudioFlowTypeOK

\* The speaker pipeline has taken what it could.
LEMMA InputTaken ==
  ASSUME AudioFlowTypeOK, ~TaskCanRun, spkOut = "pop"
  PROVE  spkStage = 0 /\ spkIn = "rx" /\ recv < S
BY AudioFlowAssumption DEF TaskCanRun, AudioFlowTypeOK

\* There is room for the next tick of the input, and the DAC gets none of what
\* it should only when less than the buffer is under way.
LEMMA RoomForInput ==
  ASSUME AudioFlowTypeOK, InTime, ~TaskCanRun
  PROVE  recv < RecvTicks /\ (send1 = 0 => ToSpeaker < RecvTicks)
<1> USE AudioFlowAssumption, BufferAssumption
<1>1. /\ Frames(spkStage) \in Nat /\ recv \in Nat /\ send1 \in Nat
      /\ ToSpeaker \in Nat /\ ToReference \in Nat /\ FromMics \in Nat
      /\ ToSpeaker <= RecvTicks
  BY Counts DEF AudioFlowTypeOK, InTime
<1>2. ASSUME recv >= RecvTicks PROVE FALSE
  <2>1. spkIn = "push"
    BY <1>2, <1>1 DEF TaskCanRun, AudioFlowTypeOK
  <2>2. ToSpeaker >= recv + S
    BY <1>1, <2>1 DEF ToSpeaker, FrameIf
  <2> QED
    BY <1>1, <1>2, <2>2
<1>3. ASSUME send1 = 0 PROVE ToSpeaker < RecvTicks
  <2>1. CASE spkOut = "pop"
    BY <2>1, <1>1, <1>3, InputTaken, FewFrames DEF ToSpeaker, FrameIf
  <2>2. CASE spkOut = "tx"
    BY <2>2, <1>3 DEF TaskCanRun, Fits
  <2>3. CASE spkOut = "ref"
    <3>1. refs = 2
      BY <2>3 DEF TaskCanRun, AudioFlowTypeOK, RefDepth
    <3>2. ToReference = ToSpeaker + 3 * S
      BY <2>3, <3>1, <1>1, <1>3, FewFrames DEF ToReference, ToSpeaker, FrameIf
    <3>3. micIn \in {"discard", "mic"} /\ mics = 0
      BY <3>1, NeverPushing DEF TaskCanRun, AudioFlowTypeOK
    <3>4. FromMics < S
      BY <3>3, FewFrames DEF FromMics, AudioFlowTypeOK
    <3>5. ToReference <= RecvTicks + FromMics
      BY <3>3 DEF InTime, StartInv, PairInv
    <3> QED
      BY <1>1, <3>2, <3>4, <3>5
  <2> QED
    BY <2>1, <2>2, <2>3 DEF AudioFlowTypeOK
<1> QED
  BY <1>1, <1>2, <1>3

\* When the microphones wait for a reference, it is the output that is full.
LEMMA BacklogAtRest ==
  ASSUME AudioFlowTypeOK, InTime, ~TaskCanRun
  PROVE  FromMics + 1 <= Backlog /\ FromMics + 1 < Frames(MicFrames) + S
<1> USE AudioFlowAssumption, BufferAssumption
<1>1. /\ Frames(spkStage) \in Nat /\ recv \in Nat /\ send1 \in Nat
      /\ ToSpeaker \in Nat /\ ToReference \in Nat /\ FromMics \in Nat
      /\ ToSpeaker <= RecvTicks /\ phase \in 0 .. S - 1
  BY Counts DEF AudioFlowTypeOK, InTime
<1> Frames(MicFrames) \in Nat /\ Frames(MicFrames) >= S
  BY MoreFrames, LessFrames
<1>2. CASE micIn \in {"discard", "mic"}
  <2>1. FromMics = phase
    BY <1>1, <1>2, FewFrames DEF TaskCanRun, FromMics, AudioFlowTypeOK
  <2> QED
    BY <1>1, <2>1, Sizes
<1>3. CASE micIn = "ref"
  <2>1. refs = 0 /\ spkOut \in {"pop", "tx"} /\ FromMics <= ToReference
    BY <1>3 DEF TaskCanRun, AudioFlowTypeOK, RefDepth, InTime, PairInv
  <2>2. CASE spkOut = "pop"
    <3>1. ToReference = recv
      BY <2>1, <2>2, <1>1, InputTaken, FewFrames DEF ToReference, FrameIf
    <3>2. recv < S
      BY <2>2, InputTaken
    <3> QED
      BY <3>1, <3>2, <2>1, <1>1, Sizes
  <2>3. CASE spkOut = "tx"
    <3>1. ToReference + send1 = ToSpeaker
      BY <2>1, <2>3, <1>1, FewFrames DEF ToReference, ToSpeaker, FrameIf
    <3>2. send1 + S > SendTicks
      BY <2>3, <1>1 DEF TaskCanRun, Fits
    <3> QED
      BY <3>1, <3>2, <2>1, <1>1, Sizes
  <2> QED
    BY <2>1, <2>2, <2>3
<1> QED
  BY <1>2, <1>3, NeverPushing

LEMMA TickCounts ==
  ASSUME AudioFlowTypeOK, RpcInv, InTime, ~TaskCanRun, Tick
  PROVE  /\ glitch' \cap {"recv", "mics"} = {}
         /\ ToReference' = ToReference + 1 /\ FromMics' = FromMics + 1
         /\ ToSpeaker' <= RecvTicks /\ BeforeWork' = BeforeWork
         /\ ToSend' = IF ToSend > 0 THEN ToSend - 1 ELSE 0
<1> USE AudioFlowAssumption
<1>1. /\ recv \in Nat /\ send \in Nat /\ send1 \in Nat /\ phase \in 0 .. S - 1
      /\ mics \in 0 .. MicFrames
      /\ Frames(spkStage) \in Nat /\ Frames(refs) \in Nat /\ Frames(mics) \in Nat
      /\ Frames(t0Ic) \in Nat /\ Frames(t0Agc) \in Nat
      /\ ToSpeaker \in Nat /\ ToReference \in Nat /\ ToSend \in Nat
      /\ ToSpeaker <= RecvTicks
  BY Counts DEF AudioFlowTypeOK, InTime
<1>2. recv < RecvTicks /\ (send1 = 0 => ToSpeaker < RecvTicks)
  BY RoomForInput
<1>3. /\ recv' = recv + 1
      /\ send' = (IF send > 0 THEN send - 1 ELSE 0)
      /\ send1' = (IF send1 > 0 THEN send1 - 1 ELSE 0)
      /\ phase' = (IF phase = S - 1 THEN 0 ELSE phase + 1)
      /\ UNCHANGED <<spkIn, spkStage, spkOut, refs, micIn, micStage, micOut,
                     t0In, t0Ic, t0Ns, t0Agc, t0Out, rpc>>
  BY <1>1, <1>2, PhaseSteps DEF Tick, spkVars, t0Vars
<1>4. ~(phase = S - 1 /\ mics = MicFrames)
  BY <1>1, BacklogAtRest DEF FromMics
<1>5. glitch' \cap {"recv", "mics"} = {}
  <2>1. recv # RecvTicks /\ ~(phase' = 0 /\ mics = MicFrames)
    BY <1>1, <1>2, <1>3, <1>4
  <2> QED
    BY <2>1 DEF Tick
<1>6. ToReference' = ToReference + 1
  BY <1>1, <1>3 DEF ToReference, FrameIf
<1>7. FromMics' = FromMics + 1
  <2>1. CASE phase = S - 1
    <3>1. mics' = mics + 1
      BY <2>1, <1>1, <1>3, <1>4 DEF Tick
    <3>2. Frames(mics') = Frames(mics) + S
      BY <3>1, Steps
    <3> QED
      BY <2>1, <3>2, <1>1, <1>3 DEF FromMics
  <2>2. CASE phase # S - 1
    <3>1. mics' = mics /\ phase' = phase + 1
      BY <2>2, <1>1, <1>3 DEF Tick
    <3> QED
      BY <3>1, <1>1 DEF FromMics
  <2> QED
    BY <2>1, <2>2
<1>8. ToSpeaker' <= RecvTicks
  <2>1. ToSpeaker' = IF send1 > 0 THEN ToSpeaker ELSE ToSpeaker + 1
    BY <1>1, <1>3 DEF ToSpeaker, FrameIf
  <2> QED
    BY <2>1, <1>1, <1>2, AudioFlowAssumption
<1>9. BeforeWork' = BeforeWork
  BY <1>3 DEF BeforeWork, FrameIf
<1>10. ToSend' = IF ToSend > 0 THEN ToSend - 1 ELSE 0
  <2>1. CASE send > 0
    <3>1. ToSend >= send
      BY <1>1 DEF ToSend, FrameIf
    <3>2. ToSend' = ToSend - 1
      BY <2>1, <1>1, <1>3 DEF ToSend, FrameIf
    <3> QED
      BY <2>1, <3>1, <3>2, <1>1
  <2>2. CASE send = 0
    <3>1. ToSend' = ToSend
      BY <2>2, <1>3 DEF ToSend
    <3> QED
      BY <2>2, <3>1, NothingToSend
  <2> QED
    BY <2>1, <2>2, <1>1
<1> QED
  BY <1>5, <1>6, <1>7, <1>8, <1>9, <1>10

LEMMA TickInTime ==
  ASSUME AudioFlowTypeOK, RpcInv, InTime, ~TaskCanRun, Tick
  PROVE  InTime'
<1> USE AudioFlowAssumption
<1>1. /\ glitch' \cap {"recv", "mics"} = {}
      /\ ToReference' = ToReference + 1 /\ FromMics' = FromMics + 1
      /\ ToSpeaker' <= RecvTicks /\ BeforeWork' = BeforeWork
      /\ ToSend' = IF ToSend > 0 THEN ToSend - 1 ELSE 0
  BY TickCounts
<1>2. /\ ToReference \in Nat /\ FromMics \in Nat /\ ToSend \in Nat
      /\ BeforeWork \in Nat /\ MaxWork \in Nat /\ work \in Nat
      /\ mics \in Nat /\ phase \in 0 .. S - 1
  BY Counts DEF AudioFlowTypeOK
<1>3. UNCHANGED <<micIn, micOut>> /\ micIn \in {"discard", "ref", "mic"}
  BY NeverPushing DEF Tick
<1>4. FromMics' <= Backlog
  BY <1>1, BacklogAtRest
<1>5. PairInv'
  BY <1>1, <1>2, <1>3 DEF InTime, PairInv
<1>6. StartInv'
  <2>1. ASSUME micIn = "discard"
        PROVE  mics' <= 1 /\ (mics' = 1 => phase' = 0)
    <3>1. mics = 0
      BY <2>1, <1>2 DEF TaskCanRun
    <3> QED
      BY <3>1, <1>2 DEF Tick
  <2> QED
    BY <2>1, <1>1, <1>2, <1>3 DEF InTime, StartInv
<1>7. WayInv'
  <2>1. OnTheWay' = IF ToSend > 0 THEN OnTheWay ELSE OnTheWay + 1
    BY <1>1, <1>2 DEF OnTheWay
  <2>2. OnTheWay \in Nat
    BY <1>2 DEF OnTheWay
  <2>3. CASE micOut = "pop"
    <3>1. BeforeWork = 0
      <4>1. micStage = 0
        BY <2>3 DEF TaskCanRun, AudioFlowTypeOK
      <4> QED
        BY <4>1, <2>3, <1>3, FewFrames DEF BeforeWork, FrameIf
    <3>2. OnTheWay + Uncovered(MaxWork) <= MaxWork + Backlog
      BY <2>3, <1>3 DEF InTime, WayInv
    <3>3. OnTheWay = ToSend + FromMics
      BY <3>1, <1>2 DEF OnTheWay
    <3>4. Uncovered(MaxWork) = (IF MaxWork > ToSend THEN MaxWork - ToSend ELSE 0)
      BY DEF Uncovered
    <3>5. Uncovered(MaxWork)' = (IF MaxWork > ToSend' THEN MaxWork - ToSend' ELSE 0)
      BY DEF Uncovered
    <3>6. OnTheWay' + Uncovered(MaxWork)' <= MaxWork + Backlog
      BY <3>2, <3>3, <3>4, <3>5, <2>1, <1>1, <1>2, <1>4, Sizes
    <3> QED
      BY <3>6, <2>3, <1>3, <1>4 DEF WayInv
  <2>4. CASE micOut = "work"
    <3>1. work > 0 /\ work' = work - 1
      BY <2>4, <1>2 DEF TaskCanRun, Tick
    <3>2. OnTheWay + Uncovered(work) <= MaxWork + Backlog
      BY <2>4, <1>3 DEF InTime, WayInv
    <3>3. Uncovered(work) = (IF work > ToSend THEN work - ToSend ELSE 0)
      BY DEF Uncovered
    <3>4. Uncovered(work)' = (IF work' > ToSend' THEN work' - ToSend' ELSE 0)
      BY DEF Uncovered
    <3>5. OnTheWay' + Uncovered(work)' <= MaxWork + Backlog
      BY <3>1, <3>2, <3>3, <3>4, <2>1, <2>2, <1>1, <1>2, Sizes
    <3> QED
      BY <3>5, <2>4, <1>3, <1>4 DEF WayInv
  <2>5. CASE micOut = "send"
    <3>1. ToSend > 0
      BY <2>5, Steps DEF ToSend, FrameIf, AudioFlowTypeOK
    <3>2. OnTheWay <= MaxWork + Backlog
      BY <2>5, <1>3 DEF InTime, WayInv
    <3> QED
      BY <3>1, <3>2, <2>1, <2>5, <1>3, <1>4 DEF WayInv
  <2> QED
    BY <2>3, <2>4, <2>5 DEF AudioFlowTypeOK
<1> QED
  BY <1>1, <1>5, <1>6, <1>7 DEF InTime

\* Late is late for good, so until then each tick found every task waiting.
LEMMA FlowStep == FlowInv /\ [AudioFlowNext]_flowVars => FlowInv'
<1> SUFFICES ASSUME FlowInv, [AudioFlowNext]_flowVars PROVE FlowInv'
  OBVIOUS
<1>1. AudioFlowTypeOK /\ RpcInv /\ AudioFlowTypeOK'
  BY FlowTypeStep DEF FlowInv
<1>2. CASE UNCHANGED flowVars
  BY <1>1, <1>2
  DEF FlowInv, RpcInv, InTime, StartInv, PairInv, WayInv, OnTheWay, Uncovered,
      ToSpeaker, ToReference, FromMics, ToSend, BeforeWork, FrameIf,
      flowVars, i2sVars, spkVars, micVars, t0Vars, clockVars
<1>3. CASE \/ SpeakerInput \/ SpeakerPush \/ SpeakerPop \/ SpeakerOutput
           \/ SpeakerSendsReference
  <2>1. UNCHANGED <<t0Out, rpc, late>>
    BY <1>1, <1>3, SpeakerKeeps DEF t0Vars, clockVars
  <2> QED
    BY <1>1, <1>3, <2>1, SpeakerInTime DEF FlowInv, RpcInv
<1>4. CASE \/ FlushMics \/ Discard \/ TakeReference \/ MicInput \/ MicPush
           \/ MicPop \/ MicWorkDone \/ CrossTiles
  <2>1. UNCHANGED <<t0Out, rpc, late>>
    BY <1>4 DEF FlushMics, Discard, TakeReference, MicInput, MicPush, MicPop,
       MicWorkDone, CrossTiles, t0Vars, clockVars
  <2>2. InTime => InTime'
    BY <1>1, <1>4, FlushInTime, DiscardInTime, TakeReferenceInTime, MicInputInTime,
       MicPushInTime, MicPopInTime, MicWorkDoneInTime, CrossTilesInTime
  <2> QED
    BY <1>1, <2>1, <2>2 DEF FlowInv, RpcInv
<1>5. CASE \/ IcPush \/ NsPop \/ NsPush \/ AgcPop
           \/ RemoteTx \/ HostTx \/ RemoteTxReturns
  <2>1. RpcInv' /\ UNCHANGED late
    BY <1>1, <1>5, TileZeroKeeps DEF clockVars
  <2> QED
    BY <1>1, <1>5, <2>1, TileZeroInTime DEF FlowInv
<1>6. CASE Tick
  <2>1. UNCHANGED <<t0Out, rpc>>
    BY <1>6 DEF Tick, t0Vars
  <2>2. late' = 0 => late = 0 /\ ~TaskCanRun
    BY <1>1, <1>6 DEF Tick, AudioFlowTypeOK
  <2> QED
    BY <1>1, <1>6, <2>1, <2>2, TickInTime DEF FlowInv, RpcInv
<1> QED
  BY <1>2, <1>3, <1>4, <1>5, <1>6 DEF AudioFlowNext, PipelineTask

-----------------------------------------------------------------------------
THEOREM FlowInTime == AudioFlowSpec => []NothingLostInTime
<1>1. FlowInv => NothingLostInTime
  BY DEF FlowInv, InTime, NothingLostInTime
<1> QED
  BY <1>1, FlowInit, FlowStep, PTL DEF AudioFlowSpec

-----------------------------------------------------------------------------
(***************************************************************************)
(* DelayBuffer                                                             *)
(***************************************************************************)
\* The samples since cell i was written; the one at currIdx is the oldest
SamplesAgo(i) == IF i < currIdx THEN currIdx - i ELSE currIdx - i + RingSize

Held(k) == [stream |-> Delayed(delaySamples), age |-> k]

\* Below sinceSet there is the held stream, and the silence of the last change
\* before it for as long as the delay still reaches there.
CellInv ==
  \A i \in 0 .. RingSize - 1 :
    /\ SamplesAgo(i) <= sinceSet => ring[i] = Held(SamplesAgo(i) - 1)
    /\ SamplesAgo(i) > sinceSet /\ SamplesAgo(i) <= sinceSet + Abs(delaySamples)
         => ring[i] = Silence

IndexInv ==
  /\ DOMAIN ring = 0 .. RingSize - 1
  /\ ring = [i \in 0 .. RingSize - 1 |-> ring[i]]
  /\ currIdx \in 0 .. RingSize - 1
  /\ delaySamples \in 1 - RingSize .. RingSize - 1
  /\ sinceSet \in 0 .. RingSize

DelayInv == IndexInv /\ CellInv /\ DelayedBySetting

\* One turn of the ring, which is all the code's sums need
LEMMA WrapOnce ==
  ASSUME NEW x \in 0 .. 2 * RingSize - 1
  PROVE  x % RingSize = IF x < RingSize THEN x ELSE x - RingSize
<1> USE DelayBufferAssumption
<1>1. CASE x < RingSize
  BY <1>1
<1>2. CASE x >= RingSize
  BY <1>2
<1> QED
  BY <1>1, <1>2

LEMMA NextIndex ==
  ASSUME currIdx \in 0 .. RingSize - 1
  PROVE  (currIdx + 1) % RingSize = IF currIdx + 1 < RingSize THEN currIdx + 1 ELSE 0
<1>1. currIdx + 1 \in 0 .. 2 * RingSize - 1
  BY DelayBufferAssumption
<1> QED
  BY <1>1, WrapOnce, DelayBufferAssumption

LEMMA BackIndex ==
  ASSUME currIdx \in 0 .. RingSize - 1, NEW n \in 0 .. RingSize - 1
  PROVE  (RingSize + currIdx - n) % RingSize
           = IF n > currIdx THEN currIdx - n + RingSize ELSE currIdx - n
<1>1. RingSize + currIdx - n \in 0 .. 2 * RingSize - 1
  BY DelayBufferAssumption
<1> QED
  BY <1>1, WrapOnce, DelayBufferAssumption

LEMMA AbsBound ==
  ASSUME NEW d \in 1 - RingSize .. RingSize - 1
  PROVE  Abs(d) \in 0 .. RingSize - 1 /\ (Abs(d) = 0 <=> d = 0)
BY DelayBufferAssumption DEF Abs

\* A sample that is held gets older by one
LEMMA HeldOlder ==
  ASSUME NEW k \in Nat
  PROVE  Older(Held(k)) = Held(k + 1)
<1>1. Held(k) # Silence
  BY DEF Held, Silence, Delayed
<1> QED
  BY <1>1 DEF Older, Held

LEMMA InitInv == DelayBufferInit => DelayInv
<1> SUFFICES ASSUME DelayBufferInit PROVE DelayInv
  OBVIOUS
<1> USE DelayBufferAssumption DEF DelayBufferInit
<1>1. IndexInv
  BY DEF IndexInv
<1>2. CellInv
  BY DEF CellInv, SamplesAgo, Abs
<1>3. DelayedBySetting
  BY DEF DelayedBySetting
<1> QED
  BY <1>1, <1>2, <1>3 DEF DelayInv

LEMMA SampleInv == DelayInv /\ DelaySample => DelayInv'
<1> SUFFICES ASSUME DelayInv, DelaySample PROVE DelayInv'
  OBVIOUS
<1> USE DelayBufferAssumption
<1> DEFINE new == [stream |-> Delayed(delaySamples), age |-> 0]
           a == Abs(delaySamples)
           delayIdx == (RingSize + currIdx - a) % RingSize
<1>1. /\ DOMAIN ring = 0 .. RingSize - 1
      /\ currIdx \in 0 .. RingSize - 1 /\ sinceSet \in 0 .. RingSize
      /\ delaySamples \in 1 - RingSize .. RingSize - 1
      /\ a \in 0 .. RingSize - 1
  BY AbsBound DEF DelayInv, IndexInv
<1>2. /\ ring' = [i \in 0 .. RingSize - 1 |->
                    IF i = currIdx THEN new ELSE Older(ring[i])]
      /\ delayed' = ring'[delayIdx]
      /\ currIdx' = (currIdx + 1) % RingSize
      /\ sinceSet' = (IF sinceSet < RingSize THEN sinceSet + 1 ELSE sinceSet)
      /\ delaySamples' = delaySamples
  BY DEF DelaySample
<1>3. currIdx' = IF currIdx + 1 < RingSize THEN currIdx + 1 ELSE 0
  BY <1>1, <1>2, NextIndex
<1>4. delayIdx = IF a > currIdx THEN currIdx - a + RingSize ELSE currIdx - a
  <2> HIDE DEF a
  <2> QED
    BY <1>1, BackIndex
<1> HIDE DEF a, delayIdx
<1>5. Held(0) = new /\ \A k : Held(k)' = Held(k)
  BY <1>2 DEF Held
<1>6. IndexInv'
  BY <1>1, <1>2, <1>3 DEF IndexInv
<1>7. \A i \in 0 .. RingSize - 1 :
        SamplesAgo(i)' = IF i = currIdx THEN 1 ELSE SamplesAgo(i) + 1
  BY <1>1, <1>3 DEF SamplesAgo
<1>8. \A i \in 0 .. RingSize - 1 : SamplesAgo(i) \in 1 .. RingSize
  BY <1>1 DEF SamplesAgo
<1>9. \A i \in 0 .. RingSize - 1 : i # currIdx => SamplesAgo(i) < RingSize
  BY <1>1 DEF SamplesAgo
<1>10. CellInv'
  <2> SUFFICES ASSUME NEW i \in 0 .. RingSize - 1
               PROVE  /\ SamplesAgo(i)' <= sinceSet' => ring'[i] = Held(SamplesAgo(i)' - 1)
                      /\ SamplesAgo(i)' > sinceSet' /\ SamplesAgo(i)' <= sinceSet' + a
                           => ring'[i] = Silence
    BY <1>2, <1>5 DEF CellInv, a
  <2>1. CASE i = currIdx
    BY <2>1, <1>1, <1>2, <1>5, <1>7
  <2>2. CASE i # currIdx
    <3> DEFINE k == SamplesAgo(i)
    <3>1. k \in 1 .. RingSize - 1 /\ SamplesAgo(i)' = k + 1 /\ ring'[i] = Older(ring[i])
      BY <2>2, <1>2, <1>7, <1>8, <1>9
    <3>2. /\ k <= sinceSet => ring[i] = Held(k - 1)
          /\ k > sinceSet /\ k <= sinceSet + a => ring[i] = Silence
      BY DEF DelayInv, CellInv, a
    <3> HIDE DEF k
    <3>3. CASE k <= sinceSet
      <4>1. k - 1 \in Nat /\ (k - 1) + 1 = k /\ SamplesAgo(i)' - 1 = k
        BY <3>1
      <4>2. Older(Held(k - 1)) = Held(k)
        BY <4>1, HeldOlder
      <4>3. ring'[i] = Held(SamplesAgo(i)' - 1)
        BY <4>1, <4>2, <3>1, <3>2, <3>3
      <4>4. ~(SamplesAgo(i)' > sinceSet')
        BY <3>1, <3>3, <1>1, <1>2
      <4> QED
        BY <4>3, <4>4
    <3>4. CASE k > sinceSet
      <4>1. Older(Silence) = Silence
        BY DEF Older
      <4> QED
        BY <4>1, <3>1, <3>2, <3>4, <1>1, <1>2
    <3> QED
      BY <3>1, <3>3, <3>4, <1>1
  <2> QED
    BY <2>1, <2>2
<1>11. DelayedBySetting'
  <2> SUFFICES ASSUME sinceSet' > 0
               PROVE  delayed' = IF sinceSet' <= a THEN Silence ELSE Held(a)
    BY <1>2 DEF DelayedBySetting, Held, a
  <2>1. CASE a = 0
    <3>1. delayed' = new
      BY <2>1, <1>1, <1>2, <1>4
    <3> QED
      BY <3>1, <2>1, <1>1, <1>2, <1>5
  <2>2. CASE a > 0
    <3>1. /\ delayIdx \in 0 .. RingSize - 1 /\ delayIdx # currIdx
          /\ SamplesAgo(delayIdx) = a
      BY <2>2, <1>1, <1>4 DEF SamplesAgo
    <3>2. /\ a <= sinceSet => ring[delayIdx] = Held(a - 1)
          /\ a > sinceSet => ring[delayIdx] = Silence
      BY <3>1, <1>1 DEF DelayInv, CellInv, a
    <3>3. delayed' = Older(ring[delayIdx])
      BY <3>1, <1>2
    <3>4. CASE a <= sinceSet
      <4>1. a - 1 \in Nat /\ (a - 1) + 1 = a /\ ~(sinceSet' <= a)
        BY <3>4, <2>2, <1>1, <1>2
      <4>2. Older(Held(a - 1)) = Held(a)
        BY <4>1, HeldOlder
      <4> QED
        BY <4>1, <4>2, <3>2, <3>3, <3>4
    <3>5. CASE a > sinceSet
      BY <3>2, <3>3, <3>5, <1>1, <1>2 DEF Older
    <3> QED
      BY <3>4, <3>5, <1>1
  <2> QED
    BY <2>1, <2>2, <1>1
<1> QED
  BY <1>6, <1>10, <1>11 DEF DelayInv

\* Where reset_partial_delay_buffer has wrapped around, and where not, it clears
\* the samples that a line of that delay still has to give.
LEMMA ClearedIsRecent ==
  ASSUME currIdx \in 0 .. RingSize - 1, NEW n \in 1 .. RingSize - 1,
         NEW i \in 0 .. RingSize - 1
  PROVE  i \in Cleared(n) <=> SamplesAgo(i) <= n
<1> USE DelayBufferAssumption
<1> DEFINE start == (RingSize + currIdx - n) % RingSize
<1>2. start = IF n > currIdx THEN currIdx - n + RingSize ELSE currIdx - n
  BY BackIndex
<1>3. Cleared(n) = IF start < currIdx THEN start .. start + n - 1
                   ELSE 0 .. currIdx - 1
                        \cup RingSize - (n - currIdx) .. RingSize - 1
  BY DEF Cleared
<1> HIDE DEF start
<1>4. CASE n <= currIdx
  BY <1>2, <1>3, <1>4 DEF SamplesAgo
<1>5. CASE n > currIdx
  BY <1>2, <1>3, <1>5 DEF SamplesAgo
<1> QED
  BY <1>4, <1>5

LEMMA FrameInv == DelayInv /\ FrameEnds => DelayInv'
<1> SUFFICES ASSUME DelayInv, FrameEnds PROVE DelayInv'
  OBVIOUS
<1> USE DelayBufferAssumption
<1>1. CASE UNCHANGED <<ring, delaySamples, delayed, sinceSet>>
  BY <1>1
  DEF FrameEnds, DelayInv, IndexInv, CellInv, SamplesAgo, Held, DelayedBySetting
<1>2. ASSUME NEW d \in Delays,
             delaySamples' = d,
             ring' = [i \in 0 .. RingSize - 1 |->
                        IF d # 0 /\ i \in Cleared(Abs(d)) THEN Silence ELSE ring[i]],
             sinceSet' = 0
      PROVE  DelayInv'
  <2>1. /\ currIdx' = currIdx /\ currIdx \in 0 .. RingSize - 1
        /\ d \in 1 - RingSize .. RingSize - 1
    BY DEF FrameEnds, DelayInv, IndexInv
  <2>2. Abs(d) \in 0 .. RingSize - 1 /\ (Abs(d) = 0 <=> d = 0)
    BY <2>1, AbsBound
  <2>3. IndexInv'
    BY <1>2, <2>1 DEF IndexInv
  <2>4. CellInv'
    <3> SUFFICES ASSUME NEW i \in 0 .. RingSize - 1
                 PROVE  /\ ~(SamplesAgo(i)' <= 0)
                        /\ SamplesAgo(i)' <= Abs(d) => ring'[i] = Silence
      BY <1>2, <2>2 DEF CellInv
    <3>1. SamplesAgo(i)' = SamplesAgo(i) /\ SamplesAgo(i) \in 1 .. RingSize
      BY <2>1 DEF SamplesAgo
    <3>2. CASE Abs(d) = 0
      BY <3>1, <3>2
    <3>3. CASE Abs(d) > 0 /\ SamplesAgo(i) <= Abs(d)
      <4>1. i \in Cleared(Abs(d))
        BY <3>3, <2>1, <2>2, ClearedIsRecent
      <4> QED
        BY <4>1, <3>1, <3>3, <2>2, <1>2
    <3> QED
      BY <3>1, <3>2, <3>3, <2>2
  <2>5. DelayedBySetting'
    BY <1>2 DEF DelayedBySetting
  <2> QED
    BY <2>3, <2>4, <2>5 DEF DelayInv
<1> QED
  BY <1>1, <1>2 DEF FrameEnds

-----------------------------------------------------------------------------
\* The delay line gives silence for the length of its delay after a change, and
\* then the held stream exactly as late as ADEC has set it.
THEOREM DelayCorrect == DelayBufferSpec => []DelayedBySetting
<1>1. DelayBufferInit => DelayInv
  BY InitInv
<1>2. DelayInv /\ [DelayBufferNext]_delayVars => DelayInv'
  <2>1. DelayInv /\ UNCHANGED delayVars => DelayInv'
    BY DEF delayVars, DelayInv, IndexInv, CellInv, SamplesAgo, Held, DelayedBySetting
  <2> QED
    BY <2>1, SampleInv, FrameInv DEF DelayBufferNext
<1>3. DelayInv => DelayedBySetting
  BY DEF DelayInv
<1> QED
  BY <1>1, <1>2, <1>3, PTL DEF DelayBufferSpec
=============================================================================
