----------------------------- MODULE AudioFlow -----------------------------
(***************************************************************************)
(* The audio paths of the default build: the callbacks of main.c, the      *)
(* speaker pipeline, the two halves of the microphone pipeline             *)
(* (fixed_delay), and the remote I2S calls of tile 0 (rtos_i2s_rpc.c).     *)
(*                                                                         *)
(*   I2S in -> speaker pipeline -> I2S out 1 (DAC)                         *)
(*                   |                                                     *)
(*             ref_input_queue                                             *)
(*                   |                                                     *)
(*   mics ---> microphone pipeline, tile 1 -> tile 0 -> I2S out 0          *)
(*                                                                         *)
(* I2S and the microphones share one clock, whose tick is the S-th part of *)
(* a pipeline frame and waits for nobody.  Everything else is a task that  *)
(* blocks on the one before or after it.  A buffer of I2S is a number of   *)
(* ticks' worth of samples here (I2s and FrameFifo say how it works), and  *)
(* a frame has no content: what matters is who waits for whom.             *)
(*                                                                         *)
(* generic_pipeline, the microphone driver and the intertile channel are   *)
(* external.  A task runs before the next tick when it can, but for the    *)
(* ticks its signal processing takes, and a bounded number of late ones.   *)
(***************************************************************************)
EXTENDS Integers

CONSTANTS
  S,                \* ticks to a frame of a pipeline
  RecvTicks,        \* rtos_i2s_start: 2.2 frames
  SendTicks,        \* rtos_i2s_start: 1.2 frames, for each output
  MicFrames,        \* the frames that the microphone driver buffers
  StageDepth,       \* the frames between two stages of a generic_pipeline
  MaxWork,          \* ticks the stages of tile 1 take at most for a frame
  MostLate          \* bound: ticks in which a task that could run does not

ASSUME AudioFlowAssumption ==
  /\ S \in Nat \ {0}
  /\ RecvTicks \in Nat /\ SendTicks \in Nat
  /\ MicFrames \in Nat \ {0} /\ StageDepth \in Nat \ {0}
  /\ MaxWork \in 0 .. S - 1 /\ MostLate \in Nat

\* How the sizes of the code go together: a frame fits each buffer, the input
\* holds at most what an output and the microphone driver hold together, and
\* the stages on tile 1 have room for what waits when the flush has ended.
ASSUME BufferAssumption ==
  /\ S <= RecvTicks /\ S <= SendTicks
  /\ RecvTicks < S * MicFrames + SendTicks
  /\ RecvTicks + MaxWork < S * (StageDepth + 1) + SendTicks

VARIABLES
  recv, send, send1,    \* the ticks' worth in the three buffers of the driver
  phase, mics,          \* ticks since the last microphone frame; frames there
  spkIn, spkStage, spkOut,     \* speaker pipeline: first task, queue, last task
  refs,                 \* ref_input_queue
  micIn, micStage, micOut, work,  \* microphone pipeline on tile 1
  t0In, t0Ic, t0Ns, t0Agc, t0Out, \* its other half on tile 0: three tasks
  rpc,                  \* i2s_rpc_thread, on tile 1
  late,                 \* late ticks so far
  glitch                \* where the last tick lost samples or found none

i2sVars == <<recv, send, send1>>
spkVars == <<spkIn, spkStage, spkOut>>
micVars == <<micIn, micStage, micOut, work>>
t0Vars == <<t0In, t0Ic, t0Ns, t0Agc, t0Out>>
clockVars == <<phase, late, glitch>>
flowVars == <<i2sVars, mics, spkVars, refs, micVars, t0Vars, rpc, clockVars>>

RefDepthOfNone == 0
RefDepth == 2       \* rtos_osal_queue_create in startup_task

AudioFlowTypeOK ==
  /\ recv \in 0 .. RecvTicks /\ send \in 0 .. SendTicks /\ send1 \in 0 .. SendTicks
  /\ phase \in 0 .. S - 1 /\ mics \in 0 .. MicFrames
  /\ spkIn \in {"rx", "push"} /\ spkStage \in 0 .. StageDepth
  /\ spkOut \in {"pop", "tx", "ref"} /\ refs \in 0 .. RefDepth
  /\ micIn \in {"flush", "discard", "ref", "mic", "push"}
  /\ micStage \in 0 .. StageDepth /\ micOut \in {"pop", "work", "send"}
  /\ work \in 0 .. MaxWork
  /\ t0In \in {"rx", "push"} /\ t0Ic \in 0 .. StageDepth
  /\ t0Ns \in {"pop", "push"} /\ t0Agc \in 0 .. StageDepth
  /\ t0Out \in {"pop", "call", "wait"}
  /\ rpc \in {"request", "tx", "response"}
  /\ late \in 0 .. MostLate
  /\ glitch \subseteq {"recv", "send", "send1", "mics"}

\* startup_task: platform_start has started I2S and the microphones some time
\* before the pipelines
AudioFlowInit ==
  /\ recv \in 0 .. RecvTicks /\ send = 0 /\ send1 = 0
  /\ phase \in 0 .. S - 1 /\ mics \in 0 .. MicFrames
  /\ spkIn = "rx" /\ spkStage = 0 /\ spkOut = "pop" /\ refs = 0
  /\ micIn = "flush" /\ micStage = 0 /\ micOut = "pop" /\ work = 0
  /\ t0In = "rx" /\ t0Ic = 0 /\ t0Ns = "pop" /\ t0Agc = 0 /\ t0Out = "pop"
  /\ rpc = "request"
  /\ late = 0 /\ glitch = {}

-----------------------------------------------------------------------------
(***************************************************************************)
(* Speaker pipeline                                                        *)
(***************************************************************************)
\* speaker_pipeline_input: rtos_i2s_rx of a frame
SpeakerInput ==
  /\ spkIn = "rx" /\ recv >= S
  /\ recv' = recv - S /\ spkIn' = "push"
  /\ UNCHANGED <<send, send1, mics, spkStage, spkOut, refs, micVars, t0Vars, rpc,
                 clockVars>>

SpeakerPush ==
  /\ spkIn = "push" /\ spkStage < StageDepth
  /\ spkStage' = spkStage + 1 /\ spkIn' = "rx"
  /\ UNCHANGED <<i2sVars, mics, spkOut, refs, micVars, t0Vars, rpc, clockVars>>

SpeakerPop ==
  /\ spkOut = "pop" /\ spkStage > 0
  /\ spkStage' = spkStage - 1 /\ spkOut' = "tx"
  /\ UNCHANGED <<i2sVars, mics, spkIn, refs, micVars, t0Vars, rpc, clockVars>>

\* The frame goes to the DAC's buffer once it fits
FitsTwice == send1 + 2 * S <= SendTicks
Fits == send1 + S <= SendTicks

\* speaker_pipeline_output: rtos_i2s_tx_1, then the copy to the queue
SpeakerOutput ==
  /\ spkOut = "tx" /\ Fits
  /\ send1' = send1 + S /\ spkOut' = "ref"
  /\ UNCHANGED <<recv, send, mics, spkIn, spkStage, refs, micVars, t0Vars, rpc,
                 clockVars>>

SpeakerSendsReference ==
  /\ spkOut = "ref" /\ refs < RefDepth
  /\ refs' = refs + 1 /\ spkOut' = "pop"
  /\ UNCHANGED <<i2sVars, mics, spkIn, spkStage, micVars, t0Vars, rpc, clockVars>>

-----------------------------------------------------------------------------
(***************************************************************************)
(* Microphone pipeline, tile 1: audio_pipeline_input and the stages        *)
(***************************************************************************)
\* The loop over flushed: it reads without waiting until nothing is there,
\* and then waits for one frame more
FlushMics ==
  /\ micIn = "flush"
  /\ IF mics > 0 THEN mics' = mics - 1 /\ UNCHANGED micIn
     ELSE micIn' = "discard" /\ UNCHANGED mics
  /\ UNCHANGED <<i2sVars, spkVars, refs, micStage, micOut, work, t0Vars, rpc,
                 clockVars>>

Discard ==
  /\ micIn = "discard" /\ mics > 0
  /\ mics' = mics - 1 /\ micIn' = "ref"
  /\ UNCHANGED <<i2sVars, spkVars, refs, micStage, micOut, work, t0Vars, rpc,
                 clockVars>>

TakeReference ==
  /\ micIn = "ref" /\ refs > 0
  /\ refs' = refs - 1 /\ micIn' = "mic"
  /\ UNCHANGED <<i2sVars, mics, spkVars, micStage, micOut, work, t0Vars, rpc,
                 clockVars>>

MicInput ==
  /\ micIn = "mic" /\ mics > 0
  /\ mics' = mics - 1 /\ micIn' = "push"
  /\ UNCHANGED <<i2sVars, spkVars, refs, micStage, micOut, work, t0Vars, rpc,
                 clockVars>>

MicPush ==
  /\ micIn = "push" /\ micStage < StageDepth
  /\ micStage' = micStage + 1 /\ micIn' = "ref"
  /\ UNCHANGED <<i2sVars, mics, spkVars, refs, micOut, work, t0Vars, rpc,
                 clockVars>>

\* stage_aec: the filter takes its time
MicPop ==
  /\ micOut = "pop" /\ micStage > 0
  /\ micStage' = micStage - 1 /\ micOut' = "work"
  /\ work' \in 0 .. MaxWork
  /\ UNCHANGED <<i2sVars, mics, spkVars, refs, micIn, t0Vars, rpc, clockVars>>

MicWorkDone ==
  /\ micOut = "work" /\ work = 0
  /\ micOut' = "send"
  /\ UNCHANGED <<i2sVars, mics, spkVars, refs, micIn, micStage, work, t0Vars, rpc,
                 clockVars>>

\* audio_pipeline_output_i on tile 1 meets audio_pipeline_input_i on tile 0
CrossTiles ==
  /\ micOut = "send" /\ t0In = "rx"
  /\ micOut' = "pop" /\ t0In' = "push"
  /\ UNCHANGED <<i2sVars, mics, spkVars, refs, micIn, micStage, work, t0Ic, t0Ns,
                 t0Agc, t0Out, rpc, clockVars>>

-----------------------------------------------------------------------------
(***************************************************************************)
(* Microphone pipeline, tile 0: stages vnr_and_ic, ns, agc                 *)
(***************************************************************************)
IcPush ==
  /\ t0In = "push" /\ t0Ic < StageDepth
  /\ t0Ic' = t0Ic + 1 /\ t0In' = "rx"
  /\ UNCHANGED <<i2sVars, mics, spkVars, refs, micVars, t0Ns, t0Agc, t0Out, rpc,
                 clockVars>>

NsPop ==
  /\ t0Ns = "pop" /\ t0Ic > 0
  /\ t0Ic' = t0Ic - 1 /\ t0Ns' = "push"
  /\ UNCHANGED <<i2sVars, mics, spkVars, refs, micVars, t0In, t0Agc, t0Out, rpc,
                 clockVars>>

NsPush ==
  /\ t0Ns = "push" /\ t0Agc < StageDepth
  /\ t0Agc' = t0Agc + 1 /\ t0Ns' = "pop"
  /\ UNCHANGED <<i2sVars, mics, spkVars, refs, micVars, t0In, t0Ic, t0Out, rpc,
                 clockVars>>

AgcPop ==
  /\ t0Out = "pop" /\ t0Agc > 0
  /\ t0Agc' = t0Agc - 1 /\ t0Out' = "call"
  /\ UNCHANGED <<i2sVars, mics, spkVars, refs, micVars, t0In, t0Ic, t0Ns, rpc,
                 clockVars>>

\* audio_pipeline_output: rtos_i2s_tx is i2s_remote_tx on this tile.  The call
\* holds the driver's mutex, which nobody else wants, until the response.
RemoteTx ==
  /\ t0Out = "call" /\ rpc = "request"
  /\ t0Out' = "wait" /\ rpc' = "tx"
  /\ UNCHANGED <<i2sVars, mics, spkVars, refs, micVars, t0In, t0Ic, t0Ns, t0Agc,
                 clockVars>>

\* i2s_tx_rpc_host: rtos_i2s_tx on the tile of the driver
HostTx ==
  /\ rpc = "tx" /\ send + S <= SendTicks
  /\ send' = send + S /\ rpc' = "response"
  /\ UNCHANGED <<recv, send1, mics, spkVars, refs, micVars, t0Vars, clockVars>>

RemoteTxReturns ==
  /\ rpc = "response" /\ t0Out = "wait"
  /\ rpc' = "request" /\ t0Out' = "pop"
  /\ UNCHANGED <<i2sVars, mics, spkVars, refs, micVars, t0In, t0Ic, t0Ns, t0Agc,
                 clockVars>>

-----------------------------------------------------------------------------
PipelineTask ==
  \/ SpeakerInput \/ SpeakerPush \/ SpeakerPop \/ SpeakerOutput
  \/ SpeakerSendsReference
  \/ FlushMics \/ Discard \/ TakeReference \/ MicInput \/ MicPush
  \/ MicPop \/ MicWorkDone \/ CrossTiles
  \/ IcPush \/ NsPop \/ NsPush \/ AgcPop
  \/ RemoteTx \/ HostTx \/ RemoteTxReturns

\* PipelineTask is enabled: the guards of its actions, in the order of the pipelines
TaskCanRun ==
  \/ spkIn = "rx" /\ recv >= S
  \/ spkIn = "push" /\ spkStage < StageDepth
  \/ spkOut = "pop" /\ spkStage > 0
  \/ spkOut = "tx" /\ Fits
  \/ spkOut = "ref" /\ refs < RefDepth
  \/ micIn = "flush"
  \/ micIn \in {"discard", "mic"} /\ mics > 0
  \/ micIn = "ref" /\ refs > 0
  \/ micIn = "push" /\ micStage < StageDepth
  \/ micOut = "pop" /\ micStage > 0
  \/ micOut = "work" /\ work = 0
  \/ micOut = "send" /\ t0In = "rx"
  \/ t0In = "push" /\ t0Ic < StageDepth
  \/ t0Ns = "pop" /\ t0Ic > 0
  \/ t0Ns = "push" /\ t0Agc < StageDepth
  \/ t0Out = "pop" /\ t0Agc > 0
  \/ t0Out = "call" /\ rpc = "request"
  \/ t0Out = "wait" /\ rpc = "response"
  \/ rpc = "tx" /\ send + S <= SendTicks

\* A full receive buffer loses the tick's samples, an empty send buffer sends
\* silence, and the microphone driver drops a frame it has no room for.
Tick ==
  /\ TaskCanRun => late < MostLate
  /\ late' = IF TaskCanRun THEN late + 1 ELSE late
  /\ recv' = IF recv < RecvTicks THEN recv + 1 ELSE recv
  /\ send' = IF send > 0 THEN send - 1 ELSE 0
  /\ send1' = IF send1 > 0 THEN send1 - 1 ELSE 0
  /\ phase' = (phase + 1) % S
  /\ mics' = IF phase' = 0 /\ mics < MicFrames THEN mics + 1 ELSE mics
  /\ work' = IF work > 0 THEN work - 1 ELSE 0
  /\ glitch' = (IF recv = RecvTicks THEN {"recv"} ELSE {})
               \cup (IF send = 0 THEN {"send"} ELSE {})
               \cup (IF send1 = 0 THEN {"send1"} ELSE {})
               \cup (IF phase' = 0 /\ mics = MicFrames THEN {"mics"} ELSE {})
  /\ UNCHANGED <<spkVars, refs, micIn, micStage, micOut, t0Vars, rpc>>

AudioFlowNext == PipelineTask \/ Tick

\* Every task gets to run; the clock does not stop.
AudioFlowFairness == WF_flowVars(PipelineTask) /\ WF_flowVars(Tick)

AudioFlowSpec == AudioFlowInit /\ [][AudioFlowNext]_flowVars /\ AudioFlowFairness

-----------------------------------------------------------------------------
\* Once the pipelines run, no sample is lost and none is missing, in any of
\* the three buffers or from the microphones, for good: the tasks that block on
\* each other across both pipelines and tiles (main.c, rtos_i2s_rpc.c) come to
\* a steady state, whatever was there when they started.
SteadyFlow == <>[](glitch = {})

\* As long as no task was late, nothing that came in is lost, not even at the
\* start: the flush of audio_pipeline_input, the sizes of rtos_i2s_start and
\* the depth of ref_input_queue leave room for the backlog they start with.
NothingLostInTime == late = 0 => glitch \cap {"recv", "mics"} = {}
=============================================================================
