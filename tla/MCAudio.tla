------------------------------ MODULE MCAudio ------------------------------
(***************************************************************************)
(* USB audio (its sample paths, the task of the adaptive rate and the      *)
(* measurement that this task calls), the audio paths of the firmware and  *)
(* the delay line, as parts of one run: each state belongs to the part     *)
(* that Init chose, and the others rest.                                   *)
(***************************************************************************)
EXTENDS UsbAudio, AdaptiveRate, RateWindow, AudioFlow, DelayBuffer

CONSTANT Parts      \* the parts of a run

MCDelays == {-3, -1, 0, 2, 3}

VARIABLE part

allVars == <<usbVars, rateVars, windowVars, flowVars, delayVars, part>>

AudioInit ==
  /\ part \in Parts
  /\ UsbAudioInit /\ AdaptiveRateInit /\ WindowInit
  /\ AudioFlowInit /\ DelayBufferInit
  /\ part # "flow" => recv = 0 /\ phase = 0 /\ mics = 0

AudioNext ==
  /\ UNCHANGED part
  /\ \/ part = "samples" /\ UsbAudioNext
        /\ UNCHANGED <<rateVars, windowVars, flowVars, delayVars>>
     \/ part = "task" /\ AdaptiveRateNext
        /\ UNCHANGED <<usbVars, windowVars, flowVars, delayVars>>
     \/ part = "window" /\ WindowNext
        /\ UNCHANGED <<usbVars, rateVars, flowVars, delayVars>>
     \/ part = "flow" /\ AudioFlowNext
        /\ UNCHANGED <<usbVars, rateVars, windowVars, delayVars>>
     \/ part = "delay" /\ DelayBufferNext
        /\ UNCHANGED <<usbVars, rateVars, windowVars, flowVars>>

\* UsbAudioFairness and AudioFlowFairness, each for the part it belongs to
PartFairness ==
  /\ WF_usbVars(part = "samples" /\ Reader)
  /\ WF_usbVars(part = "samples" /\ outPc # "failed" /\ SpeakerReceives)
  /\ WF_usbVars(part = "samples" /\ outPc # "failed" /\ Callback)
  /\ WF_flowVars(part = "flow" /\ PipelineTask) /\ WF_flowVars(part = "flow" /\ Tick)

AudioSpec == AudioInit /\ [][AudioNext]_allVars /\ PartFairness
=============================================================================
