----------------------------- MODULE DelayBuffer -----------------------------
(***************************************************************************)
(* The delay line in front of the echo canceller (adec/stage1): a ring of  *)
(* samples holds the microphone's signal back while the delay is positive  *)
(* and the reference's while it is negative, and stage_1_process_frame     *)
(* changes the delay between two frames when ADEC, which is external, asks.*)
(*                                                                         *)
(* A sample is known by its stream and by how many samples ago it came.    *)
(* The channels of a stream are treated alike, one after the other: this   *)
(* is one of them.                                                         *)
(***************************************************************************)
EXTENDS Integers

CONSTANTS
  RingSize,         \* DELAY_BUF_MAX_DELAY_SAMPLES: 2400
  FrameAdvance,     \* AP_FRAME_ADVANCE: 240
  Delays            \* the delays that ADEC asks for, in samples

ASSUME DelayBufferAssumption ==
  /\ RingSize \in Nat \ {0} /\ FrameAdvance \in Nat \ {0}
  /\ Delays \subseteq 1 - RingSize .. RingSize - 1

VARIABLES
  ring,             \* delay_buffer[ch]
  currIdx,          \* curr_idx[ch]
  delaySamples,     \* delay_samples
  inFrame,          \* the samples of the frame that are through
  estimating,       \* delay_estimator_enabled
  delayed,          \* the last sample out of the line
  sinceSet          \* history: samples since the delay was set, up to RingSize

delayVars == <<ring, currIdx, delaySamples, inFrame, estimating, delayed, sinceSet>>

Silence == [stream |-> "none", age |-> 0]
Abs(n) == IF n < 0 THEN -n ELSE n
Delayed(d) == IF d >= 0 THEN "mic" ELSE "ref"

DelayBufferTypeOK ==
  LET Sample == [stream : {"mic", "ref", "none"}, age : 0 .. RingSize]
  IN /\ ring \in [0 .. RingSize - 1 -> Sample] /\ delayed \in Sample
     /\ currIdx \in 0 .. RingSize - 1
     /\ delaySamples \in Delays \cup {0}
     /\ inFrame \in 0 .. FrameAdvance
     /\ estimating \in BOOLEAN
     /\ sinceSet \in 0 .. RingSize

\* delay_buffer_init, from stage_1_init
DelayBufferInit ==
  /\ ring = [i \in 0 .. RingSize - 1 |-> Silence]
  /\ currIdx = 0 /\ delaySamples = 0 /\ inFrame = 0
  /\ estimating = FALSE
  /\ delayed = Silence /\ sinceSet = 0

Older(sample) ==
  IF sample = Silence THEN Silence ELSE [sample EXCEPT !.age = @ + 1]

\* get_delayed_frame: get_delayed_sample, for a sample of the frame
DelaySample ==
  /\ inFrame < FrameAdvance
  /\ LET new == [stream |-> Delayed(delaySamples), age |-> 0]
         delayIdx == (RingSize + currIdx - Abs(delaySamples)) % RingSize
     IN /\ ring' = [i \in 0 .. RingSize - 1 |->
                      IF i = currIdx THEN new ELSE Older(ring[i])]
        /\ delayed' = ring'[delayIdx]
  /\ currIdx' = (currIdx + 1) % RingSize
  /\ inFrame' = inFrame + 1
  /\ sinceSet' = IF sinceSet < RingSize THEN sinceSet + 1 ELSE sinceSet
  /\ UNCHANGED <<delaySamples, estimating>>

\* reset_partial_delay_buffer: the cells it clears, with a start that has not
\* wrapped around, and with one that has
ClearedInOnePiece(n) ==
  LET start == (RingSize + currIdx - n) % RingSize
  IN start .. start + n - 1
Cleared(n) ==
  LET start == (RingSize + currIdx - n) % RingSize
      remaining == n - currIdx
  IN IF start < currIdx THEN start .. start + n - 1
     ELSE 0 .. currIdx - 1 \cup RingSize - remaining .. RingSize - 1

\* The rest of stage_1_process_frame.  ADEC turns the estimation of the delay
\* on and off, and may ask for another delay.
FrameEnds ==
  /\ inFrame = FrameAdvance
  /\ inFrame' = 0
  /\ estimating' \in BOOLEAN
  /\ \/ UNCHANGED <<ring, delaySamples, delayed, sinceSet>>
     \/ \E d \in Delays :
          /\ delaySamples' = d
          /\ ring' = [i \in 0 .. RingSize - 1 |->
                        IF d # 0 /\ i \in Cleared(Abs(d)) THEN Silence ELSE ring[i]]
          /\ delayed' = Silence /\ sinceSet' = 0
  /\ UNCHANGED currIdx

DelayBufferNext == DelaySample \/ FrameEnds

DelayBufferSpec == DelayBufferInit /\ [][DelayBufferNext]_delayVars

-----------------------------------------------------------------------------
\* After a change of the delay the line gives silence for as many samples as
\* the delay has, and from then on the held stream exactly that much later:
\* never a sample of the other stream, nor one of the time before.
\* get_delayed_sample and reset_partial_delay_buffer, in delay_buffer.c
DelayedBySetting ==
  sinceSet > 0 =>
    delayed = IF sinceSet <= Abs(delaySamples) THEN Silence
              ELSE [stream |-> Delayed(delaySamples), age |-> Abs(delaySamples)]
=============================================================================
