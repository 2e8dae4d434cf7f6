SPECIFICATION FairSpec
CONSTANTS
  Lanes = {"recv", "send_1"}
  RecvBufSize = 3
  SendBufSize = 3
  FrameCounts = {2}
  CounterModulus = 6
  MayTimeOut = TRUE
  ValueModulus = 4
INVARIANT WakeAccountedFor
INVARIANT FramesFit
PROPERTY ImplementsFifo
PROPERTY CallsReturn
