SPECIFICATION AudioSpec
CONSTANTS
  Parts = {"samples"}
  FrameChunks = 2
  Nominal = 1
  PacketSizes = {0, 1, 2}
  RxBufferSize = 3
  MaxNotified = 2
  SofsPerMs = 3
  MaxLate = 1
  StampModulus = 4
  TotalStored = 2
  TicksPerStored = 2
  ClockModulus = 10
  MaxTicks = 2
  Lengths = {1, 2}
  S = 5
  RecvTicks = 11
  SendTicks = 6
  MicFrames = 2
  StageDepth = 2
  MaxWork = 4
  MostLate = 2
  RingSize = 4
  FrameAdvance = 3
  Delays <- MCDelays
\* A failed assertion stops the firmware.
CHECK_DEADLOCK FALSE
INVARIANTS
  ReadsWholeFrames
