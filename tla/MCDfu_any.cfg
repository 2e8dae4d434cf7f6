SPECIFICATION Spec
CONSTANTS
  UpgradeAddr = 1
  DataAddr = 2
  FlashSize = 2
  ReadableFrags <- MCReadableFrags
  NumFragments = 2
  BlockModulus = 2
  ClockModulus = 12
  MaxElapsed = 14
  MaxCounter = 2
  Requests = {"DNLOAD", "UPLOAD", "GETSTATUS", "CLRSTATUS", "ABORT", "SETALTERNATE"}
  Alts = {"upgrade"}
  Host = "any"
INVARIANTS
  OneBitWhenCounterIsOne
  SemaphoreAnswersUpload
  SessionStartsAtZero
CHECK_DEADLOCK FALSE
