SPECIFICATION Spec
CONSTANTS
  UpgradeAddr = 1
  DataAddr = 3
  FlashSize = 4
  ReadableFrags <- MCReadableFrags
  NumFragments = 2
  BlockModulus = 4
  ClockModulus = 12
  MaxElapsed = 14
  MaxCounter = 2
  Requests = {"DNLOAD", "UPLOAD", "GETSTATUS", "CLRSTATUS", "ABORT", "SETALTERNATE", "TRANSFERBLOCK", "DETACH"}
  Alts = {"factory", "upgrade", "data", "other"}
  Host = "settled"
PROPERTIES
  FollowsDiagrams
