SPECIFICATION LinkSpec
CONSTANTS
  Gateways = {"spi"}
  Servicers = {"gpio", "led"}
  OnTile = {"gpio"}
  Resources = {"special", "in", "ring", "other"}
  Owned <- MCOwned
  ArrayIndex <- MCArrayIndex
  PortValues = {0, 1}
  OwnedResources = {"in", "ring"}
  ServicerAnswers = {"SUCCESS", "BAD_COMMAND"}
  MaxPending = 2
  EarlyChanges = FALSE
INVARIANTS
  ExecutedOnce
  
  StatusFollowsPort
  RunsOnlyWhatWasAsked
  ReturnsOwnAnswer
PROPERTIES
  HostCallsReturn
CHECK_DEADLOCK FALSE
