SPECIFICATION FairSpec
CONSTANTS
  Gateways = {"first", "second"}
  Servicers = {"gpio", "led"}
  OnTile = {"gpio"}
  Resources = {"special", "in", "out", "ring", "other"}
  Owned <- MCOwned
  ArrayIndex <- MCArrayIndex
INVARIANTS
  CommandAccountedFor
  RoutedToOwner
  BootQueueIsBoot
PROPERTIES
  ImplementsCalls
  EveryoneRegisters
  CallsReturn
CHECK_DEADLOCK FALSE
