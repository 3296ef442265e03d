SPECIFICATION FairSpec
CONSTANTS
  a = a
  b = b
  Nodes <- OneNode
  Items <- Events
  OldLife <- UpgradedOnce
  Lives = 2
  Interval = 2
  Expiry = 5
  Capacity = 2
  Prompt = TRUE
  MaxFaults = 2
INVARIANTS TypeOK WatcherSeesCache SilentEvicted OneLossForgiven NoCallbackAfterCancel
PROPERTIES EventsMakeSense ListSettles CancelEnds
CHECK_DEADLOCK FALSE
