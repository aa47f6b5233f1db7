SPECIFICATION FairSpec
CONSTANTS
  Images = {"a", "b"}
  MaxContainers = 3
  MaxOperations = 2
  FaultKinds = {"crash", "stop", "disk", "expiry", "age"}
  MaxFaults = 2
INVARIANTS HistoryChains CreditedRight
PROPERTIES HostTold AttemptsTold
\* The helper may take the last agent of the name with it.
CHECK_DEADLOCK FALSE
