SPECIFICATION WatchFairSpec
CONSTANTS
  MaxEvents = 3
  MaxSeconds = 2
  RingSize = 2
  FaultKinds = {"blip", "restart", "read", "ask"}
  MaxFaults = 2
INVARIANTS EventsToldOnce
PROPERTIES EventsTold LastWordStands
\* A quiet host has nothing to tell.
CHECK_DEADLOCK FALSE
