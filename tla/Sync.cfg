SPECIFICATION FairSpec
CONSTANTS
  MaxSockets = 2
  MaxChanges = 1
  FaultKinds = {"manual", "rejected", "refused", "slow", "stall", "cut",
                "agent restart", "server restart"}
  MaxFaults = 3
INVARIANTS OneLoop
PROPERTIES LinkSettles LastWordHeld
\* A settled link has nothing to do.
CHECK_DEADLOCK FALSE
