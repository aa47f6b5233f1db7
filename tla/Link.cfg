CONSTANTS
  Addresses = {"old", "new"}
  MaxSockets = 3
  FaultKinds = {"refused", "reject", "early", "drop", "slow", "restart", "reconnect", "change", "delete"}
  MaxFaults = 2
SPECIFICATION FairSpec
INVARIANTS OneSession NeverForgotten AgentSpeaks
PROPERTIES SettlesDown
\* A settled link has nothing to do.
CHECK_DEADLOCK FALSE
