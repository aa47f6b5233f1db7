CONSTANTS
  FaultKinds = {"refused", "lost", "disk", "death", "restart", "overrun"}
  MaxFaults = 4
SPECIFICATION FairSpec
\* The helper ends and the agents fall quiet.
CHECK_DEADLOCK FALSE
INVARIANTS OneAgent OutcomeTrue
PROPERTIES OutcomeReported
