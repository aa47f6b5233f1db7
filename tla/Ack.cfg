\* One entry the server cannot read, one of a kind that is switched off, and
\* a server side that acknowledges unreadable entries although the insert
\* fails, as the container-update queue has it.
CONSTANTS
  MaxEvents = 3
  MaxItems = 2
  Unreadable <- SecondEntry
  SwitchedOff <- ThirdEntry
  CatchesStoreFailure = TRUE
  FaultKinds <- Fault
  MaxFaults = 2
  MaxInFlight = 2
SPECIFICATION FairSpec
\* The host may fall quiet with everything delivered.
CHECK_DEADLOCK FALSE
INVARIANTS NothingVanishes ToldOncePerRow
PROPERTIES ImplementsAtLeastOnce QueueDrains
