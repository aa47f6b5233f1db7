SPECIFICATION AnnounceFairSpec
CONSTANTS
  MaxEvents = 4
  Batch = 2
  MaxUpdates = 1
  MaxNews = 2
  PageFaults = {"cut", "refused", "answer lost", "restart"}
  MaxFaults = 1
  Clicks = {"mark", "clear"}
  MaxClicks = 1
  MaxPending = 3
  MaxAttempts = 2
  HookFaults = {"failing"}
INVARIANTS ShowsWhatIsStored
PROPERTIES InOrder EveryEventTried
\* A page may have everything there is.
CHECK_DEADLOCK FALSE
