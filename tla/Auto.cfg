CONSTANTS
  Keys = {"host", "web"}
  Crons = {c1, c2}
  Off = off
  Absent = absent
  MaxQueue = 2
  MaxUpsets = 2
SPECIFICATION FairSpec
INVARIANTS OwedIsKept InterruptionsTold
PROPERTIES OnlyTheCurrentPlan OwedIsMadeUp
