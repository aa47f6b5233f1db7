CONSTANTS
  Intervals = {0, 2, 3}
  Chains = {1, 2, 3}
  NoChain = 0
  Kinds = {"change", "manual", "crash", "shutdown"}
SPECIFICATION JobFairSpec
PROPERTIES SpacedOut KeepsRunning
