CONSTANTS
  Registries = {"hub", "ghcr"}
  Size <- MCSize
  Concurrency = 2
SPECIFICATION SweepFairSpec
INVARIANTS EachInItsTurn
PROPERTIES EveryImageAnswered
