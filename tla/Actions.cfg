CONSTANTS
  a = a
  b = b
  c = c
  Units <- MCUnits
  Casts <- MCCasts
  Nobody = nobody
  MaxHelpers = 2
  FaultKinds = {"fail", "hand", "break"}
  MaxFaults = 1
  MaxLag = 2
SPECIFICATION ScopesSpec
CHECK_DEADLOCK FALSE
PROPERTIES OwnSteps FirstHealthCredited WaitsEnd ImplementsHandover AlwaysAnswered
