CONSTANTS
  Threads = {main, t1}
  Main = main
  Keys = {k1, k2}
  Flights = {f1, f2}
  Limit = 1
  IdentityKnown = TRUE
  Exits = TRUE
  ForkAt = {"idle", "place", "finish"}
  MaxCalls = 3
  Ghost = Ghost
  None = None
SPECIFICATION FairSpec
CHECK_DEADLOCK FALSE
PROPERTIES
  CallsReturn
