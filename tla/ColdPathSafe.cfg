CONSTANTS
  Threads = {main, t1, t2}
  Main = main
  Keys = {k1, k2}
  Flights = {f1, f2, f3}
  Limit = 2
  IdentityKnown = FALSE
  Exits = TRUE
  ForkAt = {"idle", "place", "finish"}
  MaxCalls = 3
  Ghost = Ghost
  None = None
SPECIFICATION Spec
CHECK_DEADLOCK FALSE
SYMMETRY Symmetry
INVARIANTS
  OneBuildPerKey
  WaiterHasBuilder
  FlightHasOwner
  PlacesAreCounted
  ExitFindsNoNativeWork
