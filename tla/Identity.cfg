CONSTANTS
  Procs = {p1, p2}
  Frontend <- MCFrontend
  Lazy <- MCLazy
  Native <- MCNative
  Versions = {v1, v2}
  Kernels = {k1}
  Revision = FALSE
  MaxTick = 2
  MaxUpdates = 2
  MaxCalls = 1
  Gone = Gone
  None = None
SPECIFICATION Spec
CHECK_DEADLOCK FALSE
SYMMETRY Symmetry
INVARIANTS
  EntryMadeByItsKey
PROPERTIES
  ServedByOwnCode
