CONSTANTS
  Procs = {p1, p2, p3, p4}
  Keys = {k1, k2}
  Dirs = {d1, d2, d3, d4}
  MaxEntries = 1
  ReadOnly = {p3, p4}
  NoCompile = {p4}
  DebrisKeys = {k1}
  Faults = {"kill", "read", "write", "hour", "stall"}
  MaxCalls = 2
  None = None
SPECIFICATION Spec
CHECK_DEADLOCK FALSE
SYMMETRY Symmetry
VIEW View
INVARIANTS
  EntryNeverPartial
PROPERTIES
  ReadOnlyNeverWrites
