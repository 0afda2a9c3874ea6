CONSTANTS
  Procs = {p1, p2}
  Keys = {k1, k2}
  Dirs = {d1, d2, d3, d4}
  MaxEntries = 1
  ReadOnly = {}
  NoCompile = {}
  DebrisKeys = {}
  Faults = {}
  MaxCalls = 5
  None = None
SPECIFICATION Spec
CHECK_DEADLOCK FALSE
SYMMETRY Symmetry
INVARIANTS
  RaceNeverDisablesCache
  NoStagingLeftBehind
  OneArtifactPerKey
  NoFalseMismatch
