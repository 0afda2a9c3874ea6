CONSTANTS
  Threads = {t1, t2}
  Keys = {k1, k2}
  k1 = k1
  k2 = k2
  c1 = c1
  s0 = s0
  s1 = s1
  Contexts = {c1}
  Context <- MCContext
  Modules = {m1, m2, m3}
  Streams = {}
  Default = s0
  Limit = 1
  MaxPos <- OneDefault
  Faults = {"poll", "interrupt", "load"}
  None = None
SPECIFICATION Spec
SYMMETRY Symmetry
INVARIANTS
  TypeOK
  LeasesAreCounted
  NoModuleForgotten
  ResidencyBound
  ReservationHasOneOwner
