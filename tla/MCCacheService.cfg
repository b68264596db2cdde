SPECIFICATION Spec
CONSTANTS
  k1 = k1
  k2 = k2
  e1 = e1
  e2 = e2
  t1 = t1
  t2 = t2
  Keys <- MCKeys
  Execs <- MCExecs
  Threads <- MCThreads
  Sids <- MCSids
  Ttls <- MCTtls
  Levels = {"read", "write"}
  Backends <- MCBackends
  MaxNow = 3
  MaxHits = 1
  MaxSets = 1
  Never = Never
  None = None
INVARIANTS
  CountersExact
PROPERTY
  ImplementsCacheStore
SYMMETRY MCSymmetry
CHECK_DEADLOCK FALSE
