SPECIFICATION Spec
CONSTANTS
  i1 = i1
  i2 = i2
  k1 = k1
  k2 = k2
  e1 = e1
  e2 = e2
  e3 = e3
  Insts <- MCInsts
  Registering <- MCRegistering
  Keys <- MCKeys
  Execs <- MCExecs
  MaxLate = 1
  Nothing = Nothing
INVARIANTS
  PublishedRunsAreSaved
PROPERTY
  ImplementsReuse
SYMMETRY MCSymmetry
