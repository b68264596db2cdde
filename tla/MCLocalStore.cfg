SPECIFICATION Spec
CONSTANTS
  c1 = c1
  c2 = c2
  n1 = n1
  n2 = n2
  e1 = e1
  e2 = e2
  x1 = x1
  Clients <- MCClients
  Names <- MCNames
  Tagged <- MCTagged
  Inputs <- MCInputs
  Execs <- MCExecs
  MaxDeploys = 2
  MaxHits = 2
  None = None
INVARIANTS
  HitsBelong
  AccessesCounted
SYMMETRY MCSymmetry
CHECK_DEADLOCK FALSE
