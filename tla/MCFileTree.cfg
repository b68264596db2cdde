SPECIFICATION TreeSpec
CONSTANTS
  c1 = c1
  c2 = c2
  u1 = u1
  u2 = u2
  u3 = u3
  g1 = g1
  Root = Root
  Nothing = Nothing
  Clients <- MCClients
  Usable <- MCUsable
  Generated <- MCGenerated
  Modes <- MCModes
  MaxOps = 4
  MaxDepth = 3
INVARIANTS
  TreeConsistent
  RemoteDeleteLeavesGenerated
PROPERTY
  DeletesOnlySubtree
SYMMETRY MCSymmetry
CHECK_DEADLOCK FALSE
