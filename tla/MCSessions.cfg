SPECIFICATION Spec
CONSTANTS
  a = a
  b = b
  t1 = t1
  t2 = t2
  m1 = m1
  m2 = m2
  k1 = k1
  k2 = k2
  Services <- MCServices
  Threads <- MCThreads
  Deployments <- MCDeployments
  Managers <- MCManagers
  Tokens <- MCTokens
  TTL = 1
  Window = 1
  MaxNow = 2
  MaxExpiry = 2
  Nothing = Nothing
INVARIANTS
  SharedCredential
  IssuedTokensAccepted
  ExpiredRefused
  LimiterHolds
PROPERTY
  ExpiredStaysExpired
SYMMETRY MCSymmetry
