SPECIFICATION Spec
CONSTANTS
  t1 = t1
  t2 = t2
  v1 = v1
  v2 = v2
  e1 = e1
  e2 = e2
  r1 = r1
  r2 = r2
  Threads = {t1, t2}
  Execs = {e1, e2}
  Versions = {v1, v2}
  Requests = {r1, r2}
  Payload <- MCPayload
  MaxId = 3
  Backends = {"sqlite", "postgresql"}
  None = None
INVARIANTS
  ExecutionsOfTheirVersion
  OneSimulationPerVersion
PROPERTY
  RecordsKept
SYMMETRY Symmetry
