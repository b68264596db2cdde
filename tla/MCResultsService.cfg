SPECIFICATION Spec
CONSTANTS
  e1 = e1
  e2 = e2
  e3 = e3
  x = x
  y = y
  t1 = t1
  t2 = t2
  p = p
  number = number
  string = string
  Execs = {e1, e2, e3}
  InputOf <- MCInputOf
  Inputs = {x, y}
  Threads = {t1, t2}
  Params = {p}
  Types = {number, string}
  Backends = {"sqlite", "postgresql"}
  Loads <- MCLoads
  Routes = {"/register", "/register_direct"}
  Blank = Blank
  None = None
INVARIANTS
  OutputsMatchInputs
  OneRowPerSquid
  RowsHaveSchema
  IdleBetweenRequests
PROPERTIES
  UnracedMergeKeeps
  FailuresRecorded
SYMMETRY Symmetry
CHECK_DEADLOCK FALSE
