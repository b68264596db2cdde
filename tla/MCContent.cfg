SPECIFICATION Spec
CONSTANTS
  Subjects = {"tables", "schema", "workflow"}
  SchemaUses = {"values", "outputs", "inputs"}
  Kinds = {"results", "simulations", "entries", "provenance"}
  Ids = {i1, i2, i3}
  Owners = {s, t}
  Numbers = {1, 2}
  Words = {w1, w2}
  Tags <- TagSets
  Backends = {"sqlite", "postgresql"}
  QueryTexts <- Texts
  Limits = {0, 1, 2}
  PageSizes = {1, 2}
  MaxPageSize = 2
  MaxScan = 2
  MaxAnswer = 2
  MaxEntries = 2
  MaxTime = 2
  Fields <- FieldSpecs
  FieldOrder <- Order
  Raws <- RawValues
  Data <- Dicts
  Outputs <- Returned
  Mappings <- PlainDicts
  One = 6
  Grid = 3
  LinesOf <- Broken
  MaxNumeral = 2
  UnitSize <- Sizes
  UnitZero <- Zeros
  Symbols = {"Si", "C"}
  ElementOf <- Names
  ImageFiles = {"p", "q"}
  PNGImages = {"p"}
  MaxRuns = 2
  Types = {"notebook", "function", "python", "docker", "dag"}
  Paths = {"workflow.ipynb", "workflow.py", "Dockerfile", "workflow.bin", "other"}
  Contents <- FileContents
  Schemas = {p1, p2}
  Notebooks <- NotebookCells
  Sources = {f1, f2}
  Ambiguous = {f2}
  Payloads <- Payload
  Updates <- Change
  MaxCalls = 2
  None = None
  Invalid = Invalid
  NaN = NaN
  Failed = Failed
  i1 = i1
  i2 = i2
  i3 = i3
  s = s
  t = t
  w1 = w1
  w2 = w2
  Text = Text
  Short = Short
  c1 = c1
  c2 = c2
  f1 = f1
  f2 = f2
  p1 = p1
  p2 = p2
INVARIANTS AnswersComplete SweepFindsUntouched ReadBack KeysSeparate RunsWhatWasSent
PROPERTY SetAllOrNothing
SYMMETRY Symmetry
CHECK_DEADLOCK FALSE
