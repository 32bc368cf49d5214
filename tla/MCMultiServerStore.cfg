\* Local mode: ranges are registered by views only, nothing is added on request.
SPECIFICATION Spec
CONSTANTS
  Width = 4
  Narrow = 1
  Vals = {0, 1}
  Absent = 99
  Devs = {d1}
  NoDev = NoDev
  FirstDev = d1
  Conns = {c1, c2}
  Ids = {form, row}
  Forms = {form}
  UnitRanges <- GapUnits
  ReqRanges <- GapRequests
  ScriptRanges <- GapWrites
  UserDefs <- LocalDefs
  GlobalChoices = {FALSE}
  d1 = d1
  c1 = c1
  c2 = c2
  form = form
  row = row
SYMMETRY SwapConns
INVARIANTS TypeOK MasterCopiesAgree ServersAgree MappedIsServed
PROPERTIES GapsAreRefused IsRegisterStore
