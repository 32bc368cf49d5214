\* Local mode: ranges are registered by views only, nothing is added on request.
SPECIFICATION Spec
CONSTANTS
  Width = 3
  Narrow = 1
  Vals = {0}
  Absent = 99
  Devs = {d1, d2}
  NoDev = NoDev
  FirstDev = d1
  Conns = {c1, c2}
  Ids = {form, form2, row}
  Forms = {form, form2}
  UnitRanges <- TwoUnits
  ReqRanges <- OneUnit
  ScriptRanges <- OneUnit
  UserDefs <- LocalDefs
  GlobalChoices = {FALSE}
  d1 = d1
  d2 = d2
  c1 = c1
  c2 = c2
  form = form
  row = row
  form2 = form2
INVARIANTS RegistryAgrees NoOrphanRange
SYMMETRY SwapConns
