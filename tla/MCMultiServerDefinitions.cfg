SPECIFICATION Spec
CONSTANTS
  Width = 3
  Narrow = 1
  Vals = {0, 1}
  Absent = 99
  Devs = {d1}
  NoDev = NoDev
  FirstDev = d1
  Conns = {c1, c2}
  Ids = {form}
  Forms = {form}
  UnitRanges <- MiddleRequest
  ReqRanges <- MiddleRequest
  ScriptRanges <- NoWrites
  UserDefs <- AllDefs
  GlobalChoices = {TRUE, FALSE}
  d1 = d1
  c1 = c1
  c2 = c2
  form = form
  row = row
SYMMETRY SwapConns
PROPERTIES AcknowledgedWriteIsVisible
