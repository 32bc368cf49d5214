SPECIFICATION Spec
CONSTANTS
  Forms = {f1, AutoMap}
  AutoMap = AutoMap
  Files = {p, q}
  None = None
  MaxVersion = 2
SYMMETRY SwapFormsAndFiles
INVARIANTS TypeOK UnmodifiedIsSaved
PROPERTIES NoSilentLoss
CHECK_DEADLOCK FALSE
