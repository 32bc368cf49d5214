SPECIFICATION Spec
CONSTANTS
  Forms = {data, map}
  AutoMap = map
INVARIANTS RoundTripsForms
CHECK_DEADLOCK FALSE
