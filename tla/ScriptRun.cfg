SPECIFICATION Spec
CONSTANTS
  MaxTimers = 2
  MaxCalls = 2
PROPERTIES OnceRunsToTheEnd
CHECK_DEADLOCK FALSE
