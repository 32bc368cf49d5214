SPECIFICATION Spec
CONSTANTS
  Scripts = {s1}
  Handlers = {h1, h2}
  None = None
  MaxQueue = 3
  CallsAnyTime = TRUE
INVARIANT EventIsDelivered
