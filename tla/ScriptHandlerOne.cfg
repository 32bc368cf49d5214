SPECIFICATION Spec
CONSTANTS
  Scripts = {s1}
  Handlers = {h1, h2, h3}
  None = None
  MaxQueue = 4
  CallsAnyTime = FALSE
INVARIANTS InstalledFollows EventIsDelivered
PROPERTIES StaleHandlerSilent RequestIsReleased HandlerTakesEffect
