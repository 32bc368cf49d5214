SPECIFICATION Spec
CONSTANTS
  Sockets = {s1, s2}
  NoSocket = NoSocket
  Requests = {r1, r2, r3}
  Settings <- AllSettings
  MaxDelayed = 2
  MaxBatch = 2
  Early = 1
  Off = Off
INVARIANTS CountIsExact TimerCovers
PROPERTIES EveryResponseLeaves AnswersAreComplete
