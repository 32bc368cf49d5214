SPECIFICATION Spec
CONSTANTS
  Sockets = {s1, s2}
  Requests = {r1, r2, r3}
  Delays = {0, 1, 3}
  Early = 1
  Off = Off
INVARIANTS TimerCovers OnlyOpenQueues
PROPERTIES EveryResponseLeaves AnswersInOrder
