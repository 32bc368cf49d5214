SPECIFICATION Spec
CONSTANTS
  N = 5
  Lengths = {1, 2, 4}
  Intervals = {2}
  MergeFiles = FALSE
INVARIANTS TypeOK OneWriterPerRegister FollowersReserved TimerCovers
PROPERTIES RunsForever
