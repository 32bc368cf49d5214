SPECIFICATION Spec
CONSTANTS
  Own = 1
  Others = {2}
  Functions = {3, 6}
  MaxRtuAduSize = 11
  Cuts = {3}
  MaxFrames = 3
  MaxFaults = 1
  MaxSwitches = 1
INVARIANTS TypeOK FramesAreWhole DirectionsAreRight CaptureIsBounded
PROPERTIES FrameAfterSilenceIsSeen LeftoversAreReported
CHECK_DEADLOCK FALSE
