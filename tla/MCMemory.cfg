CONSTANTS
  Devs = {d1, d2}
  CbThreshold = 2
  BufferFrames = 3
  MinReply = 1
  MaxFrames = 6
  CaptureThreshold = 2
  MaxCaptured = 8
  Ids = {"a", "b"}
  MaxFd = 13
  Errnos = {1}
  MaxLeaks = 2
SPECIFICATION MCSpec
INVARIANTS FramesAccounted NotReadWhileFilled ResourcesOwned
