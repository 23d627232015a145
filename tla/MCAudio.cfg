CONSTANTS
  Devs = {d1, d2}
  Streams = {s1}
  Outputs = {d1}
  InitialSize = 3
  MaxDebugDevs = 1
  MaxDebugStreams = 1
  MaxCommands = 3
  p1 = p1
  OutStreams = {p1, p2}
  OutBuffer = 8
  NormalWakeUp = 1
  NoStreamWakeUp = 2
  RampFrames = 3
  MaxOutChanges = 4
  InStreams = {c1, c2}
  ApmStreams = {c2}
  InBuffer = 6
  InThreshold = 3
  ApmFrames = 2
  DropLevel = 5
  MaxFrames = 6
  MaxInChanges = 4
  o1 = o1
  i1 = i1
  AecOutputs = {o1, o2}
  AecInputs = {i1}
  AecStreams = {a1}
  LoadFails = FALSE
  MaxAecChanges = 3
SPECIFICATION MCSpec
CHECK_DEADLOCK FALSE
INVARIANTS ThreadsInStep OutputFed CapturedOnce ProcessingCurrent
PROPERTIES Progress
