CONSTANTS
  Devices = {d1, d2}
  CONN_WATCH_MAX_RETRIES = 2
  MaxEvents = 4
  MaxMessages = 1
  NULL = NULL
  SwitchEvents = 4
  MaxFailures = 1
  MaxMsgs = 3
  BufSize = 3
  MaxCommands = 2
  MaxCalls = 1
  HfIndicators = TRUE
  BufFrames = 3
  MinLevel = 1
  MaxFrames = 5
  WriteBlock = 2
  PcmSize = 8
  SockDepth = 2
  MaxLag = 5
  Descriptors = {1, 2}
  NodeVolumes = {50}
  HeadsetVolumes = {30, 127}
  MaxVolumes = 2
  MaxBluez = 3
  MaxQueue = 2
  Adapters = {hci0}
  WideBand = {hci0}
  MaxBluezEvents = 3
  MaxInflight = 1
  MaxUpdates = 1
SPECIFICATION MCSpec
CHECK_DEADLOCK FALSE
INVARIANTS HeadsetsSound StreamsServed HeadsetAgrees FramesInPlace FlushPaced
PROPERTIES Progress
