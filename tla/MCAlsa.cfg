CONSTANTS
  MaxRetries = 2
  MaxEvents = 2
  MaxChanges = 4
  BufferSize = 6
  MinBufferLevel = 1
  MinCbLevel = 2
  FillZeros = 2
  SevereFrames = 1
  MaxSwitches = 4
  Levels = {0, 1, 4, 5, 7}
  MaxSettings = 5
  NumSections = 2
  Models = {en, us}
  MaxModifiers = 2
SPECIFICATION MCSpec
CHECK_DEADLOCK FALSE
INVARIANTS NodesAgree PlayedOnce MixerFollows
PROPERTIES Progress
