CONSTANTS
  Ids <- ThreeIds
  BufSz = 2
  INITIAL_ID_SIZE = 1
  Word = 5
  MaxSlots = 4
  MaxWritten = 2
  Middle = 2
  Channels = 2
  BufferSize = 1
  MaxApplied = 2
  MaxTokens = 5
  Ring = 8
  Division = 2
  Default = 4
  Delays = {0, 3, 4, 7, 9}
  MaxCall = 5
  MaxFrames = 24
  B = 3
  Q = 4
  Frames = 2
  Magnitudes = {0, 9, 31}
  Volumes = {0, 1, 3, 4}
  Gains = {2, 4, 6}
  MaxMixed = 2
  BufferFrames = 4
  RatePairs <- MCRatePairs
  LinearRates <- MCLinearRates
  MaxCalls = 2
  W = 8
  SizeBits = 24
  Counts <- MCCounts
  Magnitude = 127
  Outputs = {o1, o2}
  Size = 3
  Burst = 2
  MaxPlayed = 6
  MaxTime = 2
  MaxChanges = 4
SPECIFICATION MCSpec
CHECK_DEADLOCK FALSE
INVARIANTS NoShadowedUser BuffersKept ExpressionsAsWritten CompressedInPlace SamplesExact ConversionSound RecordedAsPlayed
PROPERTIES ImplementsSharedPosition
