CONSTANTS
  Slots = {1, 2}
  Streams = {1}
  MaxCrashes = 1
  MaxRegister = 1
  MaxAudioMessages = 2
  Depth = 3
  MaxChanges = 5
  Writers = {w1, w2}
  Readers = {r1, r2}
  Getters = {"snapshot"}
  MaxUpdates = 2
SPECIFICATION MCSpec
CHECK_DEADLOCK FALSE
INVARIANTS ConnectionAgrees CreationTold MemorySafe
PROPERTIES Progress
