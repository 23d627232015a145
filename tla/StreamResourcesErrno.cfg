CONSTANTS
  Ids = {"a", "b"}
  MaxFd = 13
  Errnos = {0, 1}
  MaxLeaks = 2
SPECIFICATION Spec
INVARIANTS StreamsIntact
