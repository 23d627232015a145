SPECIFICATION OneDirection
CONSTANTS
  d1 = d1
  d2 = d2
  s1 = s1
  s2 = s2
  p1 = p1
  RealDevs = {d1}
  Fallback = fallback
  NoDev = none
  Streams = {s1, s2, p1}
  PinnedTo <- PinP1
  Fragile = {s1}
  Output = TRUE
  Hotwords = {}
INVARIANTS ThreadHoldsLive DevicesSettled
