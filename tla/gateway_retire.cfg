SPECIFICATION Spec
CONSTANTS
  e1 = e1
  e2 = e2
  e3 = e3
  p1 = p1
  p2 = p2
  s1 = s1
  s2 = s2
  a1 = a1
  a2 = a2
  NoEvent = NoEvent
  Events = {e1, e2, e3}
  Posts = {p1, p2}
  Streams = {}
  Requests = {a1}
  MaxVersions = 3
  Subscribed = FALSE
  Keep = 2
  MaxDeliveries = 2
  ReplayGrace = 1
  RedeliverAfter = 2
  QueueSize = 1
  MaxPerKey = 1
  MaxConns = 2
  MaxPosts = 3
  MaxFaults = 1
SYMMETRY Symmetry
CHECK_DEADLOCK FALSE
INVARIANT
  DroppedForNewer
PROPERTY
  LiveEventsKept
