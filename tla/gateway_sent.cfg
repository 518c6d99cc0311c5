SPECIFICATION FairSpec
CONSTANTS
  e1 = e1
  e2 = e2
  e3 = e3
  p1 = p1
  p2 = p2
  s1 = s1
  s2 = s2
  a1 = a1
  a2 = a2
  NoEvent = NoEvent
  Events = {e1}
  Posts = {p1}
  Streams = {s1, s2}
  Requests = {}
  MaxVersions = 1
  Subscribed = TRUE
  Keep = 1
  MaxDeliveries = 2
  ReplayGrace = 1
  RedeliverAfter = 2
  QueueSize = 1
  MaxPerKey = 2
  MaxConns = 2
  MaxPosts = 1
  MaxFaults = 1
CHECK_DEADLOCK FALSE
PROPERTY
  EventsDelivered
  EventuallySent
