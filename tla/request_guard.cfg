SPECIFICATION FairSpec
CONSTANTS
  r1 = r1
  r2 = r2
  r3 = r3
  c1 = c1
  c2 = c2
  p1 = p1
  w1 = w1
  NoReq = NoReq
  Reqs <- MCReqs
  Commands = {c1, c2}
  CommandOf <- TwoCommands
  Procs = {p1}
  ProcOf <- OneProc
  Workers = {w1}
  WorkerProc <- OneWorker
  Capacity = 1
  MaxAttempts = 2
  MaxFaults = 2
CHECK_DEADLOCK FALSE
INVARIANTS
  TypeOK
  HolderKeepsLock
  DrainReleases
PROPERTIES
  AcceptedReleased
