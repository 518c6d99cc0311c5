SPECIFICATION Spec
CONSTANTS
  r1 = r1
  r2 = r2
  r3 = r3
  b1 = b1
  b2 = b2
  b3 = b3
  p1 = p1
  p2 = p2
  p3 = p3
  NoReq = NoReq
  Reqs <- MCReqs
  Bots = {b1, b2, b3}
  BotOf <- ThreeBots
  EventTime <- OneEvent
  Procs = {p1, p2}
  ProcOf <- TwoProcs
  ForceValues = {FALSE}
  SingleValues = {FALSE}
  Window = 1
  ClaimTTL = 1
  RateTTL = 1
  ReadyTTL = 2
  CompletedTTL = 3
  ExecTTL = 1
  PublishTTL = 1
  StateTTL = 3
  LastArrival = 1
  MaxTime = 4
  MaxDisruptions = 1
INVARIANTS
  ConfirmedAbortIsAnswered
