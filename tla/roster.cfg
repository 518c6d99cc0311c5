SPECIFICATION FairSpec
CONSTANTS
  Bots = {a}
  Procs = {p1}
  Threshold = 3
  MaxJobs = 2
  MaxFaults = 2
INVARIANTS
  TypeOK
  RefreshUnderWay
PROPERTIES
  JoinsRegister
  DepartedDropped
  ServedKnows
