SPECIFICATION FairSpec
CONSTANTS
  NoKey = NoKey
  Nobody = Nobody
  Keys = {k1, k2}
  Writers = {w1, w2}
  Collectors = {g1, g2}
  RenderKeys = {q1}
  MaxFaults = 2
CHECK_DEADLOCK FALSE
INVARIANTS
  TypeOK
  IndexedObjectExists
  ObjectsAccounted
  AnsweredKept
  
PROPERTIES
  OrphansCollected
