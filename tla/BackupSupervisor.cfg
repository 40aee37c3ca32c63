SPECIFICATION FairSpec
CONSTANTS
  Sources = {s1}
  Targets = {t1, t2}
  Workers = {w1, w2}
  NoPid = NoPid
  MaxTodo = 1
  MaxSignals = 1
INVARIANTS
  PidsAreOurs
  LiveWorkersAccounted
PROPERTIES
  ServiceSpec
  WaitsEnd
