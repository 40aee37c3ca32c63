\* The program ends.
CHECK_DEADLOCK FALSE
SPECIFICATION FairSpec
CONSTANTS
  Sources = {s1}
  Targets = {t1, t2}
  Workers = {w1, w2}
  Nobody = Nobody
  MaxTodo = 2
  MaxSignals = 1
INVARIANTS
  ActiveAreChildren
PROPERTIES
  ServiceSpec
  WaitsEnd
