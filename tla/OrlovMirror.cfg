\* The worker waits in read once the user has stopped.
CHECK_DEADLOCK FALSE
SPECIFICATION Spec
CONSTANTS
  DirNames = {"d", "e"}
  FileNames = {"x"}
  Nested = TRUE
  Initial <- Both
  Users <- OrlovUsers
  MaxOps = 4
  Mask = {"create", "modify", "close_write", "delete", "moved_from", "moved_to", "delete_self"}
  MaxWatches = 4
  QueueMax = 7
INVARIANTS
  TableExact
  Converged
  WatchesCurrent
  RestoreUndoes
