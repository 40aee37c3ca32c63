\* The worker waits in read once the user has stopped.
CHECK_DEADLOCK FALSE
SPECIFICATION Spec
CONSTANTS
  DirNames = {"d", "e"}
  FileNames = {"x"}
  Nested = TRUE
  Initial <- Both
  Users <- MorozUsers
  MaxOps = 4
  Mask = {"create", "close_write", "delete", "moved_from", "moved_to", "delete_self"}
  PendingMax = 2
  QueueMax = 6
INVARIANTS
  Converged
  WatchesCurrent
