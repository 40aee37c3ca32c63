\* Everybody is at rest once the user and the commands are through.
CHECK_DEADLOCK FALSE
SPECIFICATION Spec
CONSTANTS
  Paths <- MCPaths
  Files <- MCFiles
  Dirs <- MCDirs
  StartFiles <- MCStart
  Alike = {{2, 3}}
  MaxOps = 4
  MaxCommands = 2
INVARIANTS
  Converged
PROPERTIES
  RestoreFaithful
  MirroredIsKept
