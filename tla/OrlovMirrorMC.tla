--------------------------- MODULE OrlovMirrorMC ----------------------------
EXTENDS OrlovMirror, TreeUsers
=============================================================================
