--------------------------- MODULE LeshaMirrorMC ---------------------------
\* A file whose name may be a file or a directory, and such a name in it.
EXTENDS LeshaMirror

MCFiles == {<<"a">>, <<"a", "x">>}
MCDirs  == {<<>>} \cup MCFiles
MCPaths == MCDirs
MCStart == {<<"a">>}
=============================================================================
