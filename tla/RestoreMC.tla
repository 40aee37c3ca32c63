----------------------------- MODULE RestoreMC -----------------------------
(* A root with a leaf b and an entry a that may hold x.  As targets of links *)
(* the two contents are paths into the backup and into the source.           *)
EXTENDS Restore

MCPaths == {"/", "/a", "/b", "/a/x"}
MCBelow == [p \in MCPaths |-> IF p = "/" THEN MCPaths ELSE IF p = "/a" THEN {"/a", "/a/x"} ELSE {p}]
MCChildren == [p \in MCPaths |-> IF p = "/" THEN {"/a", "/b"} ELSE IF p = "/a" THEN {"/a/x"} ELSE {}]

MCData == {"backup", "source"}
MCRewritten == [d \in MCData |-> "source"]
=============================================================================
