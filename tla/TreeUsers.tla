------------------------------ MODULE TreeUsers ------------------------------
\* Users for the workers of moroz and orlov to run beside.
EXTENDS WatchedTree

\* A directory with a file in the source, another one elsewhere.
Both == <<Src, Out, Src \o <<"d">>, Src \o <<"d", "x">>, Out \o <<"e">>, Out \o <<"e", "x">>>>

Editor  == [kinds |-> {"write", "unlink", "mkdir", "rmdir"}, patience |-> "never", changes |-> 4,
            places |-> {Src \o s : s \in {<<"x">>, <<"d">>, <<"d", "x">>}}]
Mover   == [kinds |-> {"write", "mkdir", "move_out", "move_in", "rename"}, patience |-> "always",
            changes |-> 4,
            places |-> Top \cup TopDirs \cup {r \o <<f>> : r \in Top \cup TopDirs, f \in FileNames}]
Renamer == [kinds |-> {"write", "mkdir", "unlink", "rename"}, patience |-> "moves", changes |-> 3,
            places |-> SrcPaths]
Patient == [kinds |-> {"write", "mkdir", "rmdir", "unlink", "rename", "move_in"}, patience |-> "always",
            changes |-> 3, places |-> Paths]

Hasty   == [kinds |-> {"mkdir", "rename", "rmdir", "write"}, patience |-> "never", changes |-> 3,
            places |-> {Src \o s : s \in {<<"d">>, <<"e">>, <<"d", "d">>, <<"e", "d">>, <<"d", "x">>}}]

MorozUsers == {Editor, Mover, Renamer, Patient, Hasty}
OrlovUsers == {Editor, Mover, Patient, Hasty}
=============================================================================
