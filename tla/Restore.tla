------------------------------ MODULE Restore ------------------------------
(***************************************************************************)
(* The second half of cmd_restore of moroz/p1/mykhailo_moroz/src/main.c:   *)
(* check_src_against_backup removes from the source what the backup lacks  *)
(* or holds as another kind, then apply_backup makes directories and       *)
(* copies the files and links that are missing or newer than the backup's  *)
(* creation.  Each entry is a step, in any order readdir may give; any     *)
(* step may fail, which ends the command, and the user may run it again.   *)
(*                                                                         *)
(* A path is an element of Paths; Below[p] holds p and all paths under it. *)
(* Modification times are compared with created_at: new or not.            *)
(***************************************************************************)
EXTENDS Naturals, FiniteSets

CONSTANTS
  Paths,      \* the paths of the two trees, relative to their roots
  Root,       \* the directories given to the command
  Below,      \* p and what lies under it
  Children,   \* what lies directly under it
  Data,       \* contents of files and links
  Rewritten,  \* copy_symplink_rewrite: a link into the backup leads into the source
  Cut,        \* the content of a file whose copy did not finish
  MaxFails    \* bound: how often the command fails

ASSUME RestoreAssumption ==
  /\ Root \in Paths
  /\ Below \in [Paths -> SUBSET Paths]
  /\ Children \in [Paths -> SUBSET Paths]
  /\ \A p \in Paths : p \in Below[p] /\ Children[p] \subseteq Below[p]
  /\ \A p \in Paths : \A q \in Below[p] \ {p} : \E c \in Children[p] : q \in Below[c]
  /\ \A p, q \in Paths : q \in Below[p] => Below[q] \subseteq Below[p]
  /\ \A p, q \in Paths : p \in Below[q] /\ q \in Below[p] => p = q
  /\ \A p, q \in Paths : \A c \in Children[p] : c \in Below[q] /\ c # q => p \in Below[q]
  /\ Below[Root] = Paths
  /\ Cut \notin Data
  /\ Rewritten \in [Data -> Data]
  /\ MaxFails \in Nat

Absent == [kind |-> "absent"]
Dir    == [kind |-> "dir"]
Other  == [kind |-> "other"]    \* a fifo, socket or device: never copied
Leaves(contents, ages) == [kind : {"file", "link"}, data : contents, new : ages]

Nodes == {Absent, Dir, Other} \cup Leaves(Data \cup {Cut}, BOOLEAN)

\* Only directories hold entries.
Shaped(t) == \A p \in Paths : \A q \in Below[p] \ {p} : t[q] # Absent => t[p] = Dir

VARIABLES
  src,     \* the source
  bak,     \* the backup, which restore only reads
  orig,    \* history: the source when the user first asked
  phase,   \* "check", "apply", "done" or "failed"
  todo,    \* entries the walk still has to visit
  fails

vars == <<src, bak, orig, phase, todo, fails>>

Init ==
  /\ src \in {t \in [Paths -> {Absent, Dir, Other} \cup Leaves(Data, BOOLEAN)] : Shaped(t) /\ t[Root] = Dir}
  /\ bak \in {t \in [Paths -> {Absent, Dir} \cup Leaves(Data, {FALSE})] : Shaped(t) /\ t[Root] \in {Absent, Dir}}
  /\ orig = src
  /\ phase = "check"
  /\ todo = {Root}
  /\ fails = 0

Held_Dot(t, p) == {c \in Children[p] \cup {p} : t[c] # Absent}

Held(t, p) == {c \in Children[p] : t[c] # Absent}

Without(t, p) == [q \in Paths |-> IF q \in Below[p] THEN Absent ELSE t[q]]

Foreign_MissingOnly(p) == bak[p] = Absent

\* "if backup doesn't have smth, delete it from src", and what changed its kind.
Foreign(p) == bak[p].kind # src[p].kind

CheckEntry(p) ==
  /\ phase = "check"
  /\ p \in todo
  /\ IF Foreign(p)
     THEN src' = Without(src, p) /\ todo' = todo \ {p}
     ELSE src' = src /\ todo' = (todo \ {p}) \cup Held(src, p)
  /\ UNCHANGED <<bak, orig, phase, fails>>

\* apply_backup fails at once if there is no backup.
CheckEnds ==
  /\ phase = "check"
  /\ todo = {}
  /\ phase' = IF bak[Root] = Absent THEN "failed" ELSE "apply"
  /\ todo' = IF bak[Root] = Absent THEN {} ELSE {Root}
  /\ UNCHANGED <<src, bak, orig, fails>>

ToWrite_MissingOnly(p) == src[p] = Absent

ToWrite_Always(p) == TRUE

\* Written if missing or modified after the backup was created.
ToWrite(p) == src[p] = Absent \/ (src[p].kind \in {"file", "link"} /\ src[p].new)

LinkTo_Verbatim(target) == target

\* An absolute target under the backup is moved under the source, another one stays.
LinkTo(target) == Rewritten[target]

\* What the source gets for an entry of the backup.
Content(p) == IF bak[p].kind = "link" THEN LinkTo(bak[p].data) ELSE bak[p].data

\* Times are whole seconds: what is written in the second of the backup's creation
\* is not newer than the backup.
Copied(t, p, content, late) == [t EXCEPT ![p] = [kind |-> bak[p].kind, data |-> content, new |-> late]]

ApplyEntry(p) ==
  /\ phase = "apply"
  /\ p \in todo
  /\ IF bak[p] = Dir THEN src' = [src EXCEPT ![p] = Dir]
     ELSE IF ToWrite(p) THEN \E late \in BOOLEAN : src' = Copied(src, p, Content(p), late)
     ELSE src' = src
  /\ todo' = (todo \ {p}) \cup Held(bak, p)
  /\ UNCHANGED <<bak, orig, phase, fails>>

ApplyEnds ==
  /\ phase = "apply"
  /\ todo = {}
  /\ phase' = "done"
  /\ UNCHANGED <<src, bak, orig, todo, fails>>

\* A call fails: rm_tree with part of the tree removed, copy_file with the file
\* truncated, symlink after the old link was unlinked, or a walk before its next
\* entry.  The whole command returns.
Fail(p) ==
  /\ phase \in {"check", "apply"}
  /\ p \in todo
  /\ fails < MaxFails
  /\ \/ src' = src
     \/ /\ phase = "check" /\ Foreign(p)
        /\ \E c \in Held(src, p) : src' = Without(src, c)
     \/ /\ phase = "apply" /\ bak[p].kind = "file" /\ ToWrite(p)
        /\ \E late \in BOOLEAN : src' = Copied(src, p, Cut, late)
     \/ /\ phase = "apply" /\ bak[p].kind = "link" /\ ToWrite(p)
        /\ src' = Without(src, p)
  /\ phase' = "failed"
  /\ todo' = {}
  /\ fails' = fails + 1
  /\ UNCHANGED <<bak, orig>>

\* norm_existing_dir: the source must still be there.
Again ==
  /\ phase = "failed"
  /\ src[Root] = Dir
  /\ phase' = "check"
  /\ todo' = {Root}
  /\ UNCHANGED <<src, bak, orig, fails>>

Walk == \/ \E p \in Paths : CheckEntry(p) \/ ApplyEntry(p)
        \/ CheckEnds \/ ApplyEnds

Next == Walk \/ (\E p \in Paths : Fail(p)) \/ Again

Spec == Init /\ [][Next]_vars

\* The command runs to its end, and a user whose restore failed repeats it.
FairSpec == Spec /\ WF_vars(Walk) /\ WF_vars(Again)

-----------------------------------------------------------------------------
TypeOK ==
  /\ src \in [Paths -> Nodes]
  /\ bak \in [Paths -> {Absent, Dir} \cup Leaves(Data, {FALSE})]
  /\ orig \in [Paths -> Nodes]
  /\ phase \in {"check", "apply", "done", "failed"}
  /\ todo \subseteq Paths
  /\ fails \in 0 .. MaxFails

Same(t, p) ==
  /\ t[p].kind = bak[p].kind
  /\ bak[p].kind = "file" => t[p].data = bak[p].data
  /\ bak[p].kind = "link" => t[p].data = Rewritten[bak[p].data]

\* A file or link not newer than the backup that differs from it is left as it is:
\* the user's, changed without making it newer (mv, cp -p, touch -d) or within the
\* second of the backup's creation, or a copy that a failed attempt left cut short
\* within that second.
KeptOld(p) ==
  /\ src[p].kind = bak[p].kind
  /\ src[p].kind \in {"file", "link"} /\ ~src[p].new
  /\ src[p] = orig[p] \/ src[p].data = Cut

\* When restore reports success, after whatever failed attempts, the source is
\* the backup: nothing is missing, nothing is left over, nothing newer than the
\* backup is truncated or differs.
Restored == phase = "done" => \A p \in Paths : Same(src, p) \/ KeptOld(p)

\* What the backup has too and is not newer is never removed, rewritten or
\* truncated, not even for a moment or by an attempt that fails: check_src...
\* removes a directory only if the backup has none of that name.
Untouched(p) == Same(orig, p) /\ orig[p] # Absent /\ (orig[p].kind \in {"file", "link"} => ~orig[p].new)

NeverTouchesSame == \A p \in Paths : Untouched(p) => src[p] = orig[p]

\* Nothing of the source is written before all of it is checked: what apply
\* finds in its way has the kind it needs.
NothingInTheWay == phase \in {"apply", "done"} => \A p \in Paths : src[p] = Absent \/ src[p].kind = bak[p].kind

\* Attempts that fail leave nothing a later one cannot finish, as long as the
\* backup is there.
Finishes == bak[Root] = Dir => <>(phase = "done")

-----------------------------------------------------------------------------
(* The inductive invariant behind Restored.                                *)

\* Every misfit that is still there will be visited.
CheckInv ==
  phase = "check" =>
    \A q \in Paths : src[q] = Absent \/ ~Foreign(q) \/ \E p \in todo : q \in Below[p]

\* Every entry of the backup is in place or will be visited, below directories.
ApplyInv ==
  phase = "apply" =>
    /\ \A q \in Paths : Same(src, q) \/ KeptOld(q) \/ \E p \in todo : q \in Below[p]
    /\ \A p \in todo : bak[p] # Absent
    /\ \A p \in todo, q \in Paths : p \in Below[q] /\ p # q => src[q] = Dir

\* What the command wrote is new, or a copy, whole or cut.
AgeInv ==
  \A p \in Paths :
    \/ src[p] \in {Absent, Dir, orig[p]}
    \/ src[p].kind \in {"file", "link"} /\ (src[p].new \/ Same(src, p) \/ src[p].data = Cut)

IndInv ==
  /\ TypeOK
  /\ Shaped(src) /\ Shaped(bak) /\ Shaped(orig)
  /\ NeverTouchesSame
  /\ NothingInTheWay
  /\ AgeInv
  /\ CheckInv
  /\ ApplyInv
  /\ Restored
=============================================================================
