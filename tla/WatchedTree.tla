----------------------------- MODULE WatchedTree -----------------------------
(***************************************************************************)
(* What a worker of moroz and of orlov watches: the source, a directory    *)
(* elsewhere on the same file system, the user who changes them, and       *)
(* inotify.  No code of the repository runs here; MirrorWorker and         *)
(* OrlovMirror extend it.                                                  *)
(*                                                                         *)
(* A path is a sequence of names that starts with "src" or "out".  Names   *)
(* of directories and of files are disjoint, so no path changes its kind;  *)
(* links and special files are left out; file contents are version         *)
(* numbers.  A directory has an inode, which a kernel watch follows        *)
(* through renames.  The source itself stays where it is.                  *)
(*                                                                         *)
(* A change is a system call or, for a file that is written, three: open,  *)
(* write and close.  Its events are queued one by one, after the tree has  *)
(* changed, and the worker may read and handle some before the next comes. *)
(***************************************************************************)
EXTENDS Naturals, Sequences, FiniteSets, SequencesExt

CONSTANTS
  DirNames,     \* names the user gives to directories
  FileNames,    \* names the user gives to files
  Nested,       \* whether directories hold directories
  Initial,      \* the paths there are at the start: a sequence
  Users,        \* the users there may be: the kinds of changes one makes and the
                \* places it touches; its patience, "always" waiting for the worker to
                \* be idle, before and after "moves", or "never"; how many changes it makes
  Mask,         \* the kinds of events the worker asks inotify for
  MaxOps,       \* bound: changes any user makes
  QueueMax      \* fs.inotify.max_queued_events

Src == <<"src">>
Out == <<"out">>
Top      == {Src, Out}
TopDirs  == {r \o <<d>> : r \in Top, d \in DirNames}
SubDirs  == IF Nested THEN {r \o <<d>> : r \in TopDirs, d \in DirNames} ELSE {}
DirPaths == Top \cup TopDirs \cup SubDirs
FilePaths == {r \o <<f>> : r \in DirPaths, f \in FileNames}
Paths    == DirPaths \cup FilePaths

Parent(p) == Front(p)
Name(p)   == Last(p)
IsDir(p)  == p \in DirPaths
Under(p, q) == IsPrefix(q, p)     \* p is q or lies below it
Moved(p, old, new) == new \o SubSeq(p, Len(old) + 1, Len(p))

ASSUME TreeAssumption ==
  /\ MaxOps \in Nat /\ QueueMax \in Nat
  /\ DirNames \cap FileNames = {} /\ "" \notin DirNames \cup FileNames
  /\ Nested \in BOOLEAN
  /\ Mask \subseteq {"create", "modify", "close_write", "delete", "moved_from", "moved_to", "delete_self"}
  /\ \A u \in Users :
       /\ u.kinds \subseteq {"write", "unlink", "mkdir", "rmdir", "rename", "move_out", "move_in"}
       /\ u.patience \in {"always", "moves", "never"}
       /\ u.changes \in 0 .. MaxOps
  /\ Initial \in Seq(Paths)
  /\ Top \subseteq ToSet(Initial)
  /\ \A p \in ToSet(Initial) \ Top : Parent(p) \in ToSet(Initial)

\* Both workers name an entry of the target by its source.
SrcPaths == {p \in Paths : Under(p, Src)}

VARIABLES
  user,       \* who changes the source
  node,       \* the user's file system: 0, or an inode, or a file's version
  ops,        \* changes made so far; numbers inodes, versions and cookies
  doing,      \* the change under way: what the kernel has still to report of it
  wdOf,       \* kernel: the watch descriptor of each watched inode
  lastWd,     \* kernel: watch descriptors are never reused
  queue,      \* kernel: events not yet read
  overflow    \* history: the kernel dropped an event

fsvars == <<user, node, ops, doing>>
kernel == <<wdOf, lastWd, queue, overflow>>

Inodes == 0 .. Len(Initial) + 2 * MaxOps

Reports == [dir : Inodes, path : Paths \ Top, cookie : 0 .. MaxOps,
            kind : {"create", "modify", "write", "close_write", "delete", "moved_from", "moved_to",
                    "delete_self", "ignored"}]

Exists(p)   == node[p] # 0
Children(p) == {c \in Paths : Exists(c) /\ Len(c) = Len(p) + 1 /\ Under(c, p)}

TreeTypeOK ==
  /\ user \in Users
  /\ node \in [Paths -> Inodes]
  /\ ops \in 0 .. MaxOps
  /\ doing \in Seq(Reports)
  /\ lastWd \in Nat
  /\ wdOf \in [Inodes -> 0 .. lastWd]
  /\ overflow \in BOOLEAN
  /\ \A i \in DOMAIN queue : queue[i].wd \in 1 .. lastWd /\ queue[i].cookie \in 0 .. MaxOps
  /\ Len(queue) <= QueueMax

TreeInit ==
  /\ user \in Users
  /\ node = [p \in Paths |-> IF Contains(Initial, p) THEN CHOOSE i \in DOMAIN Initial : Initial[i] = p
                             ELSE 0]
  /\ ops = 0
  /\ doing = <<>>
  /\ wdOf = [i \in Inodes |-> 0]
  /\ lastWd = 0
  /\ queue = <<>>
  /\ overflow = FALSE

-----------------------------------------------------------------------------
(* inotify.                                                                *)

\* What the watch of directory dir, an inode, will report of the entry at p.
Report(dir, kind, p, cookie) == [dir |-> dir, kind |-> kind, path |-> p, cookie |-> cookie]

OfSelf == {"delete_self", "ignored"}

\* The event it becomes; descriptor 0 stands for none.  A write is seen as IN_MODIFY.
Event(d) ==
  [wd |-> wdOf[d.dir], kind |-> IF d.kind = "write" THEN "modify" ELSE d.kind,
   name |-> IF d.kind \in OfSelf THEN "" ELSE Name(d.path),
   isdir |-> d.kind \notin OfSelf /\ IsDir(d.path), cookie |-> d.cookie]

\* The kernel queues an event whose directory is watched, unless it repeats the last
\* one, and drops what does not fit.
Now == [queue |-> queue, overflow |-> overflow]
Post(k, e) ==
  IF e.wd = 0 \/ (k.queue # <<>> /\ Last(k.queue) = e) THEN k
  ELSE IF Len(k.queue) >= QueueMax THEN [k EXCEPT !.overflow = TRUE]
  ELSE [k EXCEPT !.queue = Append(@, e)]

Emit(k) == queue' = k.queue /\ overflow' = k.overflow

\* Watches removed by inotify_rm_watch or with their inode: IN_IGNORED.
Ignored(wd) == [wd |-> wd, kind |-> "ignored", name |-> "", isdir |-> FALSE, cookie |-> 0]

\* inotify_add_watch returns the descriptor the inode already has, if any.
WdFor(p) == IF wdOf[node[p]] # 0 THEN wdOf[node[p]] ELSE lastWd + 1

AddWatch(p) ==
  /\ wdOf' = [wdOf EXCEPT ![node[p]] = WdFor(p)]
  /\ lastWd' = IF wdOf[node[p]] # 0 THEN lastWd ELSE lastWd + 1
  /\ UNCHANGED <<queue, overflow>>

\* inotify_rm_watch fails when the kernel has no such watch.
HasWatch(wd) == \E i \in Inodes : wdOf[i] = wd

RemoveWatch(wd) ==
  /\ wdOf' = [i \in Inodes |-> IF wdOf[i] = wd THEN 0 ELSE wdOf[i]]
  /\ Emit(IF HasWatch(wd) THEN Post(Now, Ignored(wd)) ELSE Now)

-----------------------------------------------------------------------------
(* The user.                                                               *)

Moves == {"rename", "move_out", "move_in"}

\* The user's turn, when its last change has returned, and the worker is idle or has
\* no half of a move before it.
Turn(op, idle, unmoved) ==
  /\ doing = <<>>
  /\ op \in user.kinds
  /\ \/ user.patience = "never"
     \/ idle
     \/ user.patience = "moves" /\ op \notin Moves /\ unmoved
  /\ ops < user.changes
  /\ ops' = ops + 1
  /\ UNCHANGED <<user, kernel>>

\* Numbers for what the next change makes, and for what the last one has opened and
\* written.
Fresh   == Len(Initial) + 2 * ops + 1
Opened  == Len(Initial) + 2 * ops - 1
Written == Len(Initial) + 2 * ops

ReportOf(kind, p, cookie) == Report(node[Parent(p)], kind, p, cookie)

\* Create a file or open one with O_TRUNC; then write and close it.
Write(p) ==
  /\ p \in FilePaths /\ Exists(Parent(p))
  /\ node' = [node EXCEPT ![p] = Fresh]
  /\ doing' = <<ReportOf(IF Exists(p) THEN "modify" ELSE "create", p, 0),
                ReportOf("write", p, 0), ReportOf("close_write", p, 0)>>

Unlink(p) ==
  /\ p \in FilePaths /\ Exists(p)
  /\ node' = [node EXCEPT ![p] = 0]
  /\ doing' = <<ReportOf("delete", p, 0)>>

MkDir(p) ==
  /\ p \in DirPaths /\ Exists(Parent(p)) /\ ~Exists(p)
  /\ node' = [node EXCEPT ![p] = Fresh]
  /\ doing' = <<ReportOf("create", p, 0)>>

\* The inode goes, and its watch with it; kernels differ in which event is first.
RmDir(p) ==
  LET self(kind) == Report(node[p], kind, p, 0)
      entry      == ReportOf("delete", p, 0)
  IN
  /\ p \in DirPaths /\ Exists(p) /\ Children(p) = {}
  /\ node' = [node EXCEPT ![p] = 0]
  /\ doing' \in {<<self("delete_self"), self("ignored"), entry>>,
                <<entry, self("delete_self"), self("ignored")>>}

\* rename(p, q): a file may replace a file; out of, into or within the source.
Rename(op, p, q) ==
  LET moves == {x \in Paths : Exists(x) /\ Under(x, p)} IN
  /\ op = IF Under(p, Src) THEN IF Under(q, Src) THEN "rename" ELSE "move_out" ELSE "move_in"
  /\ Exists(p) /\ Exists(Parent(q)) /\ p # q /\ ~Under(q, p)
  /\ IsDir(p) <=> IsDir(q)
  /\ IsDir(q) => ~Exists(q)
  /\ \A x \in moves : Moved(x, p, q) \in Paths
  /\ node' = [x \in Paths |->
                IF Under(x, q) /\ Moved(x, q, p) \in moves THEN node[Moved(x, q, p)]
                ELSE IF x \in moves THEN 0 ELSE node[x]]
  /\ doing' = <<ReportOf("moved_from", p, ops + 1), ReportOf("moved_to", q, ops + 1)>>

Touched == (Paths \cap user.places) \ Top

\* One change of kind op, to p alone or from p to q.
Change(op, p, q) ==
  \/ op = "write" /\ p = q /\ Write(p)
  \/ op = "unlink" /\ p = q /\ Unlink(p)
  \/ op = "mkdir" /\ p = q /\ MkDir(p)
  \/ op = "rmdir" /\ p = q /\ RmDir(p)
  \/ op \in Moves /\ Rename(op, p, q)

\* The change goes on: its next event is queued, if the worker asked for it.  A file's
\* content is there from "write" on; the watch of a directory that was removed goes with
\* IN_IGNORED.
Proceed ==
  LET d == Head(doing)
      e == Event(d)
  IN
  /\ doing # <<>>
  /\ doing' = Tail(doing)
  /\ node' = IF d.kind = "write" THEN [node EXCEPT ![d.path] = Written] ELSE node
  /\ wdOf' = IF d.kind = "ignored" THEN [wdOf EXCEPT ![d.dir] = 0] ELSE wdOf
  /\ Emit(IF e.kind \in Mask \cup {"ignored"} THEN Post(Now, e) ELSE Now)
  /\ UNCHANGED <<user, ops, lastWd>>
=============================================================================
