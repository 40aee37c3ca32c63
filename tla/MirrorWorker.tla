---------------------------- MODULE MirrorWorker ----------------------------
(***************************************************************************)
(* A worker of moroz/p1/mykhailo_moroz/src/main.c: the initial copy_tree,  *)
(* add_watch_tree, and the event loop of monitor_and_mirror with its watch *)
(* map and its table of pending moves, while a user changes the source.    *)
(*                                                                         *)
(* The worker's map holds the paths it knew when it set a watch or saw a   *)
(* directory move, while the kernel's watch follows the inode; the loss of *)
(* the source itself ends the worker (BackupSupervisor).                   *)
(*                                                                         *)
(* The code loses changes in seven ways; each adds to the history lost:    *)
(*   a change after a directory was first copied and before it is watched; *)
(*   a walk that ends at an entry that vanished, with the rest unvisited;  *)
(*   a directory that gets a second watch entry, moved out and in again;   *)
(*   a pending move that is dropped from a full table, or that expires     *)
(*   when something else has its path or another pending move is above it; *)
(*   a rename the target refuses, or that crosses another pending move;    *)
(*   an event, or a walk's entry, with a path that its directory has left, *)
(*   by a move the worker has not handled yet;                             *)
(*   a directory that moves before the first walk has watched it.          *)
(* What the worker misses for any other reason violates Converged.         *)
(***************************************************************************)
EXTENDS WatchedTree

CONSTANT PendingMax   \* PENDING_MAX

ASSUME MirrorAssumption ==
  /\ PendingMax \in Nat \ {0}
  /\ Mask = {"create", "close_write", "delete", "moved_from", "moved_to", "delete_self"}

Overlap(p, q) == Under(p, q) \/ Under(q, p)

VARIABLES
  pc,         \* where the worker is
  inbuf,      \* events read and not yet handled
  map,        \* WatchMap: a sequence of wd and path
  pending,    \* PendingMoves
  scanTodo,   \* add_watch_tree: directories it still has to watch
  listTodo,   \* add_watch_tree: directories it watches and still has to list
  copyTodo,   \* copy_tree: entries it still has to visit
  dst,        \* the target, by the path of the source: 0, or 1 for a directory,
              \* or the version of a file
  lost        \* history: source paths a cause named below made the worker miss

tables == <<map, pending>>
work   == <<scanTodo, listTodo, copyTodo>>
vars   == <<fsvars, kernel, pc, inbuf, tables, work, dst, lost>>

TypeOK ==
  /\ TreeTypeOK
  /\ pc \in {"start", "copy0", "scan0", "loop", "read", "handle", "scan", "copy", "failed"}
  /\ \A e \in ToSet(inbuf) : e.wd \in 1 .. lastWd /\ e.cookie \in 0 .. MaxOps
  /\ \A w \in ToSet(map) : w.wd \in 1 .. lastWd /\ Under(w.path, Src)
  /\ Len(pending) <= PendingMax
  /\ scanTodo \cup listTodo \subseteq DirPaths
  /\ copyTodo \subseteq SrcPaths
  /\ dst \in [SrcPaths -> Inodes]
  /\ lost \subseteq Paths

Init ==
  /\ TreeInit
  /\ pc = "start"
  /\ inbuf = <<>>
  /\ map = <<>>
  /\ pending = <<>>
  /\ scanTodo = {}
  /\ listTodo = {}
  /\ copyTodo = {}
  /\ dst = [p \in SrcPaths |-> IF p = Src THEN 1 ELSE 0]
  /\ lost = {}

-----------------------------------------------------------------------------
(* The user, and what the worker does not see of its changes.              *)

Idle == pc = "read" /\ queue = <<>> /\ doing = <<>>
Unmoved == \A e \in ToSet(queue) \cup ToSet(inbuf) : e.kind \notin {"moved_from", "moved_to"}

Lost(p) == \E q \in lost : Under(p, q)

\* What was lost below p is lost below q once p has moved there.
LostWith(p, q) == {x \in Paths : Under(x, q) /\ Lost(Moved(x, q, p))}

\* What changes after it was copied and before it is watched is lost.
Unseen(ps) == {p \in ps : pc \in {"copy0", "scan0"} /\ wdOf[node[Parent(p)]] = 0}

User ==
  /\ \/ \E op \in user.kinds :
          /\ Turn(op, Idle, Unmoved)
          /\ \E p, q \in Touched :
               /\ Change(op, p, q)
               /\ lost' = lost \cup Unseen({p, q}) \cup (IF p = q THEN {} ELSE LostWith(p, q))
     \/ /\ Proceed
        /\ lost' = lost \cup (IF Head(doing).kind = "write" THEN Unseen({Head(doing).path}) ELSE {})
  /\ UNCHANGED <<pc, inbuf, tables, work, dst>>

-----------------------------------------------------------------------------
(* The target tree.                                                        *)

\* lstat; a path out of date may be deeper than any in the tree.
Found(p) == p \in Paths /\ Exists(p)

RmTree(d, p) == [x \in SrcPaths |-> IF Under(x, p) THEN 0 ELSE d[x]]

SplitDirBase(p) == [dir |-> Front(p), base |-> Last(p)]

\* Each directory on the way to p, and p; one that is there is fine.
MkdirP(d, p) == [x \in SrcPaths |-> IF Under(p, x) THEN 1 ELSE d[x]]

\* ensure_parent_dir
WithParents(d, p) == MkdirP(d, SplitDirBase(p).dir)

\* copy_file, or mkdir of a directory.
Copied(p) == IF IsDir(p) THEN 1 ELSE node[p]

\* mirror_create_or_update: nothing if the source path is gone.
CreateOrUpdate(d, p) == IF ~Found(p) THEN d ELSE [WithParents(d, p) EXCEPT ![p] = Copied(p)]

\* rename(dst_old, dst_path) and its refusals: nothing to rename, a directory
\* into itself, a directory onto one that is not empty.
RenameInDst(d, old, new) ==
  LET held(p) == {x \in SrcPaths : d[x] # 0 /\ Under(x, p)}
      target(x) == Moved(x, old, new)
  IN IF \/ old \notin SrcPaths \/ new \notin SrcPaths \/ d[old] = 0 \/ Under(new, old)
        \/ held(new) \ {new} # {}
        \/ \E x \in held(old) : target(x) \notin SrcPaths
     THEN d
     ELSE [x \in SrcPaths |->
             IF Under(x, new) THEN LET y == Moved(x, new, old) IN
                                   IF y \in SrcPaths THEN d[y] ELSE 0
             ELSE IF Under(x, old) THEN 0 ELSE d[x]]

-----------------------------------------------------------------------------
(* The watch map and the pending moves.                                    *)

RemoveSwap(s, i) == SubSeq([s EXCEPT ![i] = Last(s)], 1, Len(s) - 1)

\* watch_find: index of the first entry with the descriptor, or 0.
WatchFind(m, wd) == SelectInSeq(m, LAMBDA e : e.wd = wd)

WatchRemove(m, wd) == IF WatchFind(m, wd) = 0 THEN m ELSE RemoveSwap(m, WatchFind(m, wd))

WatchUpdatePrefix_Exact(m, old, new) ==
  [i \in DOMAIN m |-> IF m[i].path = old THEN [m[i] EXCEPT !.path = new] ELSE m[i]]

WatchUpdatePrefix(m, old, new) ==
  [i \in DOMAIN m |->
     IF Under(m[i].path, old) THEN [m[i] EXCEPT !.path = Moved(@, old, new)] ELSE m[i]]

\* watch_remove_subtree: at index i remove the first entry with the same wd, or
\* go on to i + 1; either way one step of at most Len(m).
WithoutSubtree(m, p) ==
  FoldLeft(LAMBDA acc, e :
             IF acc.i > Len(acc.m) THEN acc
             ELSE LET w == acc.m[acc.i] IN
                  IF Under(w.path, p)
                  THEN [acc EXCEPT !.m = WatchRemove(@, w.wd), !.wds = Append(@, w.wd)]
                  ELSE [acc EXCEPT !.i = @ + 1],
           [m |-> m, i |-> 1, wds |-> <<>>], m)

\* ... and inotify_rm_watch for each, in this order.
RemoveWatches(wds) ==
  LET live == SelectSeq(wds, HasWatch) IN
  /\ wdOf' = [i \in Inodes |-> IF wdOf[i] \in ToSet(live) THEN 0 ELSE wdOf[i]]
  /\ Emit(FoldLeft(LAMBDA k, wd : Post(k, Ignored(wd)), Now, live))

RemoveSubtrees(ps) ==
  LET r == FoldLeft(LAMBDA acc, p :
                      LET s == WithoutSubtree(acc.m, p) IN
                      [m |-> s.m, wds |-> acc.wds \o s.wds],
                    [m |-> map, wds |-> <<>>], ps)
  IN
  /\ map' = r.m
  /\ RemoveWatches(r.wds)

\* pending_move_add: a full table drops its oldest entry and forgets it.
PendingAdd(mv) ==
  IF Len(pending) < PendingMax
  THEN pending' = Append(pending, mv) /\ UNCHANGED lost
  ELSE \E i \in DOMAIN pending :
         /\ \A j \in DOMAIN pending : pending[j].old => pending[i].old
         /\ pending' = Append(RemoveSwap(pending, i), mv)
         /\ lost' = lost \cup {pending[i].path}

PendingIndex(cookie) == SelectInSeq(pending, LAMBDA mv : mv.cookie = cookie)

\* A second passes: what is pending now is old enough to expire.
Tick ==
  /\ \E i \in DOMAIN pending : ~pending[i].old
  /\ pending' = [i \in DOMAIN pending |-> [pending[i] EXCEPT !.old = TRUE]]
  /\ UNCHANGED <<fsvars, kernel, pc, inbuf, map, work, dst, lost>>

-----------------------------------------------------------------------------
(* Paths that are out of date.                                             *)

\* What is at p has moved on, and the worker has not handled the event that says so.
Unhandled == inbuf \o queue \o [i \in DOMAIN doing |-> Event(doing[i])]
MovedOn(p) ==
  \E e \in ToSet(Unhandled) :
    /\ e.kind = "moved_from" /\ WatchFind(map, e.wd) # 0
    /\ Under(p, Append(map[WatchFind(map, e.wd)].path, e.name))

\* Whatever the worker finds there, it is not what it takes it for.
Stale(p) == IF MovedOn(p) THEN {p} ELSE {}

-----------------------------------------------------------------------------
(* copy_tree and add_watch_tree: one entry at a time, in any order; the    *)
(* first failure ends the whole walk.                                      *)

Start ==
  /\ pc = "start"
  /\ pc' = "copy0"
  /\ copyTodo' = Children(Src)
  /\ UNCHANGED <<fsvars, kernel, inbuf, tables, scanTodo, listTodo, dst, lost>>

CopyEntry(p) ==
  /\ pc \in {"copy0", "copy"}
  /\ p \in copyTodo
  /\ IF Found(p) /\ dst[Parent(p)] # 0
     THEN /\ dst' = [dst EXCEPT ![p] = Copied(p)]
          /\ copyTodo' = (copyTodo \ {p}) \cup (IF IsDir(p) THEN Children(p) ELSE {})
          /\ lost' = lost \cup Stale(p)
     ELSE /\ copyTodo' = {}
          /\ lost' = lost \cup copyTodo
          /\ UNCHANGED dst
  /\ UNCHANGED <<fsvars, kernel, pc, inbuf, tables, scanTodo, listTodo>>

CopyEnds ==
  /\ copyTodo = {}
  /\ \/ pc = "copy0" /\ pc' = "scan0" /\ scanTodo' = {Src}
     \/ pc = "copy" /\ pc' = "handle" /\ UNCHANGED scanTodo
  /\ UNCHANGED <<fsvars, kernel, inbuf, tables, copyTodo, listTodo, dst, lost>>

\* watch_add: the map gets an entry whether or not the inode has one.
WatchAdd(m, wd, p) == Append(m, [wd |-> wd, path |-> p])

ScanDir(p) ==
  LET wd == WdFor(p) IN
  /\ pc \in {"scan0", "scan"}
  /\ p \in scanTodo
  /\ Found(p)
  /\ AddWatch(p)
  /\ map' = WatchAdd(map, wd, p)
  /\ scanTodo' = scanTodo \ {p}
  /\ listTodo' = listTodo \cup {p}
  /\ lost' = lost \cup Stale(p)
             \cup (IF WatchFind(map, wd) = 0 \/ map[WatchFind(map, wd)].path = p THEN {} ELSE {p})
  /\ UNCHANGED <<fsvars, inbuf, pending, copyTodo, dst, pc>>

\* readdir, after the watch is there: the user may have come in between.
ListDir(p) ==
  /\ pc \in {"scan0", "scan"}
  /\ p \in listTodo
  /\ Found(p)
  /\ listTodo' = listTodo \ {p}
  /\ scanTodo' = scanTodo \cup {c \in Children(p) : IsDir(c)}
  /\ lost' = lost \cup Stale(p)
  /\ UNCHANGED <<fsvars, kernel, pc, inbuf, tables, copyTodo, dst>>

\* Only the first walk's failure ends the worker.
ScanFails ==
  /\ pc \in {"scan0", "scan"}
  /\ \E p \in scanTodo \cup listTodo : ~Found(p)
  /\ scanTodo' = {}
  /\ listTodo' = {}
  /\ pc' = IF pc = "scan0" THEN "failed" ELSE pc
  /\ lost' = lost \cup scanTodo \cup listTodo
  /\ UNCHANGED <<fsvars, kernel, inbuf, tables, copyTodo, dst>>

ScanEnds_NoCopy ==
  /\ scanTodo = {} /\ listTodo = {}
  /\ \/ pc = "scan0" /\ pc' = "loop" /\ UNCHANGED copyTodo
     \/ pc = "scan" /\ pc' = "copy" /\ copyTodo' = {}
  /\ lost' = lost \cup UNION {Stale(p) : p \in copyTodo}
  /\ UNCHANGED <<fsvars, kernel, inbuf, tables, scanTodo, listTodo, dst>>

\* The walk of a new directory, kept in copyTodo, is followed by its copy.
ScanEnds ==
  /\ scanTodo = {} /\ listTodo = {}
  /\ \/ pc = "scan0" /\ pc' = "loop" /\ UNCHANGED copyTodo
     \/ pc = "scan" /\ pc' = "copy" /\ copyTodo' = UNION {Children(p) : p \in copyTodo}
  /\ lost' = lost \cup UNION {Stale(p) : p \in copyTodo}
  /\ UNCHANGED <<fsvars, kernel, inbuf, tables, scanTodo, listTodo, dst>>

-----------------------------------------------------------------------------
(* monitor_and_mirror.                                                     *)

\* pm_1s_expire, once before every read.
Expire ==
  LET old == SelectSeq(pending, LAMBDA mv : mv.old)
      dirs == SelectSeq(old, LAMBDA mv : mv.isdir)
  IN
  /\ pc = "loop"
  /\ pc' = "read"
  /\ dst' = FoldLeft(LAMBDA d, mv : RmTree(d, mv.path), dst, old)
  /\ RemoveSubtrees([i \in DOMAIN dirs |-> dirs[i].path])
  /\ pending' = SelectSeq(pending, LAMBDA mv : ~mv.old)
  /\ lost' = lost \cup {mv.path : mv \in {m \in ToSet(old) :
                      Found(m.path) \/ \E k \in ToSet(pending) \ {m} : Under(m.path, k.path)}}
  /\ UNCHANGED <<fsvars, lastWd, inbuf, work>>

Read ==
  /\ pc = "read"
  /\ queue # <<>>
  /\ inbuf' = queue
  /\ queue' = <<>>
  /\ pc' = "handle"
  /\ UNCHANGED <<fsvars, wdOf, lastWd, overflow, tables, work, dst, lost>>

BufferDone ==
  /\ pc = "handle"
  /\ inbuf = <<>>
  /\ pc' = "loop"
  /\ UNCHANGED <<fsvars, kernel, inbuf, tables, work, dst, lost>>

\* The event at hand, of one of these kinds, and the source path it names.
Handling(kinds) ==
  /\ pc = "handle"
  /\ inbuf # <<>>
  /\ Head(inbuf).kind \in kinds
  /\ WatchFind(map, Head(inbuf).wd) # 0
  /\ inbuf' = Tail(inbuf)
  /\ UNCHANGED <<fsvars, lastWd>>

E0   == Head(inbuf)
Base == map[WatchFind(map, E0.wd)].path
Path == IF E0.name = "" THEN Base ELSE Base \o <<E0.name>>

\* An event of a descriptor that is not in the map is skipped.
SkipUnknown ==
  /\ pc = "handle"
  /\ inbuf # <<>>
  /\ WatchFind(map, E0.wd) = 0
  /\ inbuf' = Tail(inbuf)
  /\ UNCHANGED <<fsvars, kernel, pc, tables, work, dst, lost>>

HandleIgnored ==
  /\ Handling({"ignored"})
  /\ map' = WatchRemove(map, E0.wd)
  /\ UNCHANGED <<pc, wdOf, queue, overflow, pending, work, dst, lost>>

HandleDeleteSelf ==
  /\ Handling({"delete_self"})
  /\ dst' = RmTree(dst, Path)
  /\ RemoveSubtrees(<<Path>>)
  /\ UNCHANGED <<pc, pending, work, lost>>

HandleMovedFrom ==
  /\ Handling({"moved_from"})
  /\ PendingAdd([cookie |-> E0.cookie, isdir |-> E0.isdir, path |-> Path, old |-> FALSE])
  /\ UNCHANGED <<pc, wdOf, queue, overflow, map, work, dst>>

HandleMoveWithin ==
  LET i == PendingIndex(E0.cookie) IN
  /\ Handling({"moved_to"})
  /\ i # 0
  /\ dst' = RenameInDst(WithParents(dst, Path), pending[i].path, Path)
  /\ map' = IF pending[i].isdir THEN WatchUpdatePrefix(map, pending[i].path, Path) ELSE map
  /\ pending' = RemoveSwap(pending, i)
  /\ lost' = lost \cup LostWith(pending[i].path, Path)
             \cup (IF \/ dst' = WithParents(dst, Path)
                      \/ pending[i].isdir /\ \A w \in ToSet(map) : ~Under(w.path, pending[i].path)
                      \/ \E k \in DOMAIN pending \ {i}, p \in {pending[i].path, Path} : Overlap(p, pending[k].path)
                   THEN {pending[i].path, Path} ELSE {})
  /\ UNCHANGED <<pc, wdOf, queue, overflow, work>>

\* A directory that is new to the worker: make it, watch its tree, copy it.
HandleNewDir ==
  /\ Handling({"create", "moved_to"})
  /\ E0.isdir
  /\ E0.kind = "moved_to" => PendingIndex(E0.cookie) = 0
  /\ dst' = CreateOrUpdate(dst, Path)
  /\ scanTodo' = {Path}
  /\ copyTodo' = {Path}
  /\ pc' = "scan"
  /\ lost' = lost \cup Stale(Path)
  /\ UNCHANGED <<wdOf, queue, overflow, tables, listTodo>>

\* A regular file's content is there at close, or when it is moved in.
HandleFile ==
  /\ Handling({"close_write", "moved_to"})
  /\ ~E0.isdir
  /\ E0.kind = "moved_to" => PendingIndex(E0.cookie) = 0
  /\ dst' = CreateOrUpdate(dst, Path)
  /\ lost' = lost \cup Stale(Path)
  /\ UNCHANGED <<pc, wdOf, queue, overflow, tables, work>>

\* IN_CREATE of a file: only a link would be copied.
HandleCreateFile ==
  /\ Handling({"create"})
  /\ ~E0.isdir
  /\ UNCHANGED <<pc, wdOf, queue, overflow, tables, work, dst, lost>>

HandleDelete ==
  /\ Handling({"delete"})
  /\ dst' = RmTree(dst, Path)
  /\ IF E0.isdir THEN RemoveSubtrees(<<Path>>) ELSE UNCHANGED <<map, wdOf, queue, overflow>>
  /\ UNCHANGED <<pc, pending, work, lost>>

Worker ==
  \/ Start \/ (\E p \in SrcPaths : CopyEntry(p)) \/ CopyEnds
  \/ (\E p \in DirPaths : ScanDir(p) \/ ListDir(p)) \/ ScanFails \/ ScanEnds
  \/ Expire \/ Read \/ BufferDone \/ SkipUnknown
  \/ HandleIgnored \/ HandleDeleteSelf \/ HandleMovedFrom \/ HandleMoveWithin
  \/ HandleNewDir \/ HandleFile \/ HandleCreateFile \/ HandleDelete

Next == User \/ Worker \/ Tick

Spec == Init /\ [][Next]_vars

-----------------------------------------------------------------------------
\* A moved-out entry stays in the target until the worker reads again.
Settling(p) == \E i \in DOMAIN pending : Under(p, pending[i].path)

Excused(p) == overflow \/ Lost(p) \/ Settling(p)
Mirrored(p) == IF IsDir(p) THEN (dst[p] # 0) = Found(p) ELSE dst[p] = node[p]

\* A user who waits for the worker before each change, and moves nothing out.
Gentle == user.patience = "always" /\ "move_out" \notin user.kinds

\* When the worker waits in read and no event is queued, the target holds what
\* the source holds, but for what is lost by a cause the history names, or
\* pending: the events and the walks of monitor_and_mirror miss nothing else, and
\* for a gentle user they miss nothing at all.
Converged ==
  /\ Idle => \A p \in SrcPaths : Mirrored(p) \/ Excused(p)
  /\ Gentle => lost = {} /\ ~overflow

PathOf(wd) == map[WatchFind(map, wd)].path
IsWatched(p) == WatchFind(map, wdOf[node[p]]) # 0 /\ PathOf(wdOf[node[p]]) = p

\* ... and the watch map is current: each directory of the source is watched and
\* watch_find gives its present path for its descriptor, and no entry is left
\* over for a directory that is gone.
WatchesCurrent ==
  Idle => /\ \A p \in DirPaths : Found(p) /\ Under(p, Src) => IsWatched(p) \/ Excused(p)
          /\ \A w \in ToSet(map) : (Found(w.path) /\ w.wd = wdOf[node[w.path]]) \/ Excused(w.path)
=============================================================================
