---------------------------- MODULE OrlovMirror ----------------------------
(***************************************************************************)
(* A worker of orlov/project_1/main.c: the initial copy, the watches and   *)
(* the event loop of run_worker, while a user changes the source; then the *)
(* restore that stops it and writes the source from the target, while the  *)
(* user waits.  How a worker is started and stopped is OrlovSupervisor.    *)
(*                                                                         *)
(* A directory that appears is copied first and watched afterwards; one    *)
(* that is moved is removed and copied anew.  A walk visits one entry per  *)
(* step, in any order, and ends at the first entry that has gone.          *)
(*                                                                         *)
(* The code loses changes in four ways; each adds to the history lost:     *)
(*   a change in a directory that has been copied and is not watched yet;  *)
(*   a copy or a walk for watches that ends at an entry that vanished;     *)
(*   a full watch table;                                                   *)
(*   a watch removed with its old path after the directory got a second    *)
(*   entry, with its new path, for the same descriptor.                    *)
(* What the worker misses for any other reason violates Converged.         *)
(*                                                                         *)
(* Sizes and modification times are left out: restore_entry may take any   *)
(* other version of a file for the one in the target.                      *)
(***************************************************************************)
EXTENDS WatchedTree

CONSTANT MaxWatches   \* MAX_WATCHES

ASSUME OrlovMirrorAssumption ==
  /\ MaxWatches \in Nat \ {0}
  /\ Mask = {"create", "modify", "close_write", "delete", "moved_from", "moved_to", "delete_self"}

VARIABLES
  pc,       \* "copy0", "watch0": before the loop; "read"; "handle"; "copy", "watch":
            \* a directory that appeared; "sweep": one that went; "exited"; "restoring",
            \* "restored": after it
  inbuf,    \* events read and not yet handled
  map,      \* WatchMap: a sequence of wd and path
  toCopy,   \* copy_dir: entries to visit
  toWatch,  \* add_watch_recursive: directories to visit
  toList,   \* add_watch_recursive: directories watched and not listed yet
  gone,     \* remove_watches_under: the path it is given, or NoPath
  dst,      \* the target, by the path of the source: 0, or 1 for a directory, or the
            \* version of a file
  copied,   \* history: directories listed by this copy
  full,     \* history: a walk met a full table
  lost,     \* history: source paths a cause named above made the worker miss
  toRestore,  \* restore_dir: entries of the target to visit
  toKeep,     \* restore_dir: directories whose other entries are still to be removed
  kept,     \* history: files of which restore_entry left another version in the source
  before,   \* history: the source before the last change of a user who waits, or as it
            \* is if its events have been read
  after,    \* history: the source when the worker was stopped
  heard,    \* history: the worker has read an event of the last change of such a user
  half      \* history: the worker was stopped with a part of these events read

NoPath == <<>>

walk == <<toCopy, toWatch, toList, gone>>
restore == <<toRestore, toKeep, kept>>
hist == <<before, after, half>>
vars == <<fsvars, kernel, pc, inbuf, map, walk, dst, copied, full, lost, restore, hist, heard>>

Kinds  == {"create", "modify", "close_write", "delete", "moved_from", "moved_to", "delete_self", "ignored"}
Events == [wd : Nat, kind : Kinds, name : DirNames \cup FileNames \cup {""}, isdir : BOOLEAN,
           cookie : Nat]
Entries == [wd : Nat, path : DirPaths \cap SrcPaths]

\* For a user who waits for the worker before each change and a queue that was never full.
TypeOK ==
  /\ TreeTypeOK /\ queue \in Seq(Events)
  /\ pc \in {"copy0", "watch0", "read", "handle", "copy", "watch", "sweep", "exited",
             "restoring", "restored"}
  /\ inbuf \in Seq(Events) /\ \A e \in ToSet(inbuf) : e.wd \in 1 .. lastWd
  /\ map \in Seq(Entries) /\ \A w \in ToSet(map) : w.wd \in 1 .. lastWd
  /\ Len(map) <= MaxWatches
  /\ toCopy \subseteq SrcPaths /\ toWatch \cup toList \subseteq DirPaths \cap SrcPaths
  /\ gone \in (DirPaths \cap SrcPaths) \cup {NoPath}
  /\ dst \in [SrcPaths -> Inodes]
  /\ copied \subseteq DirPaths /\ full \in BOOLEAN /\ lost \subseteq SrcPaths
  /\ toRestore \cup kept \subseteq SrcPaths /\ toKeep \subseteq DirPaths \cap SrcPaths
  /\ before \in [Paths -> Inodes] /\ after \in [Paths -> Inodes]
  /\ heard \in BOOLEAN /\ half \in BOOLEAN

Init ==
  /\ TreeInit
  /\ pc = "copy0" /\ inbuf = <<>> /\ map = <<>>
  /\ toCopy = {Src} /\ toWatch = {} /\ toList = {} /\ gone = NoPath
  /\ dst = [p \in SrcPaths |-> 0]
  /\ copied = {} /\ full = FALSE /\ lost = {}
  /\ toRestore = {} /\ toKeep = {} /\ kept = {}
  /\ before = node /\ after = node /\ heard = TRUE /\ half = FALSE

-----------------------------------------------------------------------------
(* The user, and what the worker does not see of its changes.              *)

\* Some event is of a change to an entry.
Telling(s) == \E e \in ToSet(s) : e.kind \notin OfSelf

Attentive == user.patience = "always"

Idle    == pc = "read" /\ queue = <<>> /\ doing = <<>>
Unmoved == \A e \in ToSet(queue) \cup ToSet(inbuf) : e.kind \notin {"moved_from", "moved_to"}

Lost(p)  == \E q \in lost : Under(p, q)
Below(p) == {x \in SrcPaths : Under(x, p)}

Unseen(p) == Parent(p) \in copied /\ wdOf[node[Parent(p)]] = 0

User ==
  /\ pc \notin {"restoring", "restored"}
  /\ \/ /\ \E op \in user.kinds :
             /\ Turn(op, Idle, Unmoved)
             /\ \E p, q \in Touched :
                  /\ Change(op, p, q)
                  /\ lost' = lost \cup {x \in {p, q} \cap SrcPaths : Unseen(x)}
        /\ before' = (IF Attentive THEN node ELSE before)
        /\ heard' = ~Attentive
     \/ /\ Proceed
        /\ lost' = lost \cup {x \in {Head(doing).path} \cap SrcPaths : Head(doing).kind = "write" /\ Unseen(x)}
        /\ UNCHANGED <<before, heard>>
  /\ UNCHANGED <<pc, inbuf, map, walk, dst, copied, full, restore, after, half>>

-----------------------------------------------------------------------------
(* copy_entry and copy_dir.                                                *)

\* ensure_dir: p becomes a directory, and what is missing above it.
EnsureDir(p) == [x \in SrcPaths |-> IF Under(p, x) THEN 1 ELSE dst[x]]

CopyFile(p) == [EnsureDir(Parent(p)) EXCEPT ![p] = node[p]]

RemovePath(p) == [x \in SrcPaths |-> IF Under(x, p) THEN 0 ELSE dst[x]]

CopyEntry(p) ==
  /\ p \in toCopy /\ Exists(p)
  /\ dst' = IF IsDir(p) THEN EnsureDir(p) ELSE CopyFile(p)
  /\ toCopy' = (toCopy \ {p}) \cup (IF IsDir(p) THEN Children(p) ELSE {})
  /\ copied' = IF IsDir(p) THEN copied \cup {p} ELSE copied
  /\ UNCHANGED <<fsvars, kernel, pc, inbuf, map, toWatch, toList, gone, full, lost>>

\* An entry has gone: the initial copy ends the worker, a later one ends unnoticed.
CopyFails ==
  /\ \E p \in toCopy : ~Exists(p)
  /\ toCopy' = {}
  /\ lost' = lost \cup {p \in toCopy : Exists(p)}
  /\ pc' = IF pc = "copy0" THEN "exited" ELSE pc
  /\ UNCHANGED <<fsvars, kernel, inbuf, map, toWatch, toList, gone, dst, copied, full>>

CopyEnds ==
  /\ toCopy = {}
  /\ \/ pc = "copy0" /\ pc' = "watch0" /\ toWatch' = {Src}
     \/ pc = "copy" /\ pc' = "watch" /\ UNCHANGED toWatch
  /\ UNCHANGED <<fsvars, kernel, inbuf, map, toCopy, toList, gone, dst, copied, full, lost>>

-----------------------------------------------------------------------------
(* The watch table.                                                        *)

RemoveSwap_Last(s, i) == Front(s)

RemoveSwap(s, i) == SubSeq([s EXCEPT ![i] = Last(s)], 1, Len(s) - 1)

\* Index of the first entry with the descriptor, or 0.
WatchMapFind(wd) == SelectInSeq(map, LAMBDA w : w.wd = wd)

WatchMapRemove(wd) ==
  IF WatchMapFind(wd) = 0 THEN map ELSE RemoveSwap(map, WatchMapFind(wd))

Watching == pc \in {"watch0", "watch"} /\ toCopy = {}

\* lstat, inotify_add_watch and opendir fail when the directory has gone, and nothing
\* more is watched by this walk; at the start that ends the worker.
GiveUp ==
  /\ lost' = lost \cup UNION {Below(p) : p \in {q \in toWatch \cup toList : Exists(q)}}
  /\ toWatch' = {} /\ toList' = {}
  /\ pc' = IF pc = "watch0" THEN "exited" ELSE pc

AddWatchEntry(p) ==
  /\ Watching /\ p \in toWatch /\ Exists(p) /\ Len(map) < MaxWatches
  /\ AddWatch(p)
  /\ map' = Append(map, [wd |-> WdFor(p), path |-> p])
  /\ toWatch' = toWatch \ {p}
  /\ toList' = toList \cup {p}
  /\ UNCHANGED <<fsvars, pc, inbuf, toCopy, gone, dst, copied, full, lost>>

TooManyWatches ==
  /\ Watching /\ Len(map) >= MaxWatches /\ \E p \in toWatch : Exists(p)
  /\ GiveUp /\ full' = TRUE
  /\ UNCHANGED <<fsvars, kernel, inbuf, map, toCopy, gone, dst, copied>>

ListSubdirs_Flat(p) ==
  /\ Watching /\ p \in toList /\ Exists(p)
  /\ toList' = toList \ {p}
  /\ UNCHANGED <<fsvars, kernel, pc, inbuf, map, toCopy, toWatch, gone, dst, copied, full, lost>>

ListSubdirs(p) ==
  /\ Watching /\ p \in toList /\ Exists(p)
  /\ toList' = toList \ {p}
  /\ toWatch' = toWatch \cup {c \in Children(p) : IsDir(c)}
  /\ UNCHANGED <<fsvars, kernel, pc, inbuf, map, toCopy, gone, dst, copied, full, lost>>

WatchFails ==
  /\ Watching /\ \E p \in toWatch \cup toList : ~Exists(p)
  /\ GiveUp
  /\ UNCHANGED <<fsvars, kernel, inbuf, map, toCopy, gone, dst, copied, full>>

WatchEnds ==
  /\ Watching /\ toWatch = {} /\ toList = {}
  /\ pc' = IF pc = "watch0" THEN "read" ELSE "handle"
  /\ copied' = {}
  /\ UNCHANGED <<fsvars, kernel, inbuf, map, walk, dst, full, lost>>

\* One round of the loop: the first entry under the path, and with it the kernel's watch,
\* though another entry may have its descriptor.
RemoveWatchUnder ==
  LET i == SelectInSeq(map, LAMBDA w : Under(w.path, gone)) IN
  /\ pc = "sweep" /\ i # 0
  /\ RemoveWatch(map[i].wd)
  /\ map' = RemoveSwap(map, i)
  /\ lost' = lost \cup {w.path : w \in {v \in ToSet(map') : v.wd = map[i].wd /\ ~Under(v.path, gone)}}
  /\ UNCHANGED <<fsvars, lastWd, pc, inbuf, walk, dst, copied, full>>

\* Then the directory goes from the target.
RemoveDir ==
  /\ pc = "sweep" /\ \A w \in ToSet(map) : ~Under(w.path, gone)
  /\ dst' = RemovePath(gone)
  /\ pc' = "handle" /\ gone' = NoPath
  /\ UNCHANGED <<fsvars, kernel, inbuf, map, toCopy, toWatch, toList, copied, full, lost>>

-----------------------------------------------------------------------------
(* The event loop.                                                         *)

Read ==
  /\ pc = "read" /\ queue # <<>>
  /\ inbuf' = queue /\ queue' = <<>>
  /\ pc' = "handle"
  /\ UNCHANGED <<fsvars, wdOf, lastWd, overflow, map, walk, dst, copied, full, lost>>

BufferDone ==
  /\ pc = "handle" /\ inbuf = <<>>
  /\ pc' = "read"
  /\ UNCHANGED <<fsvars, kernel, inbuf, map, walk, dst, copied, full, lost>>

Ev      == Head(inbuf)
Known   == WatchMapFind(Ev.wd) # 0
Base    == map[WatchMapFind(Ev.wd)].path
SrcPath == IF Ev.name = "" THEN Base ELSE Base \o <<Ev.name>>

Handling(kinds) ==
  /\ pc = "handle" /\ inbuf # <<>> /\ Ev.kind \in kinds
  /\ inbuf' = Tail(inbuf)
  /\ UNCHANGED fsvars

\* An event of a watch that is not in the table, or of a directory that goes, which
\* its parent reports too.
Skip ==
  /\ Handling({"create", "modify", "close_write", "delete", "moved_from", "moved_to", "delete_self", "ignored"})
  /\ ~Known \/ Ev.kind = "delete_self"
  /\ UNCHANGED <<kernel, pc, map, walk, dst, copied, full, lost>>

HandleIgnored ==
  /\ Handling({"ignored"}) /\ Known
  /\ map' = WatchMapRemove(Ev.wd)
  /\ UNCHANGED <<kernel, pc, walk, dst, copied, full, lost>>

HandleRemoval ==
  /\ Handling({"delete", "moved_from"}) /\ Known /\ ~Ev.isdir
  /\ dst' = RemovePath(SrcPath)
  /\ UNCHANGED <<kernel, pc, map, walk, copied, full, lost>>

HandleDirRemoval ==
  /\ Handling({"delete", "moved_from"}) /\ Known /\ Ev.isdir
  /\ pc' = "sweep" /\ gone' = SrcPath
  /\ UNCHANGED <<kernel, map, toCopy, toWatch, toList, dst, copied, full, lost>>

HandleNewDir_Unwatched ==
  /\ Handling({"create", "moved_to"}) /\ Known /\ Ev.isdir /\ Exists(SrcPath)
  /\ toCopy' = {SrcPath} /\ toWatch' = {}
  /\ pc' = "copy"
  /\ UNCHANGED <<kernel, map, toList, gone, dst, copied, full, lost>>

\* lstat finds the directory: copy it, then watch it.
HandleNewDir ==
  /\ Handling({"create", "moved_to"}) /\ Known /\ Ev.isdir /\ Exists(SrcPath)
  /\ toCopy' = {SrcPath} /\ toWatch' = {SrcPath}
  /\ pc' = "copy"
  /\ UNCHANGED <<kernel, map, toList, gone, dst, copied, full, lost>>

\* copy_file, whatever the file holds by now; nothing when it has gone.
HandleFile ==
  /\ Handling({"create", "moved_to", "modify", "close_write"}) /\ Known
  /\ Ev.isdir => ~Exists(SrcPath)
  /\ dst' = IF Exists(SrcPath) THEN CopyFile(SrcPath) ELSE dst
  /\ UNCHANGED <<kernel, pc, map, walk, copied, full, lost>>

Worker ==
  \/ (\E p \in toCopy : CopyEntry(p)) \/ CopyFails \/ CopyEnds
  \/ (\E p \in DirPaths : AddWatchEntry(p) \/ ListSubdirs(p))
  \/ TooManyWatches \/ WatchFails \/ WatchEnds
  \/ Read \/ BufferDone \/ Skip \/ HandleIgnored \/ HandleRemoval \/ HandleDirRemoval
  \/ RemoveWatchUnder \/ RemoveDir \/ HandleNewDir \/ HandleFile

-----------------------------------------------------------------------------
(* restore.                                                                *)

\* stop_backup: worker_stop is seen in the test or makes read return EINTR; what is
\* queued stays unread, all events of the last change or those after the ones the worker
\* has read.  To keep the model small only a user who waits restores.
Stop ==
  /\ pc = "read" /\ Attentive /\ doing = <<>>
  /\ pc' = "restoring" /\ toRestore' = {Src}
  /\ before' = IF Telling(queue) THEN before ELSE node
  /\ after' = node
  /\ half' = (heard /\ Telling(queue))
  /\ UNCHANGED <<fsvars, kernel, inbuf, map, walk, dst, copied, full, lost, toKeep, kept, heard>>

\* The order of readdir makes no difference here: one entry is next.
First(s) == CHOOSE p \in s : \A q \in s : Len(p) <= Len(q)

Restoring ==
  /\ pc = "restoring"
  /\ UNCHANGED <<user, ops, doing, kernel, inbuf, map, walk, dst, copied, full, lost, hist, heard>>

Held(p) == {c \in SrcPaths : dst[c] # 0 /\ Len(c) = Len(p) + 1 /\ Under(c, p)}

\* restore_entry, ensure_dir.
RestoreDir ==
  LET p == First(toRestore) IN
  /\ Restoring /\ toRestore # {} /\ IsDir(p)
  /\ node' = IF Exists(p) THEN node ELSE [node EXCEPT ![p] = dst[p]]
  /\ toRestore' = (toRestore \ {p}) \cup Held(p)
  /\ toKeep' = toKeep \cup {p}
  /\ UNCHANGED <<pc, kept>>

\* restore_entry of a file: as large as the copy and not older, it is left as it is.
RestoreFile ==
  LET p == First(toRestore) IN
  /\ Restoring /\ toRestore # {} /\ ~IsDir(p)
  /\ \/ node' = [node EXCEPT ![p] = dst[p]] /\ UNCHANGED kept
     \/ Exists(p) /\ node[p] # dst[p] /\ kept' = kept \cup {p} /\ UNCHANGED node
  /\ toRestore' = toRestore \ {p}
  /\ UNCHANGED <<pc, toKeep>>

RemoveOthers_Files ==
  LET p == First(toKeep)
      others == {c \in Children(p) \ Held(p) : ~IsDir(c)}
  IN
  /\ Restoring /\ toRestore = {} /\ toKeep # {}
  /\ node' = [x \in Paths |-> IF x \in others THEN 0 ELSE node[x]]
  /\ toKeep' = toKeep \ {p}
  /\ UNCHANGED <<pc, toRestore, kept>>

\* The second loop of restore_dir.
RemoveOthers ==
  LET p == First(toKeep)
      others == Children(p) \ Held(p)
  IN
  /\ Restoring /\ toRestore = {} /\ toKeep # {}
  /\ node' = [x \in Paths |-> IF \E c \in others : Under(x, c) THEN 0 ELSE node[x]]
  /\ toKeep' = toKeep \ {p}
  /\ UNCHANGED <<pc, toRestore, kept>>

RestoreEnds ==
  /\ Restoring /\ toRestore = {} /\ toKeep = {}
  /\ pc' = "restored"
  /\ UNCHANGED <<node, restore>>

RestoreStep == RestoreDir \/ RestoreFile \/ RemoveOthers \/ RestoreEnds

\* In "read" the worker only reads.
WorkerStep ==
  /\ Worker
  /\ heard' = (heard \/ (pc = "read" /\ Telling(queue)))
  /\ UNCHANGED <<restore, hist>>

Next == User \/ WorkerStep \/ Stop \/ RestoreStep

Spec == Init /\ [][Next]_vars

-----------------------------------------------------------------------------
(* Properties.                                                             *)

Excused(p) == overflow \/ Lost(p)

\* When the worker waits in read and no event is queued, the target holds what the
\* source holds, but for what is lost by a cause the history names.
Converged ==
  Idle => \A p \in SrcPaths :
            Excused(p) \/ (IF IsDir(p) THEN (dst[p] # 0) = Exists(p) ELSE dst[p] = node[p])

IsWatched(p) ==
  LET i == WatchMapFind(wdOf[node[p]]) IN i # 0 /\ map[i].path = p

\* ... and each directory of the source is watched, and the table turns its
\* descriptor into its present path, also after it was moved.
WatchesCurrent ==
  Idle => \A p \in DirPaths : Exists(p) /\ Under(p, Src) => IsWatched(p) \/ Excused(p)

\* For a user who waits for the worker before each change nothing is lost, and the table
\* holds one entry per directory, none left over, unless it was full.
TableExact ==
  Attentive =>
    /\ lost = {} \/ full \/ overflow
    /\ Idle /\ lost = {} /\ ~overflow =>
         LET dirs == {p \in DirPaths : Exists(p) /\ Under(p, Src)}
         IN  /\ ToSet(map) = {[wd |-> wdOf[node[p]], path |-> p] : p \in dirs}
             /\ Len(map) = Cardinality(dirs)

As(tree, p) == IF IsDir(p) THEN Exists(p) = (tree[p] # 0) ELSE node[p] = tree[p]

\* A restore by a user who waited for the worker before each change gives the source
\* as it is if the worker had read everything, and as it was before the last change if
\* it had read nothing of it: stop_backup, restore_entry and restore_dir undo one
\* change at most, but for files they take for the same.  If the worker was stopped
\* with a part of the change's events read, each entry is as before the change, as
\* after it, or, if it is a file that was written, as it was when it was opened.
RestoreUndoes ==
  pc = "restored" =>
    \A p \in SrcPaths \ kept :
      \/ Excused(p)
      \/ As(before, p)
      \/ half /\ (As(after, p) \/ (~IsDir(p) /\ node[p] = Opened))

-----------------------------------------------------------------------------
(* The inductive invariant for a user who waits for the worker: it sees    *)
(* the events of one change at a time.                                     *)

\* Inodes are not shared, directories hold what there is, and a watch is of one inode.
TreeInv ==
  /\ \A p \in Paths : node[p] < Fresh
  /\ \A p \in Paths \ Top : Exists(p) => Exists(Parent(p))
  /\ \A p, q \in Paths : Exists(p) /\ node[p] = node[q] => p = q
  /\ Exists(Src) /\ Exists(Out)
  /\ \A i, j \in Inodes : wdOf[i] # 0 /\ wdOf[i] = wdOf[j] => i = j

Announcing == {"create", "moved_to", "modify", "close_write"}
Removing   == {"delete", "moved_from"}

\* The events of the change, read, queued, and still to be queued.
Coming  == {e \in {Event(d) : d \in ToSet(doing)} : e.wd # 0}
Pending == ToSet(inbuf) \cup ToSet(queue) \cup Coming

\* The path an event names, by the table.
At(w, e)      == w.path \o <<e.name>>
NamedBy(e, p) == \E w \in ToSet(map) : w.wd = e.wd /\ p = At(w, e)
Announced(p)  == \E e \in Pending, q \in SrcPaths :
                   e.kind \in Announcing /\ NamedBy(e, q) /\ Under(p, q)
Removed(p) ==
  \/ gone # NoPath /\ Under(p, gone)
  \/ \E e \in Pending, q \in SrcPaths : e.kind \in Removing /\ NamedBy(e, q) /\ Under(p, q)

\* Each entry of the table has a descriptor of its own, which the directory at its path has,
\* unless that will be removed; above a watched directory the directories are watched; and
\* the kernel has no other watches.
OneEach(m) == \A i, j \in DOMAIN m : m[i].wd = m[j].wd => i = j
Current(w) == Exists(w.path) /\ wdOf[node[w.path]] = w.wd
HasEntry(p) == \E w \in ToSet(map) : w.path = p
TableInv ==
  /\ OneEach(map)
  /\ \A w \in ToSet(map) :
       /\ Current(w) \/ Removed(w.path)
       /\ w.path # Src => Removed(w.path) \/ HasEntry(Parent(w.path))
  /\ \A i \in Inodes : wdOf[i] # 0 => \E w \in ToSet(map) : w.wd = wdOf[i]
  /\ pc = "copy0" => map = <<>>

\* What the walks have to visit is there, below a watched directory; none of it lies below
\* another, and nothing below it is watched yet.
WalkInv ==
  /\ \A p \in toCopy \cup toWatch \cup toList : Exists(p)
  /\ \A p \in toWatch \cup toList : p # Src => HasEntry(Parent(p))
  /\ \A p \in toList : HasEntry(p)
  /\ \A p, q \in toWatch \cup toList : Under(p, q) => p = q
  /\ \A p \in toWatch, w \in ToSet(map) : ~Under(w.path, p)
  /\ \A p \in toList, w \in ToSet(map) : Under(w.path, p) => w.path = p
  /\ pc \notin {"copy0", "copy"} => toCopy = {}
  /\ pc \notin {"watch0", "copy", "watch"} => toWatch = {}
  /\ pc \notin {"watch0", "watch"} => toList = {}
  /\ pc \notin {"copy0", "watch0", "copy", "watch"} => copied = {}
  /\ pc # "sweep" <=> gone = NoPath
  /\ gone # NoPath => gone # Src /\ \A x \in Paths : Under(x, gone) => ~Exists(x)
  /\ toRestore = {} /\ toKeep = {} /\ kept = {}

\* An event of a change names an entry of a watched directory, which is there when it was
\* announced, and not yet watched, and has gone when it was removed.
ChangeAt(w, e) ==
  /\ w.wd = e.wd /\ Current(w) /\ e.name # ""
  /\ At(w, e) \in SrcPaths /\ e.isdir = IsDir(At(w, e))
  /\ e.kind \in Announcing => Exists(At(w, e))
  /\ e.kind \in Announcing /\ e.isdir => \A v \in ToSet(map) : ~Under(v.path, At(w, e))
  /\ e.kind \in Removing => \A x \in Paths : Under(x, At(w, e)) => ~Exists(x)

\* A directory is announced last.
Precedes(e, f) == e.kind \in Announcing /\ e.isdir => f.kind \notin Announcing \cup Removing
Ordered(s) == \A i, j \in DOMAIN s : i < j => Precedes(s[i], s[j])

EventInv ==
  /\ \A e \in Pending : e.kind \in Announcing \cup Removing => \E w \in ToSet(map) : ChangeAt(w, e)
  /\ \A e \in ToSet(inbuf) \cup ToSet(queue) : e.kind = "ignored" => ~HasWatch(e.wd)
  /\ Ordered(inbuf) /\ Ordered(queue)
  /\ \A i, j \in DOMAIN doing : i < j => Precedes(Event(doing[i]), Event(doing[j]))
  /\ \A e \in ToSet(inbuf), f \in ToSet(queue) : Precedes(e, f)
  /\ \A e \in ToSet(inbuf) \cup ToSet(queue), d \in ToSet(doing) : Precedes(e, Event(d))
  /\ pc = "read" => inbuf = <<>>
  /\ pc \in {"copy0", "watch0"} => inbuf = <<>> /\ queue = <<>> /\ doing = <<>>
  /\ pc \in {"copy", "watch"} => /\ \A e \in Pending : e.kind \notin Announcing \cup Removing
                               /\ \A d \in ToSet(doing) : d.kind \in OfSelf

\* What the kernel has still to report is of entries of directories, watched ones if they
\* are in the source, or of a directory that has gone; a file that was opened will be
\* written, and then closed.
DoingInv ==
  \A i \in DOMAIN doing :
    LET d == doing[i] IN
    /\ d.kind \notin OfSelf =>
         /\ Exists(Parent(d.path)) /\ d.dir = node[Parent(d.path)]
         /\ d.path \in SrcPaths => wdOf[d.dir] # 0 \/ Lost(d.path)
    /\ d.kind \in OfSelf => \A p \in Paths : node[p] # d.dir
    /\ d.kind = "write" =>
         /\ ~IsDir(d.path) /\ node[d.path] = Opened /\ \A p \in Paths : node[p] < Written
         /\ i < Len(doing)
         /\ \A j \in DOMAIN doing : i < j => doing[j] = [d EXCEPT !.kind = "close_write"]

\* A directory of the source is watched, or will be ...
ToBeWatched(p) ==
  \/ pc = "copy0"
  \/ \E q \in toWatch : Under(p, q)
  \/ \E q \in toList : Under(p, q) /\ p # q
WatchInv ==
  \A p \in DirPaths \cap SrcPaths :
    Exists(p) => \/ \E w \in ToSet(map) : w.path = p /\ Current(w)
                 \/ Lost(p) \/ Announced(p) \/ ToBeWatched(p)

\* ... and what the target has not, or has too much, will be copied or removed.
Alike(tree, p) == IF IsDir(p) THEN (dst[p] # 0) = (tree[p] # 0) ELSE dst[p] = tree[p]
CopyInv ==
  \A p \in SrcPaths :
    \/ Alike(node, p) \/ Lost(p)
    \/ Exists(p) /\ (Announced(p) \/ \E q \in toCopy : Under(p, q))
    \/ ~Exists(p) /\ Removed(p)

\* Until an event of a change is read the target is as the source was before it; then each
\* entry is as before, or as it is, or as the file was when it was opened.
BeforeInv ==
  /\ ~heard => /\ pc \in {"read", "handle"} /\ ~Telling(inbuf)
               /\ \A p \in SrcPaths : Alike(before, p) \/ Lost(p)
  /\ pc # "copy0" => \A p \in SrcPaths : Alike(before, p) \/ Alike(node, p) \/ Lost(p)
                                        \/ (~IsDir(p) /\ dst[p] = Opened)

Working ==
  /\ TreeInv /\ TableInv /\ WalkInv /\ EventInv /\ DoingInv
  /\ WatchInv /\ CopyInv /\ BeforeInv

\* Directories of the target hold what it has.
TargetInv ==
  /\ \A p \in SrcPaths \ {Src} : dst[p] # 0 => dst[Parent(p)] # 0
  /\ dst[Src] # 0 \/ (pc = "copy0" /\ toCopy = {Src})

\* What the target has is in the source, or will be; and what it has not is not, or will
\* be removed with all below it.
RestoreInv ==
  /\ \A p \in SrcPaths :
       Alike(before, p) \/ Lost(p) \/ (half /\ (Alike(after, p) \/ (~IsDir(p) /\ dst[p] = Opened)))
  /\ \A p \in toRestore \cup toKeep \cup kept : dst[p] # 0
  /\ Exists(Src)
  /\ \A p \in SrcPaths \ {Src} : Exists(p) \/ p \in toRestore => Exists(Parent(p))
  /\ \A p \in SrcPaths :
       \/ Alike(node, p) \/ p \in kept
       \/ \E q \in toRestore : Under(p, q)
       \/ \E q \in toKeep, c \in SrcPaths \ {Src} : Parent(c) = q /\ Under(p, c) /\ dst[c] = 0
  /\ pc = "restored" => toRestore = {} /\ toKeep = {}

IndInv ==
  /\ pc \in {"restoring", "restored"} => Attentive
  /\ Attentive /\ ~overflow =>
       /\ TypeOK /\ TargetInv
       /\ lost = {} \/ full
       /\ IF pc \in {"restoring", "restored", "exited"} THEN toCopy = {} /\ doing = <<>> ELSE Working
       /\ pc \in {"restoring", "restored"} => RestoreInv
=============================================================================
