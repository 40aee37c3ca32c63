---------------------------- MODULE LeshaMirror ----------------------------
(***************************************************************************)
(* The files of one pair of lesha/p1/aliaksei_kudzelka/src/main.c: the     *)
(* worker copies the source and then one path per event, while the         *)
(* supervisor ends it, starts it again over what the target holds, and     *)
(* restores the source from the target without stopping it, and a user     *)
(* goes on changing the source.                                            *)
(*                                                                         *)
(* Copying a file is what three system calls make of it: open with         *)
(* O_TRUNC, read, write.  An open file stays what it was when its name     *)
(* goes, so files are inodes.  A directory is read once, when it is        *)
(* opened, in any order.  Event buffer and kernel queue are one queue.     *)
(*                                                                         *)
(* Left out: symbolic links, renames (the worker takes them for a removal  *)
(* and a creation) and failing system calls other than on absent or        *)
(* ill-matched paths.  A user's edit, and the removal of a path in the     *)
(* target, are one step.                                                   *)
(***************************************************************************)
EXTENDS Naturals, Sequences, FiniteSets, SequencesExt

CONSTANTS
  Paths,       \* sequences of names; the root is <<>>
  Files,       \* the paths that may be files
  Dirs,        \* the paths that may be directories
  StartFiles,  \* the files there are at the start: nothing below, elsewhere directories
  Alike,       \* sets of contents file_hash cannot tell apart
  MaxOps,      \* bound: changes the user makes
  MaxCommands  \* bound: end, add and restore

StartDirs == {p \in Paths : \A q \in StartFiles : ~IsPrefix(q, p)}

ASSUME MirrorAssumption ==
  /\ <<>> \in Dirs /\ <<>> \notin Files /\ Paths = Files \cup Dirs
  /\ IsFiniteSet(Paths)
  /\ \A p \in Paths :
       /\ p \in Seq(ToSet(p))
       /\ \A n \in 0 .. Len(p) - 1 : SubSeq(p, 1, n) \in Dirs
  /\ StartFiles \subseteq Files /\ StartDirs \subseteq Dirs
  /\ \A p, q \in StartFiles : ~IsStrictPrefix(q, p)
  /\ MaxOps \in Nat /\ MaxCommands \in Nat

Absent == 0
Dir    == 2 * Cardinality(Files) + 5     \* no inode

Root == <<>>
Parent(p) == Front(p)
Below(p) == {q \in Paths : IsPrefix(p, q)}
Children(t, p) == {q \in Paths \ {Root} : Parent(q) = p /\ t[q] # Absent}

Contents == 0 .. MaxOps + 1     \* 0 is the empty file, 1 what there is at the start
Inodes   == 1 .. 2 * Cardinality(Files) + 4
Copiers  == {"worker", "restore"}
From == [worker |-> "src", restore |-> "dst"]
To   == [worker |-> "dst", restore |-> "src"]

\* Only directories have something below them.
Trees == {t \in [Paths -> {Absent, Dir} \cup Inodes] :
            \A p, q \in Paths : t[p] # Absent /\ IsStrictPrefix(q, p) => t[q] = Dir}

NoFile == <<>>
OpenFiles == [path : Paths, from : Inodes, to : Inodes, buffer : Contents, read : BOOLEAN]
Tasks     == [do : {"copy", "make", "list"}, path : Paths]
Removals  == [do : {"check", "rmdir"}, path : Paths]
Events    == [kind : {"changed", "deleted", "self"}, path : Paths, isdir : BOOLEAN]

VARIABLES
  fs,        \* the trees "src" and "dst": absent, a directory, or a file's inode
  data,      \* the content of each inode
  todo,      \* of each copier: the calls of copy_entry and copy_directory to make
  file,      \* of each copier: the file it copies
  stage,     \* of the worker: "dead", "sync" or "loop"
  toWatch,   \* directories that watch_directory_tree has to watch
  watched,   \* the worker's watch list
  queue,     \* events the worker has not handled
  active,    \* the supervisor's entry
  pc,        \* the supervisor: "idle", "restoring" or "removing"
  toRemove,  \* the calls of remove_if_missing and rmdir to make
  ops, commands,
  listed,    \* history: directories this worker has opened to copy them
  missed,    \* history: paths this worker cannot know the state of
  leftover,  \* history: what the target held when this worker was started
  goal,      \* history: the backup when restore began
  mode       \* history: restore began with no worker ("alone"), with a worker at rest
             \* and equal trees ("settled"), or it has company ("racing")

trees      == <<fs, data>>
worker     == <<stage, toWatch, watched, listed>>
supervisor == <<active, pc, toRemove, commands, goal>>
vars == <<trees, todo, file, worker, queue, supervisor, ops, missed, leftover, mode>>

IsFile(node) == node \in Inodes
Opened == UNION {{file[c].from, file[c].to} : c \in {d \in Copiers : file[d] # NoFile}}
Fresh  == CHOOSE i \in Inodes :
            i \notin Opened /\ \A t \in {"src", "dst"}, p \in Paths : fs[t][p] # i

Idle(c) == todo[c] = <<>> /\ file[c] = NoFile
Quiet   == Idle("worker") /\ toWatch = <<>> /\ queue = <<>>

\* What reading a path finds.
Views == [kind : {"absent", "dir", "file"}, content : Contents]
View(t, p) ==
  LET node == fs[t][p]
  IN  [kind    |-> IF node = Absent THEN "absent" ELSE IF node = Dir THEN "dir" ELSE "file",
       content |-> IF IsFile(node) THEN data[node] ELSE 0]
Same(p) == View("src", p) = View("dst", p)

TypeOK ==
  /\ fs \in [{"src", "dst"} -> Trees]
  /\ data \in [Inodes -> Contents]
  /\ todo \in [Copiers -> Seq(Tasks)]
  /\ file \in [Copiers -> OpenFiles \cup {NoFile}]
  /\ stage \in {"dead", "sync", "loop"}
  /\ toWatch \in Seq(Paths) /\ watched \subseteq Paths /\ listed \subseteq Paths
  /\ queue \in Seq(Events)
  /\ active \in BOOLEAN
  /\ pc \in {"idle", "restoring", "removing"}
  /\ toRemove \in Seq(Removals)
  /\ ops \in 0 .. MaxOps /\ commands \in 0 .. MaxCommands
  /\ missed \subseteq Paths /\ leftover \subseteq Paths
  /\ mode \in {"alone", "settled", "racing"}
  /\ goal \in [Paths -> Views]

Task(do, p) == [do |-> do, path |-> p]

Initially ==
  LET numbered == SetToSeq(StartFiles)
  IN  [p \in Paths |-> IF p \in StartFiles THEN CHOOSE i \in DOMAIN numbered : numbered[i] = p
                       ELSE IF p \in StartDirs THEN Dir ELSE Absent]

Init ==
  /\ fs = [src |-> Initially, dst |-> [p \in Paths |-> IF p = Root THEN Dir ELSE Absent]]
  /\ data = [i \in Inodes |-> IF i <= Cardinality(StartFiles) THEN 1 ELSE 0]
  /\ todo = [worker |-> <<Task("make", Root)>>, restore |-> <<>>]
  /\ file = [c \in Copiers |-> NoFile]
  /\ stage = "sync" /\ toWatch = <<>> /\ watched = {} /\ queue = <<>>
  /\ active = TRUE /\ pc = "idle" /\ toRemove = <<>>
  /\ ops = 0 /\ commands = 0
  /\ listed = {} /\ missed = {} /\ leftover = {}
  /\ goal = [p \in Paths |-> View("dst", p)] /\ mode = "racing"

-----------------------------------------------------------------------------
(* What the kernel and the histories make of a change of the source.         *)

Event(kind, p, isdir) == [kind |-> kind, path |-> p, isdir |-> isdir]

\* An event the worker has no watch for, or like the last one that still waits, is not
\* queued.
Queued(q, e) ==
  LET about == IF e.kind = "self" THEN e.path ELSE Parent(e.path)
  IN  IF about \notin watched \/ (q # <<>> /\ Last(q) = e) THEN q ELSE Append(q, e)

Waiting == stage = "loop" /\ Idle("worker") /\ toWatch = <<>>

\* p of the source changes: a worker at work that has read its directory and does not
\* watch it yet does not know; one at rest finds what is new when it handles the
\* directory's event, but never what is gone.
Missed(p, unseen) ==
  missed' = IF stage # "dead" /\ unseen /\ Parent(p) \in listed \ watched
            THEN missed \cup Below(p) ELSE missed

Changed(p, isdir) == queue' = Queued(queue, Event("changed", p, isdir)) /\ Missed(p, ~Waiting)

Removed(p, isdir) ==
  /\ queue' = Queued(Queued(queue, Event("self", p, isdir)), Event("deleted", p, isdir))
  /\ Missed(p, ~Waiting \/ fs["dst"][p] # Absent)

-----------------------------------------------------------------------------
(* The user.                                                                 *)

UserMay == ops < MaxOps
UserDid ==
  /\ ops' = ops + 1 /\ mode' = "racing"
  /\ UNCHANGED <<todo, file, worker, supervisor, leftover>>

Write(p) ==
  /\ UserMay /\ p \in Files
  /\ fs["src"][Parent(p)] = Dir /\ fs["src"][p] # Dir
  /\ LET i == IF IsFile(fs["src"][p]) THEN fs["src"][p] ELSE Fresh
     IN  /\ fs' = [fs EXCEPT !["src"][p] = i]
         /\ data' = [data EXCEPT ![i] = ops + 2]
  /\ Changed(p, FALSE)
  /\ UserDid

Unlink(p) ==
  /\ UserMay /\ IsFile(fs["src"][p])
  /\ fs' = [fs EXCEPT !["src"][p] = Absent]
  /\ Removed(p, FALSE)
  /\ UserDid /\ UNCHANGED data

MkDir(p) ==
  /\ UserMay /\ p \in Dirs
  /\ fs["src"][p] = Absent /\ fs["src"][Parent(p)] = Dir
  /\ fs' = [fs EXCEPT !["src"][p] = Dir]
  /\ Changed(p, TRUE)
  /\ UserDid /\ UNCHANGED data

RmDir(p) ==
  /\ UserMay /\ p # Root /\ fs["src"][p] = Dir /\ Children(fs["src"], p) = {}
  /\ fs' = [fs EXCEPT !["src"][p] = Absent]
  /\ Removed(p, TRUE)
  /\ UserDid /\ UNCHANGED data

User == \E p \in Paths \ {Root} : Write(p) \/ Unlink(p) \/ MkDir(p) \/ RmDir(p)

-----------------------------------------------------------------------------
(* Copying, by the worker from the source and by restore from the target.    *)

Doing(c, do) == todo[c] # <<>> /\ file[c] = NoFile /\ Head(todo[c]).do = do
At(c)        == Head(todo[c]).path
Then(c, tasks) == todo' = [todo EXCEPT ![c] = tasks \o Tail(@)]
Source(c)    == fs[From[c]]
Dest(c)      == fs[To[c]]

CopierOnly == UNCHANGED <<stage, toWatch, watched, active, toRemove, commands, goal, ops, leftover, mode>>
SameWorker == UNCHANGED <<listed, pc, queue, missed>>

GivenUp(c) ==
  (UNION {Below(t.path) : t \in ToSet(Tail(todo[c]))})
    \cup (IF Source(c)[At(c)] = Absent THEN {} ELSE Below(At(c)))

\* An error ends the whole walk: the initial copy ends the worker, a later one is
\* not noticed, and restore is given up.
Fails(c) ==
  /\ todo' = [todo EXCEPT ![c] = <<>>]
  /\ IF c = "restore"
     THEN pc' = "idle" /\ UNCHANGED <<stage, missed>>
     ELSE /\ stage' = IF stage = "sync" THEN "dead" ELSE stage
          /\ missed' = missed \cup GivenUp(c)
          /\ UNCHANGED pc
  /\ UNCHANGED <<trees, file, toWatch, watched, listed, queue, active, toRemove, commands,
                 goal, ops, leftover, mode>>

EntryGone(c) ==
  /\ Doing(c, "copy") /\ Source(c)[At(c)] = Absent
  /\ Fails(c)

EnterDirectory(c) ==
  /\ Doing(c, "copy") /\ Source(c)[At(c)] = Dir
  /\ Then(c, <<Task("make", At(c))>>)
  /\ CopierOnly /\ SameWorker /\ UNCHANGED <<trees, file>>

\* mkdir; that something is there already is no error, whatever it is.
MakeDirectory(c) ==
  LET p == At(c) IN
  /\ Doing(c, "make")
  /\ Then(c, <<Task("list", p)>>)
  /\ \/ /\ Dest(c)[p] # Absent
        /\ UNCHANGED <<fs, queue, missed>>
     \/ /\ Dest(c)[p] = Absent /\ Dest(c)[Parent(p)] = Dir
        /\ fs' = [fs EXCEPT ![To[c]][p] = Dir]
        /\ IF To[c] = "src" THEN Changed(p, TRUE)
                            ELSE UNCHANGED <<queue, missed>>
  /\ CopierOnly /\ UNCHANGED <<data, file, listed, pc>>

MakeFails(c) ==
  /\ Doing(c, "make") /\ Dest(c)[At(c)] = Absent /\ Dest(c)[Parent(At(c))] # Dir
  /\ Fails(c)

Listings(do, paths) == {[i \in DOMAIN s |-> Task(do, s[i])] : s \in SetToSeqs(paths)}

ListDirectory(c) ==
  /\ Doing(c, "list") /\ Source(c)[At(c)] = Dir
  /\ \E tasks \in Listings("copy", Children(Source(c), At(c))) : Then(c, tasks)
  /\ listed' = IF c = "worker" THEN listed \cup {At(c)} ELSE listed
  /\ CopierOnly /\ UNCHANGED <<trees, file, pc, queue, missed>>

ListFails(c) ==
  /\ Doing(c, "list") /\ Source(c)[At(c)] # Dir
  /\ Fails(c)

Hashes_Length(i, j) == data[i] # 0 /\ data[j] # 0
Hashes_Never(i, j)  == FALSE

\* restore_entry leaves a file alone that hashes like its backup, unless both are empty.
\* The hash runs past the end of what was read; in the builds the second call finds
\* there what the first left, so equal files hash alike.
Hashes(i, j) ==
  /\ data[i] # 0
  /\ data[i] = data[j] \/ \E a \in Alike : data[i] \in a /\ data[j] \in a
Unchanged(c) ==
  c = "restore" /\ IsFile(Dest(c)[At(c)]) /\ Hashes(Source(c)[At(c)], Dest(c)[At(c)])

SkipFile(c) ==
  /\ Doing(c, "copy") /\ IsFile(Source(c)[At(c)]) /\ Unchanged(c)
  /\ Then(c, <<>>)
  /\ CopierOnly /\ SameWorker /\ UNCHANGED <<trees, file>>

\* The old content is gone once the copy is open.
OpenFile(c) ==
  LET p == At(c)
      i == IF IsFile(Dest(c)[p]) THEN Dest(c)[p] ELSE Fresh
  IN
  /\ Doing(c, "copy") /\ IsFile(Source(c)[p]) /\ ~Unchanged(c)
  /\ Dest(c)[p] # Dir /\ Dest(c)[Parent(p)] = Dir
  /\ file' = [file EXCEPT ![c] = [path |-> p, from |-> Source(c)[p], to |-> i, buffer |-> 0,
                                  read |-> FALSE]]
  /\ fs' = [fs EXCEPT ![To[c]][p] = i]
  /\ data' = [data EXCEPT ![i] = 0]
  /\ Then(c, <<>>)
  /\ IF To[c] = "src" THEN Changed(p, FALSE)
                      ELSE UNCHANGED <<queue, missed>>
  /\ CopierOnly /\ UNCHANGED <<listed, pc>>

OpenFails(c) ==
  /\ Doing(c, "copy") /\ IsFile(Source(c)[At(c)]) /\ ~Unchanged(c)
  /\ Dest(c)[At(c)] = Dir \/ Dest(c)[Parent(At(c))] # Dir
  /\ Fails(c)

ReadFile(c) ==
  /\ file[c] # NoFile /\ ~file[c].read
  /\ file' = [file EXCEPT ![c].read = TRUE, ![c].buffer = data[file[c].from]]
  /\ CopierOnly /\ SameWorker /\ UNCHANGED <<trees, todo>>

\* Nothing is written after an empty read; closing announces the file in any case, unless its
\* directory has gone.
WriteFile(c) ==
  /\ file[c] # NoFile /\ file[c].read
  /\ data' = IF file[c].buffer = 0 THEN data ELSE [data EXCEPT ![file[c].to] = file[c].buffer]
  /\ file' = [file EXCEPT ![c] = NoFile]
  /\ IF To[c] = "src" /\ fs["src"][Parent(file[c].path)] = Dir
     THEN Changed(file[c].path, FALSE) ELSE UNCHANGED <<queue, missed>>
  /\ CopierOnly /\ UNCHANGED <<fs, todo, listed, pc>>

Copy(c) ==
  \/ EntryGone(c) \/ EnterDirectory(c) \/ MakeDirectory(c) \/ MakeFails(c)
  \/ ListDirectory(c) \/ ListFails(c) \/ SkipFile(c) \/ OpenFile(c) \/ OpenFails(c)
  \/ ReadFile(c) \/ WriteFile(c)

-----------------------------------------------------------------------------
(* The worker.                                                               *)

WorkerOnly == UNCHANGED <<data, file, supervisor, ops, leftover, mode>>

\* sync_directories is through: watch_directory_tree starts at the source.
StartLoop ==
  /\ stage = "sync" /\ Idle("worker")
  /\ stage' = "loop" /\ toWatch' = <<Root>>
  /\ WorkerOnly /\ UNCHANGED <<fs, todo, watched, listed, queue, missed>>

\* A watch may also be set on a file that took the place of a directory.
WatchDirectory ==
  /\ stage = "loop" /\ Idle("worker") /\ toWatch # <<>>
  /\ LET p == Head(toWatch)
         subdirs == {q \in Children(fs["src"], p) : fs["src"][q] = Dir}
     IN  /\ watched' = IF fs["src"][p] = Absent THEN watched ELSE watched \cup {p}
         /\ toWatch' = (IF fs["src"][p] = Dir THEN SetToSeq(subdirs) ELSE <<>>) \o Tail(toWatch)
  /\ WorkerOnly /\ UNCHANGED <<fs, todo, stage, listed, queue, missed>>

Handling(kind) == Waiting /\ queue # <<>> /\ Head(queue).kind = kind

\* DELETE_SELF of any directory it watches: the worker exits.
HandleSelf ==
  /\ Handling("self")
  /\ stage' = "dead" /\ queue' = <<>> /\ watched' = {}
  /\ WorkerOnly /\ UNCHANGED <<fs, todo, toWatch, listed, missed>>

RemovePathRecursive(t, p) == [q \in Paths |-> IF q \in Below(p) THEN Absent ELSE t[q]]

HandleDelete ==
  /\ Handling("deleted")
  /\ fs' = [fs EXCEPT !["dst"] = RemovePathRecursive(@, Head(queue).path)]
  /\ queue' = Tail(queue)
  /\ WorkerOnly /\ UNCHANGED <<todo, stage, toWatch, watched, listed, missed>>

\* make_dir_recursive stops at a file.
WithParents(t, p) ==
  [q \in Paths |->
     IF /\ IsStrictPrefix(q, p) /\ t[q] = Absent
        /\ \A r \in Paths : IsStrictPrefix(r, q) => ~IsFile(t[r])
     THEN Dir ELSE t[q]]

HandleChange_Unwatched ==
  LET e == Head(queue) IN
  /\ Handling("changed")
  /\ fs' = [fs EXCEPT !["dst"] = WithParents(@, e.path)]
  /\ todo' = [todo EXCEPT !["worker"] = <<Task(IF e.isdir THEN "make" ELSE "copy", e.path)>>]
  /\ queue' = Tail(queue)
  /\ WorkerOnly /\ UNCHANGED <<stage, toWatch, watched, listed, missed>>

HandleChange ==
  LET e == Head(queue) IN
  /\ Handling("changed")
  /\ fs' = [fs EXCEPT !["dst"] = WithParents(@, e.path)]
  /\ todo' = [todo EXCEPT !["worker"] = <<Task(IF e.isdir THEN "make" ELSE "copy", e.path)>>]
  /\ toWatch' = IF e.isdir THEN <<e.path>> ELSE <<>>
  /\ queue' = Tail(queue)
  /\ WorkerOnly /\ UNCHANGED <<stage, watched, listed, missed>>

Worker ==
  \/ (stage # "dead" /\ Copy("worker"))
  \/ StartLoop \/ WatchDirectory \/ HandleSelf \/ HandleDelete \/ HandleChange

-----------------------------------------------------------------------------
(* The supervisor.                                                           *)

MayCommand == pc = "idle" /\ commands < MaxCommands

\* SIGTERM kills the worker wherever it is; during the initial copy the worker keeps
\* its handler and exits afterwards.
End ==
  /\ MayCommand /\ active /\ stage # "sync"
  /\ active' = FALSE
  /\ stage' = "dead" /\ toWatch' = <<>> /\ watched' = {} /\ queue' = <<>>
  /\ todo' = [todo EXCEPT !["worker"] = <<>>]
  /\ file' = [file EXCEPT !["worker"] = NoFile]
  /\ commands' = commands + 1
  /\ UNCHANGED <<trees, listed, pc, toRemove, goal, ops, missed, leftover, mode>>

\* The pair is listed: it starts again over what the target holds.
StartAgain ==
  /\ MayCommand /\ ~active
  /\ active' = TRUE
  /\ stage' = "sync"
  /\ todo' = [todo EXCEPT !["worker"] = <<Task("make", Root)>>]
  /\ leftover' = {p \in Paths : fs["dst"][p] # Absent}
  /\ listed' = {} /\ missed' = {}
  /\ commands' = commands + 1
  /\ UNCHANGED <<trees, file, toWatch, watched, queue, pc, toRemove, goal, ops, mode>>

\* restore asks nothing about the worker.
Restore ==
  /\ MayCommand
  /\ pc' = "restoring"
  /\ todo' = [todo EXCEPT !["restore"] = <<Task("copy", Root)>>]
  /\ goal' = [p \in Paths |-> View("dst", p)]
  /\ mode' = IF stage = "dead" THEN "alone"
             ELSE IF Waiting /\ Quiet /\ \A p \in Paths : Same(p) THEN "settled" ELSE "racing"
  /\ commands' = commands + 1
  /\ UNCHANGED <<trees, file, worker, queue, active, toRemove, ops, missed, leftover>>

RestoreOnly == UNCHANGED <<data, todo, file, worker, active, commands, goal, ops, leftover, mode>>

Restored ==
  /\ pc = "restoring" /\ Idle("restore")
  /\ pc' = "removing" /\ toRemove' = <<[do |-> "check", path |-> Root]>>
  /\ RestoreOnly /\ UNCHANGED <<fs, queue, missed>>

\* remove_if_missing fails where the source is no directory; what failed under an
\* entry the backup lacks goes unnoticed.
Aborted(tasks) ==
  {SubSeq(tasks, k, Len(tasks)) :
     k \in {n \in 1 .. Len(tasks) + 1 :
              /\ \A i \in 1 .. n - 1 : tasks[i].do = "check"
              /\ n <= Len(tasks) => tasks[n].do = "rmdir"}}

Checking == pc = "removing" /\ toRemove # <<>> /\ Head(toRemove).do = "check"
CheckBoth ==
  LET p == Head(toRemove).path IN
  /\ Checking /\ fs["dst"][p] # Absent
  /\ \/ fs["dst"][p] # Dir /\ toRemove' = Tail(toRemove)
     \/ /\ fs["dst"][p] = Dir /\ fs["src"][p] = Dir
        /\ \E tasks \in Listings("check", Children(fs["src"], p)) : toRemove' = tasks \o Tail(toRemove)
     \/ fs["dst"][p] = Dir /\ fs["src"][p] # Dir /\ toRemove' \in Aborted(Tail(toRemove))
  /\ RestoreOnly /\ UNCHANGED <<fs, pc, queue, missed>>

RemoveEntry(p) ==
  /\ fs' = [fs EXCEPT !["src"][p] = Absent]
  /\ Removed(p, fs["src"][p] = Dir)

CheckMissing ==
  LET p == Head(toRemove).path IN
  /\ Checking /\ fs["dst"][p] = Absent
  /\ \/ fs["src"][p] = Absent /\ toRemove' = Tail(toRemove) /\ UNCHANGED <<fs, queue, missed>>
     \/ IsFile(fs["src"][p]) /\ toRemove' = Tail(toRemove) /\ RemoveEntry(p)
     \/ /\ fs["src"][p] = Dir
        /\ \E tasks \in Listings("check", Children(fs["src"], p)) :
             toRemove' = tasks \o <<[do |-> "rmdir", path |-> p]>> \o Tail(toRemove)
        /\ UNCHANGED <<fs, queue, missed>>
  /\ RestoreOnly /\ UNCHANGED pc

RemoveDirectory ==
  LET p == Head(toRemove).path IN
  /\ pc = "removing" /\ toRemove # <<>> /\ Head(toRemove).do = "rmdir"
  /\ toRemove' = Tail(toRemove)
  /\ IF fs["src"][p] = Dir /\ Children(fs["src"], p) = {}
     THEN RemoveEntry(p) ELSE UNCHANGED <<fs, queue, missed>>
  /\ RestoreOnly /\ UNCHANGED pc

Finished ==
  /\ pc = "removing" /\ toRemove = <<>>
  /\ pc' = "idle"
  /\ RestoreOnly /\ UNCHANGED <<fs, toRemove, queue, missed>>

Supervisor ==
  \/ Copy("restore") \/ Restored \/ CheckBoth \/ CheckMissing \/ RemoveDirectory \/ Finished

Next == User \/ Worker \/ Supervisor \/ End \/ StartAgain \/ Restore

Spec == Init /\ [][Next]_vars

-----------------------------------------------------------------------------
(* Properties.                                                               *)

\* When everybody is at rest the target equals the source, also after a restore that
\* wrote the source under the worker's eyes; but for what the worker could not see and
\* for what the target held before the worker was started and the source lacks.
Converged ==
  Waiting /\ Quiet /\ pc = "idle" =>
    \A p \in Paths :
      \/ Same(p)
      \/ p \in missed
      \/ p \in leftover /\ View("src", p).kind # View("dst", p).kind

\* What restore makes of a path: what the backup was, or a file that hashes alike.
Recovered(p) ==
  \/ View("src", p) = goal[p]
  \/ /\ View("src", p).kind = "file" /\ goal[p].kind = "file"
     /\ \E a \in Alike : {View("src", p).content, goal[p].content} \subseteq a

\* A file where the backup has a directory.
Hidden == \E p \in Paths : goal[p].kind = "dir" /\ IsFile(fs["src"][p])

\* A restore that is alone and reports success has made the source what the backup
\* was, but for files that hash alike; or it met a file where the backup has an empty
\* directory, which mkdir does not report.
RestoreFaithful ==
  [][Finished /\ mode = "alone" => Hidden \/ \A p \in Paths : Recovered(p)]_vars

\* A restore (handle_restore) beside a worker at rest that has mirrored everything changes nothing,
\* though every file is open to both.
MirroredIsKept ==
  [][pc # "idle" /\ mode = "settled" /\ mode' = "settled" =>
       \A p \in Paths : View("src", p)' = View("src", p)]_vars

-----------------------------------------------------------------------------
\* The inductive invariant.

\* No two names hold the same inode, and a name of a directory holds none.
InodesApart ==
  /\ \A t, u \in {"src", "dst"}, p, q \in Paths :
       IsFile(fs[t][p]) /\ fs[t][p] = fs[u][q] => t = u /\ p = q
  /\ \A t \in {"src", "dst"}, p \in Paths : IsFile(fs[t][p]) => p \in Files

\* Restore copies while it restores.
RestoreInv == pc # "restoring" => Idle("restore")

\* Beside a worker at rest: trees that are the same, and nothing under way but copies of
\* empty files to empty files.
Empty(p) == IsFile(fs["src"][p]) /\ data[fs["src"][p]] = 0

EmptyEvents == {e \in Events : e.kind = "changed" /\ ~e.isdir /\ Empty(e.path)}
EmptyCopies == {t \in Tasks : t.do = "copy" /\ Empty(t.path)}
Present     == {t \in Tasks : t.do # "copy" => fs["src"][t.path] # Absent}
Checks      == [do : {"check"}, path : Paths]

Settled ==
  /\ \A p \in Paths : Same(p)
  /\ queue \in Seq(EmptyEvents)
  /\ todo["worker"] \in Seq(EmptyCopies) /\ todo["restore"] \in Seq(Present)
  /\ \A c \in Copiers : file[c] # NoFile =>
       /\ Empty(file[c].path)
       /\ data[file[c].from] = 0 /\ data[file[c].to] = 0 /\ file[c].buffer = 0
  /\ pc = "removing" => toRemove \in Seq(Checks)

SettledInv == pc # "idle" /\ mode = "settled" => Settled

\* Alone: what the backup has is in the source, or still to be copied.
Covers(t, p) == IsPrefix(t.path, p) /\ (t.do = "list" => t.path # p)
ToCopy(p) ==
  \/ \E i \in DOMAIN todo["restore"] : Covers(todo["restore"][i], p)
  \/ file["restore"] # NoFile /\ file["restore"].path = p

DirTasks == {t \in Tasks : t.do # "copy" => goal[t.path].kind = "dir"}

CopyInv ==
  /\ \A p \in Paths :
       goal[p].kind # "absent" => Hidden \/ Recovered(p) \/ (pc = "restoring" /\ ToCopy(p))
  /\ todo["restore"] \in Seq(DirTasks)
  /\ file["restore"] # NoFile =>
       LET f == file["restore"]
       IN  /\ f.from = fs["dst"][f.path] /\ f.to = fs["src"][f.path] /\ data[f.to] = 0
           /\ f.read => f.buffer = data[f.from]

\* ... and what the backup lacks is not in the source, or still to be removed, and what is
\* below a directory before the directory.
Removes(r, p) == IF r.do = "check" THEN IsPrefix(r.path, p) ELSE r.path = p
Blocks(r, p)  == r.do = "rmdir" /\ IsStrictPrefix(r.path, p)
ToRemove(p) ==
  \E i \in DOMAIN toRemove :
    Removes(toRemove[i], p) /\ \A k \in 1 .. i : ~Blocks(toRemove[k], p)

Superfluous ==
  {r \in Removals : r.do = "rmdir" => goal[r.path].kind = "absent" /\ ~IsFile(fs["src"][r.path])}

RemoveInv ==
  /\ \A p \in Paths :
       goal[p].kind = "absent" => Hidden \/ fs["src"][p] = Absent \/ ToRemove(p)
  /\ toRemove \in Seq(Superfluous)

Alone ==
  /\ stage = "dead"
  /\ \A p \in Paths : View("dst", p) = goal[p]
  /\ CopyInv
  /\ pc = "removing" => RemoveInv

AloneInv == pc # "idle" /\ mode = "alone" => Alone

\* Both roots stay.
RootsInv ==
  /\ \A t \in {"src", "dst"} : fs[t][Root] = Dir
  /\ \A r \in ToSet(toRemove) : r.do = "rmdir" => r.path # Root
  /\ \A c \in Copiers : file[c] # NoFile => file[c].path # Root
  /\ \A e \in ToSet(queue) : e.path # Root

\* The worker writes the file that the target has under the path, and it is empty until then;
\* what restore writes is no file of the target, and of the source under its path only.
OpenInv ==
  /\ LET f == file["worker"]
     IN  f # NoFile => fs["dst"][f.path] = f.to /\ data[f.to] = 0
  /\ LET f == file["restore"]
     IN  f # NoFile => \A p \in Paths : fs["dst"][p] # f.to /\ (fs["src"][p] = f.to => p = f.path)

\* A worker that is not in its loop has no watches; one that was ended is dead.
StageInv ==
  /\ ~active => stage = "dead"
  /\ stage # "loop" => watched = {} /\ queue = <<>> /\ toWatch = <<>>
  /\ stage = "dead" => Idle("worker")

MissedInv == \A p \in missed : Below(p) \subseteq missed

\* From here on of a worker that lives and will not find that a directory it watches has gone.
Alive == stage # "dead" /\ \A e \in ToSet(queue) : e.kind # "self"

\* Watched paths are there, and what is above them is watched.
WatchedInv ==
  /\ \A p \in watched : fs["src"][p] # Absent /\ \A q \in Paths : IsPrefix(q, p) => q \in watched
  /\ \A p \in ToSet(toWatch) : p = Root \/ Parent(p) \in watched

\* Calls and events are about entries of directories the worker knows, and so is what it copied.
Known(p) == p = Root \/ Parent(p) \in watched \cup listed
KnownInv ==
  /\ \A t \in ToSet(todo["worker"]) : Known(t.path)
  /\ \A e \in ToSet(queue) :
       Parent(e.path) \in watched /\ fs["src"][Parent(e.path)] = Dir
  /\ \A p \in Paths : fs["dst"][p] # Absent => p \in leftover \/ Known(p)

Announces(e, p) == e.kind = "changed" /\ IsPrefix(e.path, p)
Deletes(e, p)   == e.kind = "deleted" /\ IsPrefix(e.path, p)
Announced(p)    == \E e \in ToSet(queue) : Announces(e, p)
Deleted(p)      == \E e \in ToSet(queue) : Deletes(e, p)

\* What is there although its removal is queued is announced again later; what was announced as
\* a directory and is none is removed later.
OrderInv ==
  \A i \in DOMAIN queue, p \in Paths :
    /\ Deletes(queue[i], p) /\ fs["src"][p] # Absent =>
         \E j \in DOMAIN queue : i < j /\ Announces(queue[j], p)
    /\ queue[i].kind = "changed" /\ queue[i].isdir /\ queue[i].path = p /\ fs["src"][p] # Dir =>
         \E j \in DOMAIN queue : i < j /\ Deletes(queue[j], p)

\* A directory of the source is watched, or will be ...
ToBeWatched(p) ==
  \/ \E q \in ToSet(toWatch) : IsPrefix(q, p)
  \/ \E e \in ToSet(queue) : Announces(e, p) /\ e.isdir
WatchInv ==
  stage = "loop" =>
    \A p \in Paths : fs["src"][p] = Dir => p \in watched \/ ToBeWatched(p)

\* ... and was listed, or will be.
ToBeListed(p) == Announced(p) \/ \E t \in ToSet(todo["worker"]) : IsPrefix(t.path, p)
ListInv ==
  \A p \in Paths : fs["src"][p] = Dir => p \in listed \cup missed \/ ToBeListed(p)

MakeInv ==
  \A t \in ToSet(todo["worker"]) :
    t.do = "make" /\ fs["src"][t.path] # Dir => t.path \in missed \/ Deleted(t.path)

\* The target has nothing of another kind than the source, but for what will be removed.
KindInv ==
  \A p \in Paths :
    fs["dst"][p] # Absent /\ View("src", p).kind # View("dst", p).kind =>
      p \in missed \cup leftover \/ Deleted(p)

\* The target has what the source has, but for what will be copied or is being copied.
ToMirror(p) == Announced(p) \/ \E t \in ToSet(todo["worker"]) : Covers(t, p)
Copying(p) ==
  LET f == file["worker"]
  IN  f # NoFile /\ f.path = p /\ f.from = fs["src"][p] /\ (f.read => f.buffer = data[f.from])
Behind(p) ==
  /\ fs["src"][p] # Absent
  /\ fs["dst"][p] # Absent =>
       /\ IsFile(fs["src"][p]) /\ IsFile(fs["dst"][p])
       /\ \/ data[fs["src"][p]] # data[fs["dst"][p]]
          \/ file["worker"] # NoFile /\ file["worker"].path = p
CopiedInv == \A p \in Paths : Behind(p) => p \in missed \/ ToMirror(p) \/ Copying(p)

Mirroring ==
  /\ WatchedInv /\ KnownInv /\ OrderInv /\ WatchInv
  /\ ListInv /\ MakeInv /\ KindInv /\ CopiedInv
MirrorInv == Alive => Mirroring

IndInv ==
  /\ TypeOK /\ InodesApart /\ RestoreInv /\ SettledInv /\ AloneInv
  /\ RootsInv /\ OpenInv /\ StageInv /\ MissedInv /\ MirrorInv
=============================================================================
