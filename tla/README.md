# Specifications for the programs of ops1_shared

The repository holds the C programs of an operating-systems course: three
implementations of an interactive backup supervisor, and a set of smaller programs
about processes, signals, threads, mutexes and condition variables. It has no tests
and almost no documentation; the code is the reference.

## Inventory

### 1. The backup supervisors

All three read commands (`add`, `end`, `list`, `restore`, `exit`) from a terminal, fork
one worker per (source, target) pair, copy the source to the target once, then mirror
changes with inotify. They share no code and differ in every hard decision.

| part | state it keeps | operations | what is hard | what must be true |
|---|---|---|---|---|
| **moroz: registry** `moroz/p1/mykhailo_moroz/src/main.c` 79-113, 993-1058, 1489-1828 | list of (src, dst, pid, active, created_at); `g_terminate` | add (several targets), end, list, restore, exit; reap; fork | blocking calls interrupted by handlers (no `SA_RESTART`); SIGTERM before the child's handler is installed or between test and `read`; zombies; a list that cannot grow | pids in active entries are our unreaped children; no live worker is forgotten; restore never runs against a live worker; the supervisor ends |
| **moroz: mirror worker** same file, 324-812, 1192-1487 | kernel queue, watch map (wd to path), pending moves (cookie, paths, time), target tree | initial copy, one handler per event kind, expiry of pending moves | the user changes the source while an event waits; renames of directories; moves out of the tree; queue overflow; changes before the watches exist | once quiet, the target equals the source; every watch resolves to the path its directory has now |
| **moroz: restore** same file, 815-990 | source and backup trees, `created_at` | `check_src_against_backup`, `apply_backup` | type changes; modification time against creation time; a missing backup | afterwards the source has nothing the backup lacks and lacks nothing the backup has |
| **lesha: supervisor** `lesha/p1/aliaksei_kudzelka/src/main.c` | per source: list of targets with pid and active flag; `exit_requested` | as above; an ended target can be re-added | restore runs while the worker mirrors; dead workers are never reaped; a subdirectory's DELETE_SELF ends the worker | as above |
| **orlov: supervisor** `orlov/project_1/main.c` | array of 256 active pairs, removed by swapping with the last | as above; add validates all targets first | indices after a swap; limits of the array and of the watch table; SIGTERM lost in a starting worker | as above |

Parsing of a command line (quotes, escapes, at most 32 or 64 arguments) is sequential;
its hazards are the boundaries of the buffers.

### 2. Thread programs

| program | state | what is hard | what must be true |
|---|---|---|---|
| `moroz/ConsultationL3/sop-shop.c` | shelves with one mutex each, a flag, workers cancelled by signals | cancellation inside `ms_sleep` while two mutexes are held; lock order | the shelves stay a permutation; no deadlock by lock order; termination |
| `moroz/w3/mykhailo_moroz/ops-port.c` | ship and state mutexes, a condition, package counters | lost wake-ups, the recheck after the second lock | packages are conserved, each number is used once, docks end |
| `moroz/PracticeTasks_Lab03/prog17..20.c` | counters, lists, cancelled threads | cancellation, removal under a lock, a flag read before it is written, data read without its mutex | counters are conserved; cancelled threads are not joined yet |

### 3. Process and signal programs

| program | what is hard |
|---|---|
| `orlov/lab2_prep/task2_alternative.c`, `task2.c` | students and teacher exchange SIGUSR1 / SIGUSR2, which do not queue |
| `moroz/PracticeL2/abc/ops-sign.c` | a start barrier and a SIGCHLD count around `sigsuspend` |
| `moroz/GradedPolish2/sop-collection.c`, `orlov/lab2_prep/pol_lab.c` | donations announced by signals and read from files |
| `moroz/w2/mykhailo_moroz/ops-admin.c`, `moroz/Graded2_2024/red_pyramid.c` | process trees driven by SIGUSR2 / SIGINT |
| `common/process_supervisor/lab.c` | a tree of processes whose root rebroadcasts signals (described in `LabDescription.md`), waits interrupted by them |
| `orlov/lab2_prep/task1.c` | reports that merge, a test before `pause` |
| `lesha/processes_last_year/main.c`, `lesha/maciej_task/main.c` | a signal before `sigsuspend`; a relay of signals over the children |
| `lesha/WebsiteGradeLab2/main.c` | SIGINT counting, SIGALRM |

### 4. Sequential exercises

Directory listings, file cloning, libraries of books, matrix products and the like: no
state that outlives a call and no concurrency.

## Modules

| module | models | used by |
|---|---|---|
| `BackupSupervisor` | moroz: list, commands, signals, life of a worker | `BackupSupervisorProofs` |
| `OrlovSupervisor` | orlov: the same parts | `OrlovSupervisorProofs` |
| `LeshaSupervisor` | lesha: the same parts | `LeshaSupervisorProofs` |
| `WatchedTree` | a user's file system and inotify (external: the kernel) | `MirrorWorker`, `OrlovMirror` |
| `TreeUsers` | the users the two mirror workers run beside | `MirrorMC`, `OrlovMirrorMC` |
| `MirrorWorker`, `MirrorMC` | moroz: initial copy, watches, event loop, pending moves | |
| `OrlovMirror`, `OrlovMirrorMC` | orlov: copy, watch table, event loop, restore | `OrlovMirrorProofs` |
| `LeshaMirror`, `LeshaMirrorMC` | lesha: worker, restore, user and a target used again | `LeshaMirrorProofs` |
| `Restore`, `RestoreMC` | moroz: `check_src_against_backup`, `apply_backup` | `RestoreProofs` |
| `BackupService` | what a backup supervisor promises of its pairs | refined by the three supervisors: `BackupSupervisorProofs`, `LeshaSupervisorProofs`, `OrlovSupervisorProofs` |
| `PackageFlow` | what the port promises: packages go aboard, into a hand, away | refined by `OpsPort` |
| `OpsPort`, `OpsPortMC` | ops-port: threads, mutexes, condition, signals | `ShopAndPortProofs` |
| `NightShop` | sop-shop: shelves, workers, cancellation | `ShopAndPortProofs` |
| `Processes` | what the small programs share: places, pending signals, zombies (external: the kernel) | the modules below |
| `Classroom`, `FirstClassroom` | task2_alternative.c and task2.c: teacher and students | `ExercisesMC` |
| `SignPages` | ops-sign.c: start barrier, signatures, SIGCHLD count | `ExercisesMC` |
| `Collection` | sop-collection.c and pol_lab.c: donors, boxes and their files | `ExercisesMC`, twice |
| `ProcessTree` | process_supervisor/lab.c: a tree of processes and its signals | `ExercisesMC` |
| `Office` | ops-admin.c: documents passed up a tree | `ExercisesMC` |
| `BallThrowers`, `NumberList`, `StudyYears` | prog18.c, prog19.c, prog20.c: threads | `ExercisesMC` |
| `RepeatedReports` | orlov task1.c: reports by signal until enough were counted | `ExercisesMC` |
| `StoneWorkers`, `ChildRelay` | lesha processes_last_year and maciej_task | `ExercisesMC` |
| `ExercisesMC` | the small programs, one of which runs | `ExercisesProofs` |

A supervisor and a mirror meet only in what `fork`, a signal, a queue and an exit pass
between them. So a supervisor module keeps of a worker the stage it has reached, with the
handlers that stage has installed and the blocking call it sits in, and a mirror module
keeps of the supervisor that the worker was started. Whether a worker can be told to
stop is a question to the first, what its target holds a question to the second. Where
the program itself mixes the two (lesha restores beside a live worker, orlov restores
what a stopped worker has left) the mirror module has the commands too.

### `BackupSupervisor`

| in the model | in `moroz/p1/mykhailo_moroz/src/main.c` |
|---|---|
| `backups`, a sequence of `[src, dst, pid, active]` | `g_list`; entries are never removed |
| `terminate`, `intr` | `g_terminate`; a handler ran while the parent was in `waitpid` |
| `stage[w]`, `exitFlag[w]` | where a worker is between `fork` and exit, and so which handlers it has; its `g_child_exit` |
| `srcDir`, `rootGone[w]` | outside: which sources exist; the event that a source has gone waits in the queue of `w` |
| `pc`, `cmd`, `cur`, `forked` | the loop of `main`, the command at hand with the targets still to do, the entry whose worker is awaited, the child that is not registered yet |
| `abandoned`, `unlisted`, `lost` | history: a worker whose wait was interrupted; one that was forked when the list could not grow; one that has lost a SIGTERM |
| `ParentStep` | the commands, `reap_children`, `spawn_backup`, `waitpid`, cleanup |
| `WorkerStep(w)` | initial copy, `child_install_signals`, the test of `g_child_exit`, `read` |
| `User` | a line typed, a signal sent, a source that vanishes |

SIGTERM and its handler are one step. SIGCHLD matters only because its handler makes
`waitpid` and `fgets` return EINTR: the death of a worker does that to the parent
(`InterruptParent`), and `WaitInterrupted` is the wait that returns for that reason.

### `OrlovSupervisor` and `LeshaSupervisor`

They have the same shape and differ as the programs do. In orlov's, `reap_children`
runs before each command and frees process numbers, which a later child may get; an
entry is removed by moving the last one into its place; `add` checks all targets before
it starts the first worker, and the array has `MAX_BACKUPS` places. In lesha's, an ended
pair keeps its entry and is started again in it over what its target holds; nobody reaps
a worker until it is ended; `restore` leaves the worker running; a worker has the handler
of the supervisor during the initial copy, tests the flag, and is under the default
action afterwards.

### The mirrors

`WatchedTree` has two trees (the source and a place outside it, so that moves out and in
are moves) whose entries are inodes for directories and versions for files, and a kernel
that keeps one watch descriptor per inode, merges an event equal to the last one queued,
drops what does not fit, and sends IN_IGNORED for a watch that goes. A change is a system call,
or three for a file that is written (open, write, close). The call changes the tree first and its
events are queued afterwards, one at a time (`doing`, `Proceed`), as inotify does: the worker may
read MOVED_FROM without MOVED_TO, or copy a file that was opened and not yet written. The target
is the function `dst` from paths to what was copied there.

| in `MirrorWorker` | in `main.c` of moroz |
|---|---|
| `map` | `WatchMap`: descriptor to path, as the worker knows it |
| `pending` | `PendingMoves`: moves waiting for their second half, with cookie, path and whether the time is up (`old`) |
| `copyTodo`, `scanTodo`, `listTodo` | the recursion of `copy_tree` and `add_watch_tree`: `CopyEntry`, `ScanDir` and `ListDir` take an entry per step, in any order |
| `Read`, `Handle...` | one `read` of the queue, one action per branch of the event loop |
| `Tick`, `Expire` | time passes; the moves whose time is up are removed before the next read |
| `MovedOn`, `Stale` | the path at hand is one that its directory has left, by a move the worker has still to handle: what the worker finds there is not what it looks for |
| `lost` | history: paths lost for a named cause |

`OrlovMirror` has the watch table with `MAX_WATCHES` places, the copy of a directory before
its watches, removal and a new copy in place of a rename, and a restore that first stops
the worker: `Stop`, `RestoreDir`, `RestoreFile`, `RemoveOthers`. Each round of
`remove_watches_under` is a step (`RemoveWatchUnder`), because it calls the kernel and the
user may act between two of them; the directory goes from the target after the last
(`RemoveDir`). Sizes and times are left
out, so `RestoreFile` may take any other version of a file for the one it has; the
history `kept` names those. `heard` says that an event of the last change of a user who waits has
been read, `before` and `after` what the source was before that change and when the worker was
stopped, and `half` that it was stopped with a part of the change's events read.

`LeshaMirror` models each file copy as the three system calls it is (`open` with
O_TRUNC, `read`, `write`), since there two processes copy the same pair in opposite
directions. Hashes are the relation `Alike`: which contents hash to the same value.
The history `missed` names what the worker cannot know. One case of it needs four changes
of the user and a restore: the event of a file that restore closes names a directory by the
time the worker handles it, which copies the directory without watching it; what the user
removes there before the directory's own event is handled stays in the target.

### `Restore`

`src`, `bak` and `orig` (the source when the command began) map paths to an entry:
absent, a directory, a file or link with its content and whether it is newer than
`created_at`, or something else (a FIFO, a socket). `todo` holds what the walk still has
to visit. `CheckEntry`, `ApplyEntry` are one call of `check_src_against_backup` and
`apply_backup` on one entry; `Fail(p)` is any system call of that entry failing, with what
had been done before (a file truncated, a link unlinked and not made again); `Again` is the user
who repeats the command. Times are whole seconds, so what restore writes may be newer than the
backup or not (`late`).

### `BackupService`

What a user may rely on, without the list, the commands or the signals: which pair a worker
serves, which pair is being restored, and the two ways in which a worker leaves the
supervisor's care. A worker begins a pair only when no other serves it and it is not being
restored; a restore begins when the workers of its pair are gone or were given up; a wait is
given up only when a signal came, and then for one worker; nothing is left at the end but
what was given up. The mapping (`Serves`, `Writing`, `Open`, the histories) stands at the end
of each supervisor's module. `RestoreStops` is FALSE for lesha, whose restore lets the
worker go on. A fork or an exit in the code is one step of the service; a command that
finds nothing to do, a reaping and a registration are stutters.

### `OpsPort`, `NightShop`

A step is an access to a mutex, to a condition or to shared data; between two of them a
thread does nothing another could see. Signals are sets (a pending standard signal is
not queued twice). `OpsPort` has spurious wake-ups and `pthread_cond_broadcast`; its
refinement mapping to `PackageFlow` is at the end of the module; `OpsPortMC` is the instance
that the run and the proofs share, under names that `NightShop` does not use. `NightShop` models
deferred cancellation at its one cancellation point inside the locked section, the
sleep, and the cleanup handler as written.

### The small programs

`Processes` gives each of them the same machine: `at[p]`, the place of a process or thread in
its code; `pending[p]`, its pending signals, each kept with its first sender and never
queued twice; and `mem`, a record with the program's own data. A handler is an
action enabled wherever the signal is not blocked, so it may come between any two steps, and
in particular between a test and the call that waits. A process in `sigsuspend` or
`pause` leaves it only through a handler. `ExercisesMC` has a variable `program` that
says which of them runs.

- `Classroom`, `FirstClassroom`: a merged SIGUSR1 keeps its first sender, since `si_pid` is what
  the teacher answers. The first version blocks nothing, spins until it has counted all reports
  and waits for one child.
- `SignPages`: each `write` to a page opened with O_APPEND is a step; `ReapAll` is the SIGCHLD
  handler with its `waitpid` loop. The test of errno after `sigsuspend` is a step of its own
  (`Resume`, `Fails`): the handler may run before it and leave ECHILD there (`After`).
- `Collection`: one module for two programs that differ in five tables (which signal leads to which
  box, in what order a box sets itself up, the order of the fields as written and as read,
  what a donor does on SIGTERM), chosen by `PolLab`. Writes of a donor and the read of a
  box are steps of their own. Ctrl-C, which donors take for a direction, is left out.
- `ProcessTree`: heap-numbered tree; `once` is the set of signals for which the uninitialized
  `sa_flags` happened to contain SA_RESETHAND, chosen freely. Leaves exit at once. Between the
  return of an interrupted `wait` and the test of errno a process is "interrupted"; a handler that
  runs there leaves ESRCH in every process but the root, which is then "clobbered" and takes the
  branch that calls `kill(-1, SIGKILL)` (`TryAgain`, `KillOthers`). The root's signal to its group
  reaches the root too.
- `Office`: all signals open in a `sigsuspend` are handled before it returns, and make one document.
- `BallThrowers`, `NumberList`, `StudyYears`: a critical section under one mutex that waits for nothing
  and alone touches its data is one step; what main reads without a mutex is read in steps
  of its own. The flag prog19 reads before anybody wrote it starts with either value.
- `RepeatedReports`, `StoneWorkers`, `ChildRelay`: signals to a process group reach every live
  member, the sender included.

## Runs

| run | instance | what it shows |
|---|---|---|
| `supervisor` | 1 source, 2 targets, 2 processes, 1 target per command, 1 signal | `PidsAreOurs`: `kill` and `waitpid` only ever name an unreaped child. `LiveWorkersAccounted`: a worker that lives is listed, just forked, or one of the code's two leaks. `ServiceSpec`: the supervisor implements `BackupService`. `WaitsEnd`: a wait, and the program, end unless a SIGTERM fell into one of two windows |
| `orlov_supervisor` | the same, 2 targets per command, `MAX_BACKUPS` 2 | `ListIsExact` though process numbers are used again and entries move; `ServiceSpec`, `WaitsEnd` |
| `lesha_supervisor` | the same, 2 targets per command | `ActiveAreChildren`; `ServiceSpec`, whose restore does not stop the worker; `WaitsEnd` without exception: this program loses no SIGTERM |
| `mirror` | two directory names, one file name, two levels; `MorozUsers`; up to 4 changes, 2 pending moves, 6 events | `Converged`: at rest the target equals the source, but for seven named causes; a user who waits loses nothing. `WatchesCurrent`: the watch map names each directory by the path it has now, but for the same causes |
| `orlov_mirror` | the same tree, `OrlovUsers`, 4 watches, 7 events | `Converged`, `WatchesCurrent`; `TableExact` for a user who waits; `RestoreUndoes`: restore gives that user the source as it is, or as it was before the one change that was still unread; if a part of the change's events had been read, each entry as before it, as after it, or a written file as it was when opened |
| `lesha_mirror` | a file, and a name in it, each of which may become a file or a directory; 4 changes, 2 commands; contents 2 and 3 hash alike | `Converged`, also after a restore beside the worker; `RestoreFaithful`: a restore that is alone and reports success is exact but for equal hashes and the conflict `mkdir` hides; `MirroredIsKept`: a restore beside a settled worker changes nothing |
| `restore` | every source and backup over `/`, `/a`, `/a/x`, `/b`; 1 failure | `Restored`, `NeverTouchesSame`, `NothingInTheWay`; `Finishes`: a failed attempt leaves nothing a later one cannot finish |
| `port` | 3 workers, ships of 1 or 2 packages, 2 ships, 1 spurious wake-up | `EachPackageOnce`, `FlowSpec` (refinement), `PortCloses`, `ShipUnloaded` |
| `shop` | 3 shelves, 2 workers, three nights of two signals each | `ProductsStay`, `OrderImproves`, `CancelsLiveThread`; `BlockedOnlyByCancel` and `ShiftEnds`: nothing but a worker cancelled in its sleep can stop the shop |
| `exercises` | 13 programs: 3 students with 2 parts and 1 issue; 3 signers, 2 pages; 2 boxes, 2 donors, 1 SIGTERM; a tree of 7; 3 throwers, 3 balls, 2 bins; a list of 3; 2 students and 3 turns; 2 reporters, 3 reports; 2 workers; 2 children, 3 calls; 4 officials, 3 documents | `OnlyMergedLost`, `OneAnswerPerPart`: the two classes. `PagesSigned`, `BoxesCount`: what several processes write to one file. `TreeWaits`: a process of the tree that ends by itself has waited for both children, and a signal ends one only for one of two named reasons. `CountsAddUp`: shared counters, and the documents. `AllReaped`: whoever has ended has waited for its children and counted them right. `ProgramsEnd`: each program ends, or comes to rest at a place its `Ends` names |
| `class_reports` | the class alone, 2 students, 1 part | expected violation, see Findings |
| `tree_docs` | the tree alone, as in `exercises` | expected violation, see Findings |

### Why the bounds are enough

- *Supervisors.* A race is between a pair's old and its new worker, or between the
  workers of two entries of one source: two processes and two targets give both, and the
  swap-with-last removal of orlov, its full array, and a reused process number. A second
  source would only be a pair that shares nothing with the first. A second signal to the
  supervisor finds its flag set already. All three are proved for all values.
- *Mirrors.* Two levels are what it takes for a directory to move with content or into a
  directory that is being walked; two directory names, for crossing renames. Every
  cause of a loss listed in the modules was found within these bounds, and each of them
  needs at most four changes. Two users never wait: `Editor` makes and removes, `Hasty` makes,
  renames and removes directories into each other and writes a file in one, so that events
  in the queue or in the buffer name paths their directories have left, and events and walks
  come between the halves of a rename. Each event of a change is queued in a step of its own.
  The queues are short enough to overflow, for users who do not wait, and the tables of pending
  moves and of watches can fill.
- *Restore.* The walk looks at one entry and its parent; the proof covers every tree.
- *Port.* Three workers: one between test and wait, one waiting, one unloading the last
  package. The proof covers every number of workers.
- *Shop.* Three shelves and two workers make two workers share one shelf or both. Which
  signals come in one night is chosen in pairs to keep the instance small.
- *Small programs.* Three students or signers: one answered, one pending, one merged. Two donors,
  so that the second comes before the box has read the first, and two boxes, so that they go
  to one box or to two. A tree of three levels has a process that is child and parent. Three
  throwers and three balls leave one thread between its ball and the count while main polls.
  Three documents in four officials: two that meet at a superior, and one behind them.
  `MaxDonors`, `MaxCalls`, `MaxDocuments`, `Rounds` and `Enough` bound what the user, or a clock, repeats.

### Fairness

- Supervisors: weak fairness of the parent and of each worker, because the kernel runs
  each process that can run. Nothing is assumed of the user, who may type nothing and send
  nothing; a blocked `read` or `fgets` is not a step of the process. In
  `OrlovSupervisor` a worker is also fair in reading the event that says its source has
  gone, which is in its queue.
- `Restore`: the command runs, and a user whose restore failed repeats it; failures are
  bounded by `MaxFails`.
- `OpsPort`, `NightShop`: weak fairness per thread. A mutex that is taken and
  released for ever may starve a thread, so `ShiftEnds` starts at the flag that ends the
  shift. Spurious wake-ups are bounded by `MaxSpurious`.
- `ExercisesMC`: weak fairness per process and thread; sleeps end. A user may send nothing: where
  a program waits for one, its `Ends` says so. In `RepeatedReports` signals come again and
  again, and a process runs both its handler and its own code (`ReportHandler`,
  `ReportCode`), because the senders sleep in between.
- The mirrors have safety properties only; what they say of a worker at rest needs none.

### Deadlock checking

Deadlock is checked in `port`, whose last state stutters; in `supervisor` a source may come
and go at any time, so it is `WaitsEnd` that finds a supervisor that hangs. `CHECK_DEADLOCK FALSE`
stands where the program ends (`OrlovSupervisor`, `LeshaSupervisor`, `Restore`), where a worker
waits in `read` once the user has stopped (the mirrors), and where the code can stop
for a reason a property names: a worker in its cleanup handler (`NightShop`; there
`BlockedOnlyByCancel` says what deadlock checking would), and the small programs, which end, or
stop where their `Ends` says (`ExercisesMC`: `ProgramsEnd` finds any other stop).

## Findings

- `class_reports`: a comment in `task2_alternative.c` (271-272) says that signals cannot
  be lost because they are blocked outside `sigsuspend`. A blocked standard signal is not
  counted: two reports before the teacher is back make one, and the second student
  waits for ever. `OnlyMergedLost` says what is true.
- `tree_docs`: two sentences of `LabDescription.md` about `lab.c`, refuted by one trace with one
  Ctrl-C. A parent waits for both children "handling EINTR" (64): the handlers end with a `kill`
  of the group numbered like the process, which only the root has; elsewhere it fails and errno
  becomes ESRCH. If that happens after an interrupted `wait` has returned and before errno is
  tested, the process calls `kill(-1, SIGKILL)` (59-61), which ends all the others. "If root
  receives SIGINT twice" it exits at once (122): the root's signal to its group comes back to
  itself, so one SIGINT of the user makes two, and it leaves children it has not waited for.
  `DescribedWaits` is the disjunction of the two claims (`InterruptedWaitsAgain`, `RootWaits`). On
  SIGUSR1 the root ignores its own.

The properties of the other runs name, as exceptions, what the code does. A reader who
changes the code may want to remove these.

*moroz.* A SIGTERM is lost before `child_install_signals` and between the test of
`g_child_exit` and `read`; `end`, `restore` and `exit` then wait for ever. A `waitpid`
that returns EINTR marks the entry ended while its worker lives, and a later restore
has that worker beside it. A list that cannot grow leaves a worker nobody waits for. An
ended pair can never be added again: `add` calls it active. `end` passes over a pair
whose target no longer resolves. The mirror loses changes in the seven ways listed at the
head of `MirrorWorker`. The sixth takes two quick changes: `d/x` is written and `d` renamed to `e`
before the worker reads; the event of the write is turned into `d/x`, which is not there, and
`e/x` in the target keeps its old content. `restore` of a source whose backup is missing removes the
source; it removes FIFOs; it leaves a differing file that is not newer than the backup.

*orlov.* A SIGTERM during the initial copy runs the handler inherited from the
supervisor and is lost, so that `end` right after `add` may never return. A `waitpid`
that returns EINTR drops the entry of a worker that lives. `end` is refused once the
source is gone. A directory moved into one that was just created loses its watch. `restore`
passes over a file of the same size that is not older. A restore that stops the worker between
the two halves of a rename removes what was renamed from the source, because the target has lost
the old name and not got the new one; one that comes between the creation of a file and its
contents makes the file empty again.

*lesha.* A `fork` that fails leaves an ended entry, which the next `add` starts without the
test for an empty target. What a target held when it is used again stays. A restore beside
a worker may leave two copies of one file truncating each other until the next event. `mkdir` with
EEXIST hides a file where the backup has an empty directory. An empty line does not look at
`exit_requested`. The branch the comment calls "source removed; stop worker" (653-658) is taken for
every watched directory: when any subdirectory is removed or moved the worker ends, and its
pair stays listed as active.

*sop-shop.* The cleanup handler locks the two shelves the cancelled worker holds instead of
releasing them. A worker cancelled in the sleep hangs there with both, and so does everybody
who wants them.

*The small programs.* In both classes a report that finds another one pending is lost, and
its student and the teacher wait for ever. ops-sign waits for ever when the last SIGCHLD comes
between the test of `children_left` and `sigsuspend`, and fails without printing the signatures when it
comes between the return of `sigsuspend` and the test of errno. In the collection a box that has not
read when the next donor comes misses or misreads a donation; a direction or SIGTERM
handled between handlers and mask has no effect; a box's SIGTERM can end the last wait early
and leave boxes behind; a donor without a file kills the whole group. The class of task2.c
waits for one student of all. prog19 may leave its loop at once, but frees nothing before
the thread has ended. A stone worker called before its `sigsuspend` waits for ever. The
children of maciej_task are started only if somebody outside sends the parent a signal for
each. Officials merge documents.

## Proofs

All theorems hold for every value of the constants that satisfies the module's named
`ASSUME`: `ConstantsAssumption`, `RestoreAssumption`, `PortAssumption`,
`ShopAssumption`, `MirrorAssumption`, `TreeAssumption`, `OrlovMirrorAssumption`,
`ExercisesAssumption`, `ProcsAssumption` (each supervisor has its own
`ConstantsAssumption`). They say of what kind the constants are (a
finite set of processes or of paths closed under prefixes, a tree of paths given by `Below`
and `Children`, disjoint names of files and of directories, numbers), and TLC evaluates them
in the runs.

`BackupSupervisorProofs`: `Invariance` proves the conjunction `IndInv`; from it
`TypeCorrectness`, `PairsAreUnique`, `SignalsReachOwnChildren` (`PidsAreOurs`), `NoOtherLeak`
(`LiveWorkersAccounted`), `RestoreIsExclusive`, `PairsAreServedOnce`
(`OneWorkerPerPair`) and the action property `EntriesAreStable`. None of these is
inductive alone. A registration keeps `PidsAreOurs` only if the child just forked is in no
entry and its pair in none either (`SpawnedInv`). The end of a wait keeps `LiveWorkersAccounted`
only if the entry marked is the one of the worker awaited (`WaitingInv`). `RestoreExclusive`
needs the pair of the command to have no active entry (`RestoringInv`), and an
active entry to name the worker of its own pair (`EntriesMatchWorkers`).
`OneWorkerPerPair` needs to know that a worker whose wait was interrupted left an ended
entry, which `find_backup` still finds (`AbandonedInv`).

The same module proves `ImplementsService`, that `BackupSupervisor` refines `BackupService`.
Initial states map to initial states. A step that changes no life and no pair is a stutter
(`SameLifeServes`, `QuietStep`), the exit of a worker is `End`, which may also be the SIGCHLD
that interrupts a wait (`ExitsStep`), a fork is `Begin` (`ForkStep`, from `OneWorkerPerPair`
after the step), the end of a wait is `Wait` or `StartRestore` (`WaitStep`, from
`RestoreExclusive` after the step), and the last step is `Close`: an active entry names an
unreaped worker of its pair, so that a worker still running when the list has been waited for
is one of the two leaks (`FinishStep`).

`LeshaSupervisorProofs`: `Invariance` of `IndInv`; from it `TypeCorrectness`,
`ActivesAreOwnChildren` (`ActiveAreChildren`), `NoOtherLeak` (`UnlistedWereLeft`) and
`ImplementsService`, the refinement of `BackupService`. This program has no list of ended
pairs and starts a pair again in its old entry, so the argument differs from moroz's: a signal
that interrupts a wait has set `exit_requested`, after which no worker is started
(`LeavingInv`); hence at a fork nobody was given up, every live worker is in an active entry
(`UnlistedWereLeft`) whose pair is its own (`ActiveAreChildren`), pairs are listed once
(`UniquePairs`), and the pair about to start has no worker.

`OrlovSupervisorProofs`: `Invariance` of `IndInv`; from it `TypeCorrectness` (the list never
outgrows `MAX_BACKUPS`), `ListStaysExact` (`ListIsExact`) and `ImplementsService`. A lemma on
the removal (`WithoutEffect`) says that every other entry is kept once, whatever place it has
now. `stop_all` frees process numbers before it drops the entries that name them, so what is
said of an entry is said of the `Current` ones; `CurrentAreChildren` gives each its own
unreaped worker. That `add` forks for no pair twice, though it looked the pair up before,
rests on `AcceptedInv`: the accepted targets are neither listed nor named twice, and nothing
is listed in between. The rest is the argument of lesha's: a wait that was given up has set
`stop_flag`, and nothing starts afterwards.

`RestoreProofs`: `Invariance` of `IndInv`; from it `RestoreIsExact` (`Restored`),
`SameEntriesAreSafe` (`NeverTouchesSame`) and `ChecksBeforeWriting` (`NothingInTheWay`). The
strengthening says what the walk still has to do: every misfit lies below an entry of `todo`
(`CheckInv`), every entry that is not in place does (`ApplyInv`), what the command wrote is new,
or equals the backup, or is a copy cut short within the second of the backup's creation, which
`KeptOld` names, so that a second attempt after a failure takes no other truncated file for one to
be left alone (`AgeInv`), and trees have directories above their entries (`Shaped`).

`ShopAndPortProofs`, the port: `PortInvariance` of types, of who holds which mutex (`MutexesHeld`), of
`EachPackageOnce` and of the link between a worker's package and its number; from it
`PackagesAreConserved`, `PortClosedForGood` (after SIGINT nothing leaves a ship) and
`PortImplementsFlow`: the initial states map to those of `PackageFlow` and every step to a step
of it or to a stutter.

The same module, the shop: `Invariance` of `IndInv`; from it `TypeCorrectness`, `ProductsAreKept`
(`ProductsStay`), `CancelsOnlyLive` (`CancelsLiveThread`) and `SwapsImprove`
(`OrderImproves`). In the middle of a swap one product is on two shelves and another on none,
so the invariant speaks of the shelves as they will be (`Settled`): the holder of the shelf
still to be written knows what goes there. That it writes what it compared rests on `SwapInv`,
which rests on who has locked which shelf where it is in its code (`WorkersHold`); a shuffle
permutes what is on the shelves, and nobody is at work there, since the signal thread has
locked them all (`SigHolds`). A worker can be cancelled if it was not before (`ActiveInv`);
main joins only threads that have ended, which takes a cancellation or the flag, and when the
flag is up nobody is cancelled any more (`EndInv`).

That a swap leaves fewer pairs in the wrong order is a count: exchanging the two shelves maps
the pairs that are wrong afterwards one to one to pairs that were wrong before, and the pair
that was swapped is none of them.

`LeshaMirrorProofs`: `Invariance` of `IndInv`, over every finite tree of paths; from it
`TypeCorrectness`, `SettledRestoreKeeps` (`MirroredIsKept`), `RestoreIsFaithful`
(`RestoreFaithful`) and `RestingIsConverged` (`Converged`). The conjunction has four parts.
- Well-formed trees: nothing lies below what is no directory, and no inode has two names
  (`InodesApart`). That `Fresh` exists is a count: at most four inodes are open, and a name
  that needs one leaves fewer than `2 |Files|` names that hold any.
- `SettledInv`: restoring beside a worker at rest only opens files that are empty on both sides,
  since every other one hashes like its backup; so the trees and the contents stand still, and
  the events that restore causes make the worker copy empty files to empty files.
- `AloneInv`: without a worker the target is still `goal`. What the backup has is recovered, or a
  call still to be made covers it (`CopyInv`); what it lacks is gone, or is still to be
  removed by a call that no `rmdir` of a directory above precedes (`RemoveInv`). That order is why
  `rmdir` finds the directory empty. An error of `remove_if_missing` goes unnoticed only at a
  file where the backup has a directory, and then `Hidden` holds, which nothing of the
  removal ends.
- `MirrorInv`: a worker that lives, and will not find that a directory it watches has gone,
  has everything still to do that would make the target equal. What the source has and the
  target lacks, or has with other contents, is announced by an event, covered by a call the
  worker has still to make, or open in the copy under way (`CopiedInv`, with `OpenInv`: the
  file being written is empty until the worker's one `write`). What the target has of another
  kind is still to be deleted (`KindInv`). That such events come at all takes what the worker
  watches: every directory is watched or will be (`WatchInv`) and was listed or will be
  (`ListInv`), watched directories are watched up to the root (`WatchedInv`), and calls,
  events and copies are about entries of directories the worker has seen (`KnownInv`). That a
  late event does no harm takes their order: what is there although its removal is queued is
  announced again behind it, and what was announced as a directory and is none is removed
  behind it (`OrderInv`, `MakeInv`). `missed` and `leftover` are the only exceptions, and
  `missed` is closed downwards (`MissedInv`). At rest no event, call or copy is left, and
  `Converged` remains (`AtRest`).

`OrlovMirrorProofs`: `Invariance` of `IndInv`, for any names of files and directories, any
tree to begin with, any sizes of the watch table and of the queue and any number of
changes; from it `TheTableIsExact` (`TableExact`), `ARestoreUndoesNoMoreThanOneChange`
(`RestoreUndoes`), and, for a user who waits for the worker before each change
(`Attentive`), `TheTargetConverges` (`Converged`) and `TheWatchesAreCurrent`
(`WatchesCurrent`). `TableExact` and `RestoreUndoes` speak of that user only, so they are
proved as the run checks them; `Converged` and `WatchesCurrent` speak of every user, and for
those who do not wait they are only model-checked. `IndInv` says nothing after an overflow
of the queue, which all four properties except.

What this user's worker still owes is split by who will do it.
- `TreeInv`: the user's tree stays one, inodes have one path, a descriptor has one inode.
- `EventInv`: all events that are read, queued or still to be queued come from one change
  (`Pending`). Each names an entry of a
  watched directory by the table as it is (`ChangeAt`), and what is removed comes before what
  is announced, a directory last (`Ordered`); so the table may change under an event only in
  ways the next one does not mind.
- `DoingInv`: what the kernel has still to report is of entries of directories that are there,
  watched ones in the source, and a file that was opened will be written and then closed.
- `WalkInv`: the directories a walk has to visit are there, none is watched, none below another.
- `TableInv`: an entry of the table is current, or will be swept, and the one of the directory
  above is in the table too. Descriptors in it differ, which is why the sweep of a moved
  directory cannot take the watch of another.
- `WatchInv`, `CopyInv`: a directory that is not watched, and an entry that the target lacks,
  is announced by an event or below something a walk has still to visit; what the target has
  too much lies below what an event, or the sweep, is about to remove.
- `BeforeInv`: until an event of a change has been read (`heard`) the target is the source before
  the change; afterwards each entry of it is as before the change, as it is now, or as the file was
  when it was opened. That is what a restore goes back to.
- `TargetInv`, `RestoreInv`: what the restore has written or left lies below directories
  that are there, and what differs from the target is below something `toRestore` or
  `toKeep` has still to visit, or was kept; the target itself is what `RestoreUndoes` allows.

There is one lemma for each step of the worker (`CopyEntryKeeps` to
`RemoveWatchUnderKeeps`), for each kind of change (`WriteKeeps` to `RenameKeeps`, over
`ChangeKeeps`, which says what a change and its events must be) and for each step of the
restore. At rest nothing is queued and nothing left to visit, and the properties
remain (`IdleMeans`, `AllWatched`).

`ExercisesProofs`: `ProgramsKeep` says that whichever program runs, its own inductive
invariant (`IndInv`, at the end of its module) holds; the seven safety properties of the run
`exercises` follow. TLC checked each invariant on its program before it was proved. Each says
what its property does not:
- `OnlyMergedReportsLost`, `PartsAnsweredOnce` (the classes): a report that was sent is pending,
  answered, confirmed or merged into another, and only one of these; in the first version,
  the count of parts is the number of those answered.
- `PagesAreSigned`: a page has its title and one line of each signer that got to it.
- `BoxesReadDonations` (both collections, in one chain of lemmas over `PolLab`): a file holds
  the donations that were announced, in their order, and then what the donor of now has
  written; a box that has always been in time has read them all but the one being announced.
- `TreeHasWaited`: what a process has waited for are its reaped children, handlers that `once` does
  not name stay installed, and the root's errno is never replaced, so that who was ended by a signal
  met one without its handler or was killed by a process that was "clobbered".
- `CountsAreRight`: the balls that wait, are with a thread or were counted are all the balls, and
  partial sums say how far main has added up the bins; a year's counter is the number of
  students in it; the list is in order, and was no shorter when it was printed; a document is
  on a desk, being decided on, or accounted for, and the superior of an official who
  was forked was forked too.
- `ChildrenAreReaped`: who has ended has waited for all its children, or only for those its
  code waits for (one student, in the first class).

Only model-checked: liveness and `BlockedOnlyByCancel` of `NightShop`, which speaks of `ENABLED`
(both out of the prover's reach); `Converged` and `WatchesCurrent` of `OrlovMirror` for users
who do not wait, whose events name paths that may have moved since; the properties of
`MirrorWorker`, which renames and removes whole subtrees of its table by folds over
sequences, so that what the table contains takes an induction over data. `TypeOK` of the modules with proofs is proved as part of `IndInv`.

## Not modelled

- The command line (`parse_line` and the paths of all three supervisors): sequential. Of a
  path a model keeps whether it resolves and whether a target was refused.
- Symbolic links in the mirrors (`Restore` has them), special files, sizes and times where
  no property depends on them, and system calls that fail on an entry that is there.
- `ERR` on a failing call: the program exits, or kills its group.
- `prog17.c`: its threads share nothing but a total that main adds up after the joins.
  `red_pyramid.c`: SIGUSR1 and SIGINT stay blocked and the waits for them are commented out,
  so its handlers never run. `lesha/process_supervisor/lab.c`: an earlier draft of the tree.
- lesha's other signal exercises (one process that counts SIGINT, or an alarm) and the lecture
  examples of `fork`, `sleep` and `wait`: no state that two actors share.
- The sequential exercises of section 4.
