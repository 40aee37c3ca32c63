-------------------------- MODULE BackupSupervisor --------------------------
(***************************************************************************)
(* The interactive supervisor of the sop-backup program                    *)
(* (moroz/p1/mykhailo_moroz/src/main.c): a parent process keeps the list   *)
(* g_list of backups and one forked worker per (source, target) pair.      *)
(*                                                                         *)
(* What is kept: the list, the parent's control flow with its blocking     *)
(* calls (fgets, waitpid), the stages of a worker between fork and exit,   *)
(* the handlers each process has installed at each stage, SIGTERM, SIGINT  *)
(* and SIGCHLD, zombies and their reaping.  sigaction is called without    *)
(* SA_RESTART, so a handler that runs makes a blocked call return EINTR.   *)
(*                                                                         *)
(* What is abstracted: file contents (module MirrorWorker has them), the   *)
(* spelling of paths, the creation time of a backup.  Sending SIGTERM and  *)
(* running its handler are one step: the parent sees nothing in between.   *)
(***************************************************************************)
EXTENDS Naturals, Sequences, FiniteSets

CONSTANTS
  Sources,     \* normalised source directories
  Targets,     \* normalised target directories
  Workers,     \* the processes that may be forked: a bound on the forks
  NoPid,       \* pid 0 of an ended entry
  MaxTodo,     \* bound: targets named by one add or end command
  MaxSignals   \* bound: SIGINT and SIGTERM the user sends to the supervisor

ASSUME ConstantsAssumption ==
  /\ Sources # {} /\ Targets # {}
  /\ NoPid \notin Workers
  /\ MaxTodo \in Nat \ {0}
  /\ MaxSignals \in Nat

VARIABLES
  backups,     \* g_list: the entries in the order they were added
  terminate,   \* g_terminate in the parent
  pc,          \* where the parent is
  cmd,         \* the command being executed and the targets left to do
  cur,         \* index of the entry whose worker the parent waits for
  forked,      \* the child of spawn_backup that is not yet in the list
  intr,        \* a handler ran while the parent was in waitpid
  srcDir,      \* which sources exist as directories
  stage,       \* where each worker is
  exitFlag,    \* g_child_exit of each worker
  pair,        \* the <<source, target>> a worker was forked for
  rootGone,    \* DELETE_SELF or MOVE_SELF of the source waits in the queue
  signals,     \* SIGINT and SIGTERM sent so far
  lost,        \* history: live workers whose SIGTERM found no one to act on it
  abandoned,   \* history: live workers whose waitpid was interrupted
  unlisted     \* history: live workers killed because the list could not grow

parent  == <<backups, terminate, pc, cmd, cur, forked, intr>>
worker  == <<stage, exitFlag, pair, rootGone>>
history == <<lost, abandoned, unlisted>>
outside == <<worker, srcDir, signals, history>>
vars    == <<parent, outside>>

Entry    == [src : Sources, dst : Targets, pid : Workers \cup {NoPid},
             active : BOOLEAN]
Todos    == UNION {[1 .. n -> Targets] : n \in 1 .. MaxTodo}
Commands == [op : {"none", "add", "end", "restore", "exit"},
             src : Sources, todo : Seq(Targets)]

Watched == {"loop", "armed", "blocked", "handling"}
Live    == {"forked", "starting", "copying", "watching"} \cup Watched
Stages  == Live \cup {"none", "zombie", "reaped"}

IsLive(w) == stage[w] \in Live

TypeOK ==
  /\ backups \in Seq(Entry)
  /\ terminate \in BOOLEAN
  /\ pc \in {"top", "ready", "prompt", "command", "spawned", "waiting",
             "restoring", "killing", "draining", "done"}
  /\ cmd \in Commands
  /\ cur \in Nat
  /\ forked \in Workers \cup {NoPid}
  /\ intr \in BOOLEAN
  /\ srcDir \in [Sources -> BOOLEAN]
  /\ stage \in [Workers -> Stages]
  /\ exitFlag \in [Workers -> BOOLEAN]
  /\ pair \in [Workers -> Sources \X Targets]
  /\ rootGone \in [Workers -> BOOLEAN]
  /\ signals \in 0 .. MaxSignals
  /\ lost \subseteq Workers
  /\ abandoned \subseteq Workers
  /\ unlisted \subseteq Workers

NoCommand == [op |-> "none", src |-> CHOOSE s \in Sources : TRUE, todo |-> <<>>]

Init ==
  /\ backups = <<>>
  /\ terminate = FALSE
  /\ pc = "top"
  /\ cmd = NoCommand
  /\ cur = 0
  /\ forked = NoPid
  /\ intr = FALSE
  /\ srcDir = [s \in Sources |-> TRUE]
  /\ stage = [w \in Workers |-> "none"]
  /\ exitFlag = [w \in Workers |-> FALSE]
  /\ pair = [w \in Workers |-> CHOOSE p \in Sources \X Targets : TRUE]
  /\ rootGone = [w \in Workers |-> FALSE]
  /\ signals = 0
  /\ lost = {}
  /\ abandoned = {}
  /\ unlisted = {}

-----------------------------------------------------------------------------
(* The list.                                                               *)

\* find_backup: the first entry of the pair, whether active or ended.
IsMatch(i, s, t) == backups[i].src = s /\ backups[i].dst = t

FindBackup(s, t) ==
  {i \in DOMAIN backups :
     IsMatch(i, s, t) /\ \A j \in 1 .. i - 1 : ~IsMatch(j, s, t)}

\* The entries of the workers in set ws become ended.
Ended(e) == [e EXCEPT !.active = FALSE, !.pid = NoPid]

EndEntriesOf_Forgotten(ws) == backups

EndEntriesOf(ws) ==
  [i \in DOMAIN backups |->
     IF backups[i].active /\ backups[i].pid \in ws THEN Ended(backups[i])
                                                   ELSE backups[i]]

\* reap_children: waitpid(-1, WNOHANG) until no child is a zombie.
ReapChildren ==
  LET zombies == {w \in Workers : stage[w] = "zombie"} IN
  /\ backups' = EndEntriesOf(zombies)
  /\ stage' = [w \in Workers |-> IF w \in zombies THEN "reaped" ELSE stage[w]]

-----------------------------------------------------------------------------
(* Signals.                                                                *)

\* kill(pid, SIGTERM).  A worker that has not installed its own handler runs
\* the parent's, which sets a flag the worker never reads.  One that is between
\* its test of g_child_exit and read sets the flag and still blocks.
Deaf(w) == stage[w] \in {"forked", "armed"}

Terminate(ws) ==
  /\ stage' = [w \in Workers |->
                 IF w \in ws /\ stage[w] = "blocked" THEN "loop" ELSE stage[w]]
  /\ exitFlag' = [w \in Workers |->
                    exitFlag[w] \/ (w \in ws /\ stage[w] \in Live \ {"forked"})]
  /\ lost' = lost \cup {w \in ws : Deaf(w)}

\* A handler runs in the parent: fgets returns EINTR and the loop starts over,
\* waitpid may return EINTR.
InterruptParent(interruptsWait) ==
  /\ pc' = IF pc = "prompt" THEN "top" ELSE pc
  /\ intr' = (intr \/ (pc = "waiting" /\ interruptsWait))

\* A worker exits; its SIGCHLD interrupts the parent, unless it is the very
\* child the parent waits for.
Die(w) ==
  /\ stage' = [stage EXCEPT ![w] = "zombie"]
  /\ exitFlag' = [exitFlag EXCEPT ![w] = FALSE]
  /\ rootGone' = [rootGone EXCEPT ![w] = FALSE]
  /\ lost' = lost \ {w}
  /\ abandoned' = abandoned \ {w}
  /\ unlisted' = unlisted \ {w}
  /\ InterruptParent(pc = "waiting" /\ backups[cur].pid # w)
  /\ UNCHANGED <<backups, terminate, cmd, cur, forked, pair>>

\* SIGTERM sent to the supervisor alone.
SendTerm ==
  /\ pc # "done"
  /\ signals < MaxSignals
  /\ signals' = signals + 1
  /\ terminate' = TRUE
  /\ InterruptParent(TRUE)
  /\ UNCHANGED <<backups, cmd, cur, forked, worker, srcDir, history>>

\* Ctrl-C: SIGINT reaches the whole foreground group.  Workers inherit the
\* parent's SIGINT handler, so a blocked read returns EINTR and tests the flag.
SendInt ==
  /\ pc # "done"
  /\ signals < MaxSignals
  /\ signals' = signals + 1
  /\ terminate' = TRUE
  /\ InterruptParent(TRUE)
  /\ stage' = [w \in Workers |-> IF stage[w] = "blocked" THEN "loop" ELSE stage[w]]
  /\ UNCHANGED <<backups, cmd, cur, forked, exitFlag, pair, rootGone, srcDir, history>>

-----------------------------------------------------------------------------
(* The parent: main and the commands.                                      *)

\* The head of the loop: leave it, or reap what has died and prompt.
LoopTop ==
  /\ pc = "top"
  /\ IF terminate
     THEN pc' = "killing" /\ UNCHANGED <<backups, stage>>
     ELSE pc' = "ready" /\ ReapChildren
  /\ UNCHANGED <<terminate, cmd, cur, forked, intr, exitFlag, pair, rootGone, srcDir,
                 signals, history>>

\* Between the test of g_terminate and the read inside fgets.
EnterFgets ==
  /\ pc = "ready"
  /\ pc' = "prompt"
  /\ UNCHANGED <<backups, terminate, cmd, cur, forked, intr, outside>>

\* norm_existing_dir: a path that leads to a directory.
ValidSource(s) == srcDir[s]

\* A line with a command on a pair; an invalid source ends it at once.
ReadCommand(op, s, todo) ==
  /\ pc = "prompt"
  /\ op = "restore" => Len(todo) = 1
  /\ IF ValidSource(s)
     THEN pc' = "command" /\ cmd' = [op |-> op, src |-> s, todo |-> todo]
     ELSE pc' = "top" /\ UNCHANGED cmd
  /\ UNCHANGED <<backups, terminate, cur, forked, intr, outside>>

\* list reaps before it prints.
List ==
  /\ pc = "prompt"
  /\ pc' = "top"
  /\ ReapChildren
  /\ UNCHANGED <<terminate, cmd, cur, forked, intr, exitFlag, pair, rootGone, srcDir,
                 signals, history>>

\* exit, or the end of the input.
Exit ==
  /\ pc = "prompt"
  /\ pc' = "killing"
  /\ UNCHANGED <<backups, terminate, cmd, cur, forked, intr, outside>>

\* The loop over the targets of a command has ended.
CommandDone ==
  /\ pc = "command"
  /\ cmd.todo = <<>>
  /\ pc' = "top"
  /\ cmd' = NoCommand
  /\ UNCHANGED <<backups, terminate, cur, forked, intr, outside>>

Doing(op) == pc = "command" /\ cmd.op = op /\ cmd.todo # <<>>

NextTarget == cmd' = [cmd EXCEPT !.todo = Tail(@)]

Skip ==
  /\ NextTarget
  /\ UNCHANGED <<backups, terminate, pc, cur, forked, intr, outside>>

\* norm_target_path: neither the path nor what it lies in can be resolved (any more).
\* Such a target is passed over, though its pair may be in the list.
InvalidTarget == (Doing("add") \/ Doing("end") \/ Doing("restore")) /\ Skip

\* ensure_empty_dir: the target is no directory or holds something (the file system's
\* answer, which any target may get).
TargetNotEmpty == Doing("add") /\ Skip

\* cmd_add: the pair is in the list, or the target is inside the source, or fork fails.
AddRefused == Doing("add") /\ Skip

MayAdd(t) == FindBackup(cmd.src, t) = {}

\* cmd_add, spawn_backup: a new pair; fork.
AddFork(w) ==
  LET t == Head(cmd.todo) IN
  /\ Doing("add")
  /\ MayAdd(t)
  /\ stage[w] = "none"
  /\ stage' = [stage EXCEPT ![w] = "forked"]
  /\ pair' = [pair EXCEPT ![w] = <<cmd.src, t>>]
  /\ forked' = w
  /\ pc' = "spawned"
  /\ UNCHANGED <<backups, terminate, cmd, cur, intr, exitFlag, rootGone, srcDir,
                 signals, history>>

\* spawn_backup in the parent: the child enters the list.
AddRegister ==
  /\ pc = "spawned"
  /\ backups' = Append(backups, [src |-> cmd.src, dst |-> Head(cmd.todo),
                                 pid |-> forked, active |-> TRUE])
  /\ forked' = NoPid
  /\ NextTarget
  /\ pc' = "command"
  /\ UNCHANGED <<terminate, cur, intr, outside>>

\* spawn_backup when the list cannot grow: the child gets SIGTERM, no one waits.
AddNoMemory ==
  /\ pc = "spawned"
  /\ Terminate({forked})
  /\ unlisted' = unlisted \cup {w \in Workers : w = forked /\ IsLive(w)}
  /\ forked' = NoPid
  /\ NextTarget
  /\ pc' = "command"
  /\ UNCHANGED <<backups, terminate, cur, intr, pair, rootGone, srcDir, signals,
                 abandoned>>

\* cmd_end, cmd_restore: no entry, or (end) an entry that has ended.
NothingToEnd ==
  LET found == FindBackup(cmd.src, Head(cmd.todo)) IN
  /\ \/ Doing("end") /\ \A i \in found : ~backups[i].active
     \/ Doing("restore") /\ found = {}
  /\ Skip

\* cmd_end, cmd_restore: SIGTERM to the worker, then waitpid.
KillAndWait ==
  /\ Doing("end") \/ Doing("restore")
  /\ \E i \in FindBackup(cmd.src, Head(cmd.todo)) :
       /\ backups[i].active
       /\ Terminate({backups[i].pid})
       /\ cur' = i
  /\ pc' = "waiting"
  /\ UNCHANGED <<backups, terminate, cmd, forked, intr, pair, rootGone, srcDir,
                 signals, abandoned, unlisted>>

RestoreEnded_Running ==
  /\ Doing("restore")
  /\ FindBackup(cmd.src, Head(cmd.todo)) # {}
  /\ pc' = "restoring"
  /\ UNCHANGED <<backups, terminate, cmd, cur, forked, intr, outside>>

\* cmd_restore of a pair that has ended.
RestoreEnded ==
  /\ Doing("restore")
  /\ \E i \in FindBackup(cmd.src, Head(cmd.todo)) : ~backups[i].active
  /\ pc' = "restoring"
  /\ UNCHANGED <<backups, terminate, cmd, cur, forked, intr, outside>>

\* check_src_against_backup and apply_backup have returned, well or not.
RestoreDone ==
  /\ pc = "restoring"
  /\ NextTarget
  /\ pc' = "command"
  /\ UNCHANGED <<backups, terminate, cur, forked, intr, outside>>

\* What follows waitpid: the entry is ended whatever waitpid returned.
AfterWait ==
  /\ backups' = [backups EXCEPT ![cur] = Ended(@)]
  /\ \/ cmd.op = "end" /\ pc' = "command" /\ NextTarget
     \/ cmd.op = "restore" /\ pc' = "restoring" /\ UNCHANGED cmd
     \/ cmd.op = "exit" /\ pc' = "draining" /\ UNCHANGED cmd
  /\ cur' = 0
  /\ intr' = FALSE
  /\ UNCHANGED <<terminate, forked, exitFlag, pair, rootGone, srcDir, signals, lost,
                 unlisted>>

WaitReaps_NoHang ==
  /\ pc = "waiting"
  /\ AfterWait
  /\ UNCHANGED <<stage, abandoned>>

WaitReaps ==
  /\ pc = "waiting"
  /\ stage[backups[cur].pid] = "zombie"
  /\ stage' = [stage EXCEPT ![backups[cur].pid] = "reaped"]
  /\ AfterWait
  /\ UNCHANGED abandoned

\* waitpid returns EINTR: reported with perror, then treated as the end.
WaitInterrupted ==
  /\ pc = "waiting"
  /\ intr
  /\ abandoned' = abandoned \cup {w \in Workers : w = backups[cur].pid /\ IsLive(w)}
  /\ AfterWait
  /\ UNCHANGED stage

KillAll_First ==
  /\ pc = "killing"
  /\ Terminate({backups[i].pid : i \in {j \in DOMAIN backups : backups[j].active /\ j = 1}})
  /\ pc' = "draining"
  /\ cmd' = [NoCommand EXCEPT !.op = "exit"]
  /\ UNCHANGED <<backups, terminate, cur, forked, intr, pair, rootGone, srcDir,
                 signals, abandoned, unlisted>>

\* After the loop: SIGTERM to every active entry.
KillAll ==
  /\ pc = "killing"
  /\ Terminate({backups[i].pid : i \in {j \in DOMAIN backups : backups[j].active}})
  /\ pc' = "draining"
  /\ cmd' = [NoCommand EXCEPT !.op = "exit"]
  /\ UNCHANGED <<backups, terminate, cur, forked, intr, pair, rootGone, srcDir,
                 signals, abandoned, unlisted>>

\* Then waitpid for each, in the order of the list.
WaitNext ==
  /\ pc = "draining"
  /\ \E i \in DOMAIN backups :
       /\ backups[i].active
       /\ \A j \in 1 .. i - 1 : ~backups[j].active
       /\ cur' = i
  /\ pc' = "waiting"
  /\ UNCHANGED <<backups, terminate, cmd, forked, intr, outside>>

\* free_backup; main returns.
Finish ==
  /\ pc = "draining"
  /\ \A i \in DOMAIN backups : ~backups[i].active
  /\ pc' = "done"
  /\ UNCHANGED <<backups, terminate, cmd, cur, forked, intr, outside>>

-----------------------------------------------------------------------------
(* A worker: child_loop and the outline of monitor_and_mirror.             *)

Goes(w, from, to) ==
  /\ stage[w] = from
  /\ stage' = [stage EXCEPT ![w] = to]
  /\ UNCHANGED <<parent, exitFlag, pair, rootGone, srcDir, signals, history>>

Exits(w, from) ==
  /\ stage[w] \in from
  /\ Die(w)
  /\ UNCHANGED <<srcDir, signals>>

\* child_install_signals
Install(w) == Goes(w, "forked", "starting")

\* norm_existing_dir, create_empty_dir
Start(w) == srcDir[pair[w][1]] /\ Goes(w, "starting", "copying")

\* The source is gone, or the target cannot be made.
StartFails(w) == Exits(w, {"starting"})

\* copy_tree, cut short by g_child_exit or not: its result is not used.
CopyDone(w) == Goes(w, "copying", "watching")

\* inotify_init and add_watch_tree of the source.
Watch(w) == srcDir[pair[w][1]] /\ Goes(w, "watching", "loop")

WatchFails(w) == Exits(w, {"watching"})

\* while (!g_child_exit)
LoopExits(w) == exitFlag[w] /\ Exits(w, {"loop"})
LoopAgain(w) == ~exitFlag[w] /\ Goes(w, "loop", "armed")

\* read: blocks until there is an event.
EnterRead(w) == Goes(w, "armed", "blocked")

\* The user changes something in the source.
FsEvent(w) == Goes(w, "blocked", "handling")

\* The root's DELETE_SELF or MOVE_SELF is there to read.
ReadRootGone(w) == rootGone[w] /\ Goes(w, "blocked", "handling")

\* The events of the buffer are done; a root event makes the worker stop.
HandleEvents(w) ==
  /\ stage[w] = "handling"
  /\ stage' = [stage EXCEPT ![w] = "loop"]
  /\ exitFlag' = [exitFlag EXCEPT ![w] = @ \/ rootGone[w]]
  /\ UNCHANGED <<parent, pair, rootGone, srcDir, signals, history>>

\* The user removes or renames a source, or makes one again.
RemoveSource(s) ==
  /\ srcDir[s]
  /\ srcDir' = [srcDir EXCEPT ![s] = FALSE]
  /\ rootGone' = [w \in Workers |->
                    rootGone[w] \/ (stage[w] \in Watched /\ pair[w][1] = s)]
  /\ UNCHANGED <<parent, stage, exitFlag, pair, signals, history>>

MakeSource(s) ==
  /\ ~srcDir[s]
  /\ srcDir' = [srcDir EXCEPT ![s] = TRUE]
  /\ UNCHANGED <<parent, worker, signals, history>>

-----------------------------------------------------------------------------
ParentStep ==
  \/ LoopTop \/ EnterFgets \/ CommandDone
  \/ InvalidTarget \/ TargetNotEmpty \/ AddRefused \/ (\E w \in Workers : AddFork(w)) \/ AddRegister \/ AddNoMemory
  \/ NothingToEnd \/ KillAndWait \/ RestoreEnded \/ RestoreDone
  \/ WaitReaps \/ KillAll \/ WaitNext \/ Finish

Input ==
  \/ \E op \in {"add", "end", "restore"}, s \in Sources, todo \in Todos :
       ReadCommand(op, s, todo)
  \/ List \/ Exit

WorkerStep(w) ==
  \/ Install(w) \/ Start(w) \/ StartFails(w) \/ CopyDone(w)
  \/ Watch(w) \/ WatchFails(w) \/ LoopExits(w) \/ LoopAgain(w)
  \/ EnterRead(w) \/ ReadRootGone(w) \/ HandleEvents(w)

User ==
  \/ Input \/ SendTerm \/ SendInt
  \/ \E s \in Sources : RemoveSource(s) \/ MakeSource(s)
  \/ \E w \in Workers : FsEvent(w)

Next ==
  \/ ParentStep
  \/ WaitInterrupted
  \/ \E w \in Workers : WorkerStep(w)
  \/ User

Spec == Init /\ [][Next]_vars

\* The kernel runs every process that can run; the user owes nothing.
FairSpec == Spec /\ WF_vars(ParentStep) /\ \A w \in Workers : WF_vars(WorkerStep(w))

-----------------------------------------------------------------------------
(* Properties.                                                             *)

\* find_backup decides whether a pair may be added, and everything else finds
\* an entry by its pair: no pair is ever listed twice, even when one add names
\* a target twice or a worker dies between its fork and its registration.
UniquePairs ==
  \A i, j \in DOMAIN backups :
    backups[i].src = backups[j].src /\ backups[i].dst = backups[j].dst => i = j

\* kill and waitpid are called with the pids of active entries: each is a child
\* that no waitpid has reaped yet (it may be a zombie) and is in one entry
\* only, so no call hits a foreign process or fails with ECHILD.
PidsAreOurs ==
  /\ \A i \in DOMAIN backups : backups[i].active =>
       backups[i].pid \in Workers /\ stage[backups[i].pid] \in Live \cup {"zombie"}
  /\ \A i, j \in DOMAIN backups :
       backups[i].active /\ backups[j].active /\ backups[i].pid = backups[j].pid => i = j

\* cmd_end and cmd_restore mark an entry ended whatever waitpid returned: a
\* worker that lives is in an active entry, just forked, or one of the two
\* leaks of the code, an interrupted waitpid and a list that could not grow.
LiveWorkersAccounted ==
  \A w \in Workers : IsLive(w) =>
    \/ \E i \in DOMAIN backups : backups[i].active /\ backups[i].pid = w
    \/ w = forked
    \/ w \in abandoned \cup unlisted

\* While cmd_restore writes the source no worker mirrors that source into the
\* backup it reads from, unless it was leaked before.
RestoreExclusive ==
  pc = "restoring" =>
    \A w \in Workers :
      IsLive(w) /\ pair[w] = <<cmd.src, Head(cmd.todo)>> => w \in abandoned \cup unlisted

\* Two workers never serve the same pair at once, unless one was not listed.
OneWorkerPerPair ==
  \A v, w \in Workers :
    IsLive(v) /\ IsLive(w) /\ pair[v] = pair[w] /\ v # w => {v, w} \cap unlisted # {}

\* The pair of each worker that runs, the pair that is being restored, the program.
Serves  == [w \in Workers |-> IF IsLive(w) THEN {pair[w]} ELSE {}]
Writing == IF pc = "restoring" THEN {<<cmd.src, Head(cmd.todo)>>} ELSE {}
Open    == pc # "done"

\* What the user is promised of the pairs (module BackupService): the list, the waits
\* and the handlers of this program keep it at every step, two leaks apart.
Service == INSTANCE BackupService WITH
  Pairs <- Sources \X Targets, RestoreStops <- TRUE, serves <- Serves,
  writing <- Writing, interrupted <- intr, overdue <- abandoned, open <- Open

ServiceSpec == Service!Spec

\* An entry stays where it is, keeps its pair, and once ended stays ended: a
\* restore or end never brings a worker back, and no index held across a wait
\* goes stale.
EntriesStay ==
  [][\A i \in DOMAIN backups :
       /\ i \in DOMAIN backups'
       /\ backups'[i].src = backups[i].src /\ backups'[i].dst = backups[i].dst
       /\ ~backups[i].active => backups'[i] = backups[i]]_vars

\* A wait of end, restore or exit returns, unless some worker has lost its
\* SIGTERM: it came before child_install_signals or between the test of
\* g_child_exit and read.  So the supervisor ends after exit or a signal, with the same
\* exception, or unless its own signal came between the test of g_terminate and fgets
\* and it waits for one more line.
WaitsEnd ==
  /\ (pc = "waiting") ~> (pc # "waiting" \/ lost # {})
  /\ (terminate \/ pc = "killing") ~>
       (pc = "done" \/ lost # {} \/ (pc = "prompt" /\ terminate))

-----------------------------------------------------------------------------
(* The inductive invariant: what holds at every point of the parent.       *)

\* An active entry is the entry of the pair its worker was forked for.
EntriesMatchWorkers ==
  \A i \in DOMAIN backups : backups[i].active =>
    pair[backups[i].pid] = <<backups[i].src, backups[i].dst>>

\* The pair of the command at hand.
AtHand(i) == IsMatch(i, cmd.src, Head(cmd.todo))

\* Between fork and registration no entry knows the child or its pair.
SpawnedInv ==
  /\ pc = "spawned" <=> forked # NoPid
  /\ pc = "spawned" =>
       /\ cmd.todo # <<>>
       /\ stage[forked] \in Live \cup {"zombie"}
       /\ pair[forked] = <<cmd.src, Head(cmd.todo)>>
       /\ \A i \in DOMAIN backups :
            ~AtHand(i) /\ (backups[i].active => backups[i].pid # forked)

\* The entry whose worker is awaited stays active during the wait.
WaitingInv ==
  pc = "waiting" =>
    /\ cur \in DOMAIN backups /\ backups[cur].active
    /\ cmd.op \in {"end", "restore", "exit"}
    /\ cmd.op # "exit" => cmd.todo # <<>> /\ AtHand(cur)

\* Once the loop has ended no command is at hand but exit.
DrainingInv == pc = "draining" => cmd.op = "exit"

\* While the source is being written the pair of the command has ended.
RestoringInv ==
  pc = "restoring" =>
    /\ cmd.todo # <<>>
    /\ \A i \in DOMAIN backups : AtHand(i) => ~backups[i].active

\* A worker whose wait was interrupted left an ended entry for its pair, and
\* no other such worker had that pair.
AbandonedInv ==
  /\ \A w \in abandoned :
       \E i \in DOMAIN backups :
         ~backups[i].active /\ pair[w] = <<backups[i].src, backups[i].dst>>
  /\ \A v, w \in abandoned : pair[v] = pair[w] => v = w
  /\ abandoned \cup unlisted \subseteq {w \in Workers : IsLive(w)}

IndInv ==
  /\ TypeOK
  /\ UniquePairs
  /\ PidsAreOurs
  /\ LiveWorkersAccounted
  /\ EntriesMatchWorkers
  /\ SpawnedInv
  /\ WaitingInv
  /\ RestoringInv
  /\ DrainingInv
  /\ AbandonedInv
=============================================================================
