-------------------------- MODULE OrlovSupervisor --------------------------
(***************************************************************************)
(* The supervisor of orlov/project_1/main.c and the life of its workers.   *)
(*                                                                         *)
(* It differs from module BackupSupervisor where it matters most: a worker *)
(* that died leaves the list at the next command (reap_children), an entry *)
(* is removed by moving the last one into its place, `add` checks all its  *)
(* targets before it starts any of them, and a worker runs the initial     *)
(* copy under the handler it inherited, which sets a flag that no worker   *)
(* reads.                                                                  *)
(*                                                                         *)
(* sigaction is called without SA_RESTART: a handler that runs makes a     *)
(* blocked call return EINTR.  A handler that runs just before the call    *)
(* blocks does not, so a signal has both outcomes.  Control-C reaches the  *)
(* workers too, and changes nothing there: it sets the same unread flag,   *)
(* or is ignored.  What is copied is left out, and so is why a target is   *)
(* refused: it may be emptied or filled by others at any time.             *)
(***************************************************************************)
EXTENDS Naturals, Sequences, FiniteSets

CONSTANTS
  Sources,      \* resolved source directories
  Targets,      \* resolved target directories
  Workers,      \* the process numbers, which are used again
  Nobody,       \* no process
  MAX_BACKUPS,  \* the size of the list
  MaxTodo,      \* bound: targets named by one command
  MaxSignals    \* bound: SIGINT and SIGTERM sent to the supervisor

ASSUME ConstantsAssumption ==
  /\ Sources # {} /\ Targets # {}
  /\ Nobody \notin Workers
  /\ MAX_BACKUPS \in Nat \ {0}
  /\ MaxTodo \in Nat \ {0}
  /\ MaxSignals \in Nat

VARIABLES
  backups,      \* the list
  stop_flag,    \* set by on_term in the supervisor
  pc,           \* where the supervisor is
  cmd,          \* the command being executed: its source, targets left to do
  accepted,     \* the targets of an add that passed their checks
  awaited,      \* the worker in waitpid
  drained,      \* stop_all: the entries waited for so far
  intr,         \* a handler ran while the supervisor was blocked in waitpid
  srcDir,       \* which sources exist
  stage,        \* where each worker is
  worker_stop,  \* the flag of each worker
  pair,         \* the <<source, target>> of each worker
  rootGone,     \* DELETE_SELF or MOVE_SELF of the source is in the queue
  signals,      \* signals sent so far
  deaf,         \* history: workers on whom a SIGTERM was lost
  left          \* history: workers whose waitpid was interrupted

parent == <<backups, stop_flag, pc, cmd, accepted, awaited, drained, intr>>
worker == <<stage, worker_stop, pair, rootGone>>
vars   == <<parent, worker, srcDir, signals, deaf, left>>

Entry == [src : Sources, dst : Targets, pid : Workers]
Todos == UNION {[1 .. n -> Targets] : n \in 1 .. MaxTodo}
Live  == {"copying", "setup", "test", "reading", "handling", "leaving"}

IsLive(w) == stage[w] \in Live

NoPair    == <<>>
NoCommand == [op |-> "none", src |-> CHOOSE s \in Sources : TRUE, todo |-> <<>>]

TypeOK ==
  /\ backups \in Seq(Entry) /\ Len(backups) <= MAX_BACKUPS
  /\ stop_flag \in BOOLEAN
  /\ pc \in {"prompt", "reaping", "dispatch", "checking", "adding", "ending",
             "waiting", "restoring", "stopping", "draining", "last", "done"}
  /\ cmd \in [op : {"none", "list", "add", "end", "restore", "exit"},
              src : Sources, todo : Seq(Targets)]
  /\ accepted \in Seq(Targets)
  /\ awaited \in Workers \cup {Nobody}
  /\ drained \in 0 .. MAX_BACKUPS
  /\ intr \in BOOLEAN
  /\ srcDir \in [Sources -> BOOLEAN]
  /\ stage \in [Workers -> Live \cup {"none", "zombie"}]
  /\ worker_stop \in [Workers -> BOOLEAN]
  /\ pair \in [Workers -> (Sources \X Targets) \cup {NoPair}]
  /\ rootGone \in [Workers -> BOOLEAN]
  /\ signals \in 0 .. MaxSignals
  /\ deaf \subseteq Workers
  /\ left \subseteq Workers

Init ==
  /\ backups = <<>>
  /\ stop_flag = FALSE
  /\ pc = "prompt"
  /\ cmd = NoCommand
  /\ accepted = <<>>
  /\ awaited = Nobody
  /\ drained = 0
  /\ intr = FALSE
  /\ srcDir = [s \in Sources |-> TRUE]
  /\ stage = [w \in Workers |-> "none"]
  /\ worker_stop = [w \in Workers |-> FALSE]
  /\ pair = [w \in Workers |-> NoPair]
  /\ rootGone = [w \in Workers |-> FALSE]
  /\ signals = 0
  /\ deaf = {}
  /\ left = {}

-----------------------------------------------------------------------------
(* The list.                                                               *)

\* find_backup
FindBackup(s, t) ==
  {i \in DOMAIN backups : backups[i].src = s /\ backups[i].dst = t}

\* The entries of a process.
EntriesOf(w) == {i \in DOMAIN backups : backups[i].pid = w}

Without_LastDropped(i) == SubSeq(backups, 1, Len(backups) - 1)

\* An entry is removed: the last one takes its place.
Without(i) ==
  [j \in 1 .. Len(backups) - 1 |-> backups[IF j = i THEN Len(backups) ELSE j]]

-----------------------------------------------------------------------------
(* The supervisor.                                                         *)

\* Back to the test of stop_flag, where the loop goes on or ends.
Again ==
  /\ pc' = IF stop_flag THEN "stopping" ELSE "prompt"
  /\ cmd' = NoCommand
  /\ accepted' = <<>>

\* The number of a reaped child is free again.
Reaped(w) ==
  /\ stage[w] = "zombie"
  /\ stage' = [stage EXCEPT ![w] = "none"]
  /\ pair' = [pair EXCEPT ![w] = NoPair]
  /\ worker_stop' = [worker_stop EXCEPT ![w] = FALSE]
  /\ rootGone' = [rootGone EXCEPT ![w] = FALSE]
  /\ deaf' = deaf \ {w}
  /\ left' = left \ {w}

\* getline returns a line that parse_args rejects or finds empty: the loop
\* goes round without reaping.
TypeNothing ==
  /\ pc = "prompt"
  /\ Again
  /\ UNCHANGED <<backups, stop_flag, awaited, drained, intr,
                 worker, srcDir, signals, deaf, left>>

\* The end of the input.
TypeEnd ==
  /\ pc = "prompt"
  /\ pc' = "stopping"
  /\ UNCHANGED <<backups, stop_flag, cmd, accepted, awaited, drained, intr,
                 worker, srcDir, signals, deaf, left>>

\* A restore names one target, list and exit none.
TypeCommand(op, s, todo) ==
  /\ pc = "prompt"
  /\ op \in {"list", "exit", "restore"} => Len(todo) = 1
  /\ pc' = "reaping"
  /\ cmd' = [op |-> op, src |-> s, todo |-> todo]
  /\ UNCHANGED <<backups, stop_flag, accepted, awaited, drained, intr,
                 worker, srcDir, signals, deaf, left>>

\* reap_children: waitpid(-1, WNOHANG) finds one more dead child.
ReapChild(w) ==
  /\ pc \in {"reaping", "last"}
  /\ Reaped(w)
  /\ \/ \E i \in EntriesOf(w) : backups' = Without(i)
     \/ EntriesOf(w) = {} /\ UNCHANGED backups
  /\ UNCHANGED <<stop_flag, pc, cmd, accepted, awaited, drained, intr,
                 srcDir, signals>>

\* No child is dead: the command is looked at.
Dispatched ==
  /\ pc = "reaping"
  /\ \A w \in Workers : stage[w] # "zombie"
  /\ UNCHANGED <<backups, stop_flag, awaited, drained, intr,
                 worker, srcDir, signals, deaf, left>>

ExitCommand == Dispatched /\ cmd.op = "exit" /\ pc' = "stopping" /\ UNCHANGED <<cmd, accepted>>

ListBackups == Dispatched /\ cmd.op = "list" /\ Again

\* validate_source: the path leads to a directory.
ValidSource(s) == srcDir[s]

\* add, end and restore want one.
RefuseSource ==
  /\ Dispatched /\ cmd.op \in {"add", "end", "restore"}
  /\ ~ValidSource(cmd.src)
  /\ Again

Begin ==
  /\ Dispatched /\ cmd.op \in {"add", "end", "restore"}
  /\ ValidSource(cmd.src)
  /\ pc' = IF cmd.op = "add" THEN "checking" ELSE "ending"
  /\ UNCHANGED <<cmd, accepted>>

NextTarget == cmd' = [cmd EXCEPT !.todo = Tail(@)]

\* add, one target: what validate_target says depends on the file system;
\* a target that is listed or named twice refuses the whole command.
Refused(t) == FindBackup(cmd.src, t) # {} \/ \E j \in DOMAIN accepted : accepted[j] = t

CheckTarget ==
  /\ pc = "checking"
  /\ cmd.todo # <<>>
  /\ \/ Again
     \/ /\ ~Refused(Head(cmd.todo))
        /\ accepted' = Append(accepted, Head(cmd.todo))
        /\ NextTarget
        /\ UNCHANGED pc
  /\ UNCHANGED <<backups, stop_flag, awaited, drained, intr,
                 worker, srcDir, signals, deaf, left>>

AllChecked ==
  /\ pc = "checking"
  /\ cmd.todo = <<>>
  /\ pc' = "adding"
  /\ UNCHANGED <<backups, stop_flag, cmd, accepted, awaited, drained, intr,
                 worker, srcDir, signals, deaf, left>>

\* add_backup.  The list gets the entry before anyone could miss it: a child
\* that dies at once stays a zombie until the next command.
AddBackup ==
  /\ pc = "adding"
  /\ accepted # <<>>
  /\ accepted' = Tail(accepted)
  /\ \/ \E w \in Workers :
          /\ Len(backups) < MAX_BACKUPS
          /\ stage[w] = "none"
          /\ stage' = [stage EXCEPT ![w] = "copying"]
          /\ pair' = [pair EXCEPT ![w] = <<cmd.src, Head(accepted)>>]
          /\ backups' = Append(backups,
               [src |-> cmd.src, dst |-> Head(accepted), pid |-> w])
     \/ UNCHANGED <<stage, pair, backups>>      \* the list is full, or no fork
  /\ UNCHANGED <<stop_flag, pc, cmd, awaited, drained, intr, worker_stop,
                 rootGone, srcDir, signals, deaf, left>>

AllAdded ==
  /\ pc = "adding"
  /\ accepted = <<>>
  /\ Again
  /\ UNCHANGED <<backups, stop_flag, awaited, drained, intr,
                 worker, srcDir, signals, deaf, left>>

\* kill(SIGTERM).  The initial copy runs under the handler of the supervisor,
\* so nobody reads the flag it sets.  A worker on its way into read blocks
\* there with the flag set; one that is blocked already gets EINTR.
Terminate(ws, woken) ==
  LET hear == {w \in ws : stage[w] \in Live \ {"copying"}} IN
  /\ woken \subseteq {w \in ws : stage[w] = "reading"}
  /\ worker_stop' = [w \in Workers |-> worker_stop[w] \/ w \in hear]
  /\ stage' = [w \in Workers |-> IF w \in woken THEN "test" ELSE stage[w]]
  /\ deaf' = deaf \cup {w \in ws \ woken : stage[w] \in {"copying", "reading"}}

\* end and restore, one target: stop_backup kills its worker.
StopBackup ==
  /\ pc = "ending"
  /\ cmd.todo # <<>>
  /\ \E i \in FindBackup(cmd.src, Head(cmd.todo)), woken \in SUBSET Workers :
       /\ Terminate({backups[i].pid}, woken)
       /\ awaited' = backups[i].pid
  /\ pc' = "waiting"
  /\ UNCHANGED <<backups, stop_flag, cmd, accepted, drained, intr,
                 pair, rootGone, srcDir, signals, left>>

\* end passes over a target that is not listed or whose path does not resolve;
\* restore gives up when it does not resolve and goes on when it is not listed.
NothingToStop ==
  /\ pc = "ending"
  /\ cmd.todo # <<>>
  /\ \/ cmd.op = "end" /\ NextTarget /\ UNCHANGED <<pc, accepted>>
     \/ cmd.op = "restore" /\ Again
     \/ /\ cmd.op = "restore"
        /\ FindBackup(cmd.src, Head(cmd.todo)) = {}
        /\ pc' = "restoring"
        /\ UNCHANGED <<cmd, accepted>>
  /\ UNCHANGED <<backups, stop_flag, awaited, drained, intr,
                 worker, srcDir, signals, deaf, left>>

AllEnded ==
  /\ pc = "ending"
  /\ cmd.todo = <<>>
  /\ Again
  /\ UNCHANGED <<backups, stop_flag, awaited, drained, intr,
                 worker, srcDir, signals, deaf, left>>

WaitReturns_NoHang(w) ==
  /\ \/ Reaped(w)
     \/ stage[w] # "zombie" /\ UNCHANGED <<worker, deaf, left>>
  /\ intr' = FALSE
  /\ UNCHANGED <<srcDir, signals>>

\* waitpid returns the child, or EINTR, and nobody looks which it was.
WaitReturns(w) ==
  /\ \/ Reaped(w)
     \/ intr /\ left' = left \cup {w} /\ UNCHANGED <<worker, deaf>>
  /\ intr' = FALSE
  /\ UNCHANGED <<srcDir, signals>>

\* The rest of stop_backup, and of the command it is part of.
BackupStopped ==
  /\ pc = "waiting"
  /\ WaitReturns(awaited)
  /\ awaited' = Nobody
  /\ \E i \in FindBackup(cmd.src, Head(cmd.todo)) : backups' = Without(i)
  /\ IF cmd.op = "end" THEN pc' = "ending" /\ NextTarget
                       ELSE pc' = "restoring" /\ UNCHANGED cmd
  /\ UNCHANGED <<stop_flag, accepted, drained>>

\* restore_entry writes the source from the target; a source that vanished
\* meanwhile is made again, if the target is still there.
RestoreEntry ==
  /\ pc = "restoring"
  /\ \/ UNCHANGED srcDir
     \/ srcDir' = [srcDir EXCEPT ![cmd.src] = TRUE]
  /\ Again
  /\ UNCHANGED <<backups, stop_flag, awaited, drained, intr,
                 worker, signals, deaf, left>>

\* stop_all: every worker is signalled first, then each is waited for.
Listed == {backups[i].pid : i \in DOMAIN backups}

KillAll ==
  /\ pc = "stopping"
  /\ \E woken \in SUBSET Workers : Terminate(Listed, woken)
  /\ pc' = "draining"
  /\ drained' = 0
  /\ UNCHANGED <<backups, stop_flag, cmd, accepted, awaited, intr,
                 pair, rootGone, srcDir, signals, left>>

WaitForNext ==
  /\ pc = "draining"
  /\ drained < Len(backups)
  /\ WaitReturns(backups[drained + 1].pid)
  /\ drained' = drained + 1
  /\ UNCHANGED <<backups, stop_flag, pc, cmd, accepted, awaited>>

AllWaitedFor ==
  /\ pc = "draining"
  /\ drained = Len(backups)
  /\ backups' = <<>>
  /\ drained' = 0
  /\ pc' = "last"
  /\ UNCHANGED <<stop_flag, cmd, accepted, awaited, intr,
                 worker, srcDir, signals, deaf, left>>

\* main returns after one more reap_children.
Return ==
  /\ pc = "last"
  /\ \A w \in Workers : stage[w] # "zombie"
  /\ pc' = "done"
  /\ UNCHANGED <<backups, stop_flag, cmd, accepted, awaited, drained, intr,
                 worker, srcDir, signals, deaf, left>>

-----------------------------------------------------------------------------
(* The workers.                                                            *)

WorkerAt(w, from, to) ==
  /\ stage[w] = from
  /\ stage' = [stage EXCEPT ![w] = to]

WorkerOnly == UNCHANGED <<parent, worker_stop, pair, rootGone, srcDir, signals, left>>

\* copy_entry of the whole source; an entry that vanished makes it fail.
InitialCopy(w) ==
  /\ WorkerAt(w, "copying", "setup") \/ WorkerAt(w, "copying", "zombie")
  /\ WorkerOnly /\ UNCHANGED deaf

\* sigaction and the watches, which need the source.
WatchSource(w) ==
  /\ \/ WorkerAt(w, "setup", "test") /\ srcDir[pair[w][1]]
     \/ WorkerAt(w, "setup", "zombie")
  /\ WorkerOnly /\ UNCHANGED deaf

\* while (!worker_stop), and the way out of the loop.
TestStop_Never(w) ==
  /\ WorkerAt(w, "test", "reading")
  /\ WorkerOnly /\ UNCHANGED deaf

TestStop(w) ==
  /\ WorkerAt(w, "test", IF worker_stop[w] THEN "zombie" ELSE "reading")
  /\ WorkerOnly /\ UNCHANGED deaf

\* read returns events, and the root's own end may be one of them.  Once they
\* are handled the flag is looked at again.
ReadEvents(w) ==
  /\ WorkerAt(w, "reading", IF rootGone[w] THEN "leaving" ELSE "handling")
  /\ deaf' = IF worker_stop[w] THEN deaf \ {w} ELSE deaf
  /\ WorkerOnly

HandleEvents(w) ==
  /\ WorkerAt(w, "handling", "test") \/ WorkerAt(w, "leaving", "zombie")
  /\ WorkerOnly /\ UNCHANGED deaf

-----------------------------------------------------------------------------
(* What comes from outside.                                                *)

RemoveSource(s) ==
  /\ srcDir[s]
  /\ srcDir' = [srcDir EXCEPT ![s] = FALSE]
  /\ rootGone' = [w \in Workers |->
       rootGone[w] \/ (stage[w] \in {"test", "reading", "handling"} /\ pair[w][1] = s)]
  /\ UNCHANGED <<parent, stage, worker_stop, pair, signals, deaf, left>>

MakeSource(s) ==
  /\ ~srcDir[s]
  /\ srcDir' = [srcDir EXCEPT ![s] = TRUE]
  /\ UNCHANGED <<parent, worker, signals, deaf, left>>

\* on_term runs in the supervisor, before it blocks or while it is blocked.
Signal ==
  /\ signals < MaxSignals /\ pc # "done"
  /\ signals' = signals + 1
  /\ stop_flag' = TRUE
  /\ \/ UNCHANGED <<pc, intr>>
     \/ pc = "prompt" /\ pc' = "stopping" /\ UNCHANGED intr
     \/ pc \in {"waiting", "draining"} /\ intr' = TRUE /\ UNCHANGED pc
  /\ UNCHANGED <<backups, cmd, accepted, awaited, drained,
                 worker, srcDir, deaf, left>>

ParentStep ==
  \/ \E w \in Workers : ReapChild(w)
  \/ ExitCommand \/ ListBackups \/ RefuseSource \/ Begin
  \/ CheckTarget \/ AllChecked \/ AddBackup \/ AllAdded
  \/ StopBackup \/ NothingToStop \/ AllEnded \/ BackupStopped \/ RestoreEntry
  \/ KillAll \/ WaitForNext \/ AllWaitedFor \/ Return

WorkerStep(w) ==
  InitialCopy(w) \/ WatchSource(w) \/ TestStop(w) \/ HandleEvents(w)

User ==
  \/ TypeNothing \/ TypeEnd
  \/ \E op \in {"list", "add", "end", "restore", "exit"}, s \in Sources,
        todo \in Todos : TypeCommand(op, s, todo)
  \/ \E s \in Sources : RemoveSource(s) \/ MakeSource(s)
  \/ Signal

Next ==
  \/ ParentStep
  \/ User
  \/ \E w \in Workers : WorkerStep(w) \/ ReadEvents(w)

Spec == Init /\ [][Next]_vars

\* The processes run.  Nobody has to type anything or to touch the source, but
\* an event that is in the queue is read.
FairSpec ==
  /\ Spec
  /\ WF_vars(ParentStep)
  /\ \A w \in Workers :
       WF_vars(WorkerStep(w)) /\ WF_vars(rootGone[w] /\ ReadEvents(w))

-----------------------------------------------------------------------------
(* Properties.                                                             *)

\* The list is exact (start_backup, stop_backup, reap_children).  A process it names is
\* a child that was not reaped, and is named once: kill and waitpid never meet a number
\* that belongs to someone else.  A worker that runs and is not listed is one whose
\* waitpid a signal cut short: nothing else makes the supervisor forget a worker.
ListIsExact ==
  /\ \A i, j \in DOMAIN backups : backups[i].pid = backups[j].pid => i = j
  /\ \A i \in DOMAIN backups :
       (pc = "draining" => i > drained) => stage[backups[i].pid] # "none"
  /\ \A w \in Workers : IsLive(w) => w \in Listed \cup left

\* The mapping to BackupService: what each worker serves, the pair that is being restored,
\* the workers that were given up.
Serves  == [w \in Workers |-> IF IsLive(w) THEN {pair[w]} ELSE {}]
Writing == IF pc = "restoring" THEN {<<cmd.src, Head(cmd.todo)>>} ELSE {}
Overdue == {w \in left : IsLive(w)}
Open    == pc # "done"

\* What the user is promised of the pairs (module BackupService).  An entry leaves the
\* list before anybody knows that its worker has ended: a pair never gets a second one
\* all the same, though `add` looks it up long before it forks and may name it twice,
\* and a restore writes the source while no worker of the pair copies it.
Service == INSTANCE BackupService WITH
  Pairs <- Sources \X Targets, RestoreStops <- TRUE, serves <- Serves,
  writing <- Writing, interrupted <- intr, overdue <- Overdue, unlisted <- {},
  open <- Open

ServiceSpec == Service!Spec

\* Waiting for a worker in stop_backup ends, and the program ends once the loop of main
\* is left, unless a SIGTERM was lost on a worker: it came during the initial copy, or
\* just before a read that no event ends.
WaitsEnd ==
  /\ \A w \in Workers : []<>(awaited # w) \/ <>[](w \in deaf)
  /\ (pc = "stopping" ~> pc = "done") \/ <>[](deaf # {})

-----------------------------------------------------------------------------
(* The inductive invariant.                                                *)

\* An entry of the list whose worker is still to be waited for: stop_all frees process
\* numbers before it drops the entries that name them.
Current == {i \in DOMAIN backups : pc = "draining" => i > drained}

\* A number is listed once, and so is a pair.
UniquePids ==
  \A i, j \in DOMAIN backups : backups[i].pid = backups[j].pid => i = j

UniquePairs ==
  \A i, j \in DOMAIN backups :
    backups[i].src = backups[j].src /\ backups[i].dst = backups[j].dst => i = j

\* The numbers that are in use have a pair.
NumbersInUse == \A w \in Workers : stage[w] = "none" <=> pair[w] = NoPair

\* A current entry names a worker of its own pair.
CurrentAreChildren ==
  \A i \in Current : pair[backups[i].pid] = <<backups[i].src, backups[i].dst>>

\* A worker that runs is in a current entry, or its waitpid was interrupted.
UnlistedWereLeft ==
  \A w \in Workers : IsLive(w) => w \in left \/ \E i \in Current : backups[i].pid = w

\* The targets an add has accepted are neither listed nor named twice.
AcceptedInv ==
  /\ pc \notin {"checking", "adding"} => accepted = <<>>
  /\ \A j \in DOMAIN accepted : FindBackup(cmd.src, accepted[j]) = {}
  /\ \A j, k \in DOMAIN accepted : accepted[j] = accepted[k] => j = k

\* The worker awaited is the one of the pair at hand.
AwaitedInv ==
  /\ pc \in {"waiting", "restoring"} => cmd.todo # <<>>
  /\ pc = "waiting" =>
       \E i \in FindBackup(cmd.src, Head(cmd.todo)) : backups[i].pid = awaited

\* A signal that interrupts a wait has set the flag: no worker is started any more.
LeavingInv ==
  /\ intr => stop_flag /\ pc \in {"waiting", "draining", "last", "done"}
  /\ left # {} => stop_flag /\ pc \in {"ending", "waiting", "restoring", "stopping",
                                       "draining", "last", "done"}
  /\ pc \in {"last", "done"} => backups = <<>>

\* The inductive invariant: each part alone is not inductive.
IndInv ==
  /\ TypeOK
  /\ UniquePids /\ UniquePairs /\ NumbersInUse /\ CurrentAreChildren /\ UnlistedWereLeft
  /\ AcceptedInv /\ AwaitedInv /\ LeavingInv
=============================================================================
