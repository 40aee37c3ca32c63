-------------------------- MODULE LeshaSupervisor --------------------------
(***************************************************************************)
(* The supervisor of lesha/p1/aliaksei_kudzelka/src/main.c and the life of *)
(* its workers.                                                            *)
(*                                                                         *)
(* It differs from the supervisors of the other two programs: an ended     *)
(* pair stays listed and can be started again, over what its target holds; *)
(* a worker that dies is noticed by nobody until the pair is ended; a      *)
(* restore leaves the worker running; and a worker keeps the handler of    *)
(* the supervisor only during the initial copy, tests its flag, and then   *)
(* dies of SIGTERM wherever it is.                                         *)
(*                                                                         *)
(* sigaction is called without SA_RESTART.  A handler may run just before  *)
(* a call blocks, and then does not interrupt it.  Control-C reaches the   *)
(* supervisor and every worker.  What is copied is left out, and so is why *)
(* a target is refused: it may be emptied or filled by others at any time. *)
(***************************************************************************)
EXTENDS Naturals, Sequences, FiniteSets

CONSTANTS
  Sources,      \* resolved source directories
  Targets,      \* resolved target directories
  Workers,      \* the process numbers, which are used again
  Nobody,       \* worker_pid before the first fork
  MaxTodo,      \* bound: targets named by one command
  MaxSignals    \* bound: signals sent

ASSUME ConstantsAssumption ==
  /\ Sources # {} /\ Targets # {}
  /\ Nobody \notin Workers
  /\ MaxTodo \in Nat \ {0}
  /\ MaxSignals \in Nat

VARIABLES
  backups,         \* the targets of all sources, in the order they were added
  exit_requested,  \* the flag of the supervisor
  pc,              \* where the supervisor is
  cmd,             \* the command being executed: its source, targets left to do
  awaited,         \* the index of the entry whose worker is in waitpid, or 0
  intr,            \* a handler ran while the supervisor was blocked in waitpid
  srcDir,          \* which sources exist
  stage,           \* where each worker is
  requested,       \* the exit_requested of each worker
  pair,            \* the <<source, target>> of each worker
  gone,            \* whose DELETE_SELF or MOVE_SELF is in the queue
  signals,         \* signals sent so far
  left             \* history: workers whose waitpid was interrupted

parent == <<backups, exit_requested, pc, cmd, awaited, intr>>
worker == <<stage, requested, pair, gone>>
vars   == <<parent, worker, srcDir, signals, left>>

Entry == [src : Sources, dst : Targets, active : BOOLEAN,
          worker_pid : Workers \cup {Nobody}]
Todos == UNION {[1 .. n -> Targets] : n \in 1 .. MaxTodo}
Live  == {"syncing", "watching", "test", "reading", "handling", "leaving"}

IsLive(w) == stage[w] \in Live

NoPair    == <<>>
NoCommand == [op |-> "none", src |-> CHOOSE s \in Sources : TRUE, todo |-> <<>>]

TypeOK ==
  /\ backups \in Seq(Entry)
  /\ exit_requested \in BOOLEAN
  /\ pc \in {"prompt", "adding", "ending", "waiting", "restoring", "cleanup",
             "joining", "done"}
  /\ cmd \in [op : {"none", "list", "add", "end", "restore"},
              src : Sources, todo : Seq(Targets)]
  /\ awaited \in Nat
  /\ intr \in BOOLEAN
  /\ srcDir \in [Sources -> BOOLEAN]
  /\ stage \in [Workers -> Live \cup {"none", "zombie"}]
  /\ requested \in [Workers -> BOOLEAN]
  /\ pair \in [Workers -> (Sources \X Targets) \cup {NoPair}]
  /\ gone \in [Workers -> {"nothing", "subdirectory", "source"}]
  /\ signals \in 0 .. MaxSignals
  /\ left \subseteq Workers

Init ==
  /\ backups = <<>>
  /\ exit_requested = FALSE
  /\ pc = "prompt"
  /\ cmd = NoCommand
  /\ awaited = 0
  /\ intr = FALSE
  /\ srcDir = [s \in Sources |-> TRUE]
  /\ stage = [w \in Workers |-> "none"]
  /\ requested = [w \in Workers |-> FALSE]
  /\ pair = [w \in Workers |-> NoPair]
  /\ gone = [w \in Workers |-> "nothing"]
  /\ signals = 0
  /\ left = {}

-----------------------------------------------------------------------------
(* The list.                                                               *)

\* The entry of a pair, whether it is active or not.
EntryOf(s, t) ==
  {i \in DOMAIN backups : backups[i].src = s /\ backups[i].dst = t}

IsActive_LastAdded(s, t) ==
  LET n == Len(backups) IN
  n > 0 /\ backups[n].src = s /\ backups[n].dst = t /\ backups[n].active

\* backup_exists = 1
IsActive(s, t) == \E i \in EntryOf(s, t) : backups[i].active

Active == {i \in DOMAIN backups : backups[i].active}

Pid(i) == backups[i].worker_pid

-----------------------------------------------------------------------------
(* The supervisor.                                                         *)

\* After a command: the flag is looked at before the next prompt.
Again ==
  /\ pc' = IF exit_requested THEN "cleanup" ELSE "prompt"
  /\ cmd' = NoCommand

\* exit, or the end of the input.  An empty line changes nothing: the flag is
\* not looked at either.
TypeExit ==
  /\ pc = "prompt"
  /\ pc' = "cleanup"
  /\ UNCHANGED <<backups, exit_requested, cmd, awaited, intr,
                 worker, srcDir, signals, left>>

\* A line is read: if a signal came before it, it is not executed.  A restore
\* names one target, list none.  add wants the source to exist.
TypeCommand(op, s, todo) ==
  /\ pc = "prompt"
  /\ op \in {"list", "restore"} => Len(todo) = 1
  /\ \/ exit_requested /\ pc' = "cleanup" /\ UNCHANGED cmd
     \/ /\ ~exit_requested
        /\ \/ op = "list" \/ (op = "add" /\ ~srcDir[s])
        /\ UNCHANGED <<pc, cmd>>
     \/ /\ ~exit_requested
        /\ op # "list" /\ (op = "add" => srcDir[s])
        /\ cmd' = [op |-> op, src |-> s, todo |-> todo]
        /\ pc' = CASE op = "add" -> "adding"
                   [] op = "end" -> "ending"
                   [] op = "restore" -> "restoring"
  /\ UNCHANGED <<backups, exit_requested, awaited, intr,
                 worker, srcDir, signals, left>>

NextTarget == cmd' = [cmd EXCEPT !.todo = Tail(@)]

AllDone ==
  /\ pc \in {"adding", "ending"}
  /\ cmd.todo = <<>>
  /\ Again
  /\ UNCHANGED <<backups, exit_requested, awaited, intr,
                 worker, srcDir, signals, left>>

\* One target of an add that is refused: it is active already, not empty, not
\* a directory, inside the source.
RefuseTarget ==
  /\ pc = "adding"
  /\ cmd.todo # <<>>
  /\ NextTarget
  /\ UNCHANGED <<backups, exit_requested, pc, awaited, intr,
                 worker, srcDir, signals, left>>

\* The entry of the pair, made or found, gets the state of its worker.
Listed(s, t, active, w) ==
  LET entry == [src |-> s, dst |-> t, active |-> active, worker_pid |-> w] IN
  IF EntryOf(s, t) = {}
  THEN backups' = Append(backups, entry)
  ELSE \E i \in EntryOf(s, t) : backups' = [backups EXCEPT ![i] = entry]

\* Only a pair that is not active is started: a new one if its target is empty,
\* an ended one whatever its target holds.  The child inherits the flag.
StartTarget ==
  /\ pc = "adding"
  /\ cmd.todo # <<>>
  /\ ~IsActive(cmd.src, Head(cmd.todo))
  /\ \E w \in Workers :
       /\ stage[w] = "none"
       /\ stage' = [stage EXCEPT ![w] = "syncing"]
       /\ pair' = [pair EXCEPT ![w] = <<cmd.src, Head(cmd.todo)>>]
       /\ requested' = [requested EXCEPT ![w] = exit_requested]
       /\ Listed(cmd.src, Head(cmd.todo), TRUE, w)
  /\ NextTarget
  /\ UNCHANGED <<exit_requested, pc, awaited, intr, gone, srcDir, signals, left>>

\* fork fails: a new pair stays listed as one that was ended.
ForkFails ==
  /\ pc = "adding"
  /\ cmd.todo # <<>>
  /\ EntryOf(cmd.src, Head(cmd.todo)) = {}
  /\ Listed(cmd.src, Head(cmd.todo), FALSE, Nobody)
  /\ NextTarget
  /\ UNCHANGED <<exit_requested, pc, awaited, intr, worker, srcDir, signals, left>>

\* kill(SIGTERM): during the initial copy the inherited handler sets the flag,
\* afterwards the signal has its default action.
Terminate_Unheard(w) ==
  /\ stage' = IF stage[w] \in Live \ {"syncing"} THEN [stage EXCEPT ![w] = "zombie"] ELSE stage
  /\ UNCHANGED requested

Terminate(w) ==
  CASE stage[w] = "syncing" -> /\ requested' = [requested EXCEPT ![w] = TRUE]
                               /\ UNCHANGED stage
    [] stage[w] = "zombie"  -> UNCHANGED <<stage, requested>>
    [] OTHER                -> /\ stage' = [stage EXCEPT ![w] = "zombie"]
                               /\ UNCHANGED requested

\* kill and the wait that follows it, for the entry i.
StopWorker(i) ==
  /\ Terminate(Pid(i))
  /\ awaited' = i

EndTarget ==
  /\ pc = "ending"
  /\ cmd.todo # <<>>
  /\ \E i \in EntryOf(cmd.src, Head(cmd.todo)) \cap Active : StopWorker(i)
  /\ pc' = "waiting"
  /\ UNCHANGED <<backups, exit_requested, cmd, intr, pair, gone, srcDir, signals, left>>

\* No active backup of that name, or the path does not resolve.
NothingToEnd ==
  /\ pc = "ending"
  /\ cmd.todo # <<>>
  /\ NextTarget
  /\ UNCHANGED <<backups, exit_requested, pc, awaited, intr,
                 worker, srcDir, signals, left>>

\* waitpid returns the child, whose number is free again, or EINTR, and nobody
\* looks which it was.
WaitReturns(w) ==
  /\ \/ /\ stage[w] = "zombie"
        /\ stage' = [stage EXCEPT ![w] = "none"]
        /\ pair' = [pair EXCEPT ![w] = NoPair]
        /\ requested' = [requested EXCEPT ![w] = FALSE]
        /\ gone' = [gone EXCEPT ![w] = "nothing"]
        /\ left' = left \ {w}
     \/ intr /\ left' = left \cup {w} /\ UNCHANGED worker
  /\ intr' = FALSE
  /\ UNCHANGED <<srcDir, signals>>

Deactivate_Forgotten(i) == UNCHANGED backups

Deactivate(i) == backups' = [backups EXCEPT ![i].active = FALSE]

WorkerEnded ==
  /\ pc = "waiting"
  /\ WaitReturns(Pid(awaited))
  /\ Deactivate(awaited)
  /\ awaited' = 0
  /\ NextTarget
  /\ pc' = "ending"
  /\ UNCHANGED exit_requested

\* restore_entry makes a source that vanished again; the worker of the pair, if
\* there is one, goes on.
Restore ==
  /\ pc = "restoring"
  /\ \/ UNCHANGED srcDir
     \/ srcDir' = [srcDir EXCEPT ![cmd.src] = TRUE]
  /\ Again
  /\ UNCHANGED <<backups, exit_requested, awaited, intr, worker, signals, left>>

\* cleanup: one active entry after another is stopped and waited for.
CleanupStop ==
  /\ pc = "cleanup"
  /\ \E i \in Active : (\A j \in Active : i <= j) /\ StopWorker(i)
  /\ pc' = "joining"
  /\ UNCHANGED <<backups, exit_requested, cmd, intr, pair, gone, srcDir, signals, left>>

CleanupJoin ==
  /\ pc = "joining"
  /\ WaitReturns(Pid(awaited))
  /\ Deactivate(awaited)
  /\ awaited' = 0
  /\ pc' = "cleanup"
  /\ UNCHANGED <<exit_requested, cmd>>

Return ==
  /\ pc = "cleanup"
  /\ Active = {}
  /\ backups' = <<>>
  /\ pc' = "done"
  /\ UNCHANGED <<exit_requested, cmd, awaited, intr, worker, srcDir, signals, left>>

-----------------------------------------------------------------------------
(* The workers.                                                            *)

WorkerAt(w, from, to) ==
  /\ stage[w] = from
  /\ stage' = [stage EXCEPT ![w] = to]

WorkerOnly == UNCHANGED <<parent, requested, pair, gone, srcDir, signals, left>>

\* sync_directories; then SIGTERM gets its default action.
Sync(w) ==
  /\ WorkerAt(w, "syncing", "watching") \/ WorkerAt(w, "syncing", "zombie")
  /\ WorkerOnly

\* inotify_init and the watches, which need the source.
Watch(w) ==
  /\ \/ WorkerAt(w, "watching", "test") /\ srcDir[pair[w][1]]
     \/ WorkerAt(w, "watching", "zombie")
  /\ WorkerOnly

\* The flag is tested before each read.
TestFlag(w) ==
  /\ WorkerAt(w, "test", IF requested[w] THEN "zombie" ELSE "reading")
  /\ WorkerOnly

\* read returns events, and the end of a watched directory may be one of them.
ReadEvents(w) ==
  /\ WorkerAt(w, "reading", IF gone[w] = "nothing" THEN "handling" ELSE "leaving")
  /\ WorkerOnly

\* The flag is tested before each event too.
HandleEvents(w) ==
  /\ WorkerAt(w, "handling", IF requested[w] THEN "zombie" ELSE "test")
  /\ WorkerOnly

\* The branch for DELETE_SELF and MOVE_SELF, or the flag before it.
SourceRemoved(w) ==
  /\ WorkerAt(w, "leaving", "zombie")
  /\ WorkerOnly

-----------------------------------------------------------------------------
(* What comes from outside.                                                *)

Watching(w, s) == stage[w] \in {"test", "reading", "handling"} /\ pair[w][1] = s

RemoveSource(s) ==
  /\ srcDir[s]
  /\ srcDir' = [srcDir EXCEPT ![s] = FALSE]
  /\ gone' = [w \in Workers |-> IF Watching(w, s) THEN "source" ELSE gone[w]]
  /\ UNCHANGED <<parent, stage, requested, pair, signals, left>>

RemoveSubdirectory(s) ==
  /\ srcDir[s]
  /\ gone' = [w \in Workers |-> IF Watching(w, s) /\ gone[w] = "nothing"
                              THEN "subdirectory" ELSE gone[w]]
  /\ UNCHANGED <<parent, stage, requested, pair, srcDir, signals, left>>

MakeSource(s) ==
  /\ ~srcDir[s]
  /\ srcDir' = [srcDir EXCEPT ![s] = TRUE]
  /\ UNCHANGED <<parent, worker, signals, left>>

\* on_signal in the supervisor: getline fails and the loop is left.
InSupervisor ==
  /\ signals < MaxSignals /\ pc # "done"
  /\ signals' = signals + 1
  /\ exit_requested' = TRUE
  /\ \/ UNCHANGED <<pc, intr>>
     \/ pc = "prompt" /\ pc' = "cleanup" /\ UNCHANGED intr
     \/ pc \in {"waiting", "joining"} /\ intr' = TRUE /\ UNCHANGED pc
  /\ UNCHANGED <<backups, cmd, awaited, pair, gone, srcDir, left>>

TermSupervisor == InSupervisor /\ UNCHANGED <<stage, requested>>

\* Control-C.  A worker that is blocked in read is woken, one on its way there
\* is not.
ControlC(woken) ==
  /\ InSupervisor
  /\ woken \subseteq {w \in Workers : stage[w] = "reading"}
  /\ stage' = [w \in Workers |-> IF w \in woken THEN "test" ELSE stage[w]]
  /\ requested' = [w \in Workers |-> requested[w] \/ IsLive(w)]

ParentStep ==
  \/ AllDone \/ RefuseTarget \/ StartTarget \/ ForkFails \/ EndTarget
  \/ NothingToEnd \/ WorkerEnded \/ Restore \/ CleanupStop \/ CleanupJoin \/ Return

WorkerStep(w) ==
  Sync(w) \/ Watch(w) \/ TestFlag(w) \/ HandleEvents(w) \/ SourceRemoved(w)

User ==
  \/ TypeExit
  \/ \E op \in {"list", "add", "end", "restore"}, s \in Sources, todo \in Todos :
       TypeCommand(op, s, todo)
  \/ \E s \in Sources : RemoveSource(s) \/ RemoveSubdirectory(s) \/ MakeSource(s)
  \/ TermSupervisor \/ \E woken \in SUBSET Workers : ControlC(woken)

Next ==
  \/ ParentStep
  \/ User
  \/ \E w \in Workers : WorkerStep(w) \/ ReadEvents(w)

Spec == Init /\ [][Next]_vars

\* The processes run; nobody has to type anything or to touch the source.
FairSpec == Spec /\ WF_vars(ParentStep) /\ \A w \in Workers : WF_vars(WorkerStep(w))

-----------------------------------------------------------------------------
(* Properties.                                                             *)

\* The process of an active entry is a child of its own pair that was not
\* reaped, dead or alive: kill and waitpid never meet somebody else's number.
ActiveAreChildren ==
  \A i \in Active : pair[Pid(i)] = <<backups[i].src, backups[i].dst>>

\* The pair of each worker that runs, the pair that is being restored, the
\* workers whose wait was given up, the program.
Serves  == [w \in Workers |-> IF IsLive(w) THEN {pair[w]} ELSE {}]
Writing == IF pc = "restoring" THEN {<<cmd.src, Head(cmd.todo)>>} ELSE {}
Overdue == {w \in left : IsLive(w)}
Open    == pc # "done"

\* What the user is promised of the pairs (module BackupService), though an ended pair
\* may be started again at once, one command may name it twice and nobody is told when
\* a worker dies.  A restore goes on beside the worker of its pair.
Service == INSTANCE BackupService WITH
  Pairs <- Sources \X Targets, RestoreStops <- FALSE, serves <- Serves,
  writing <- Writing, interrupted <- intr, overdue <- Overdue, unlisted <- {},
  open <- Open

ServiceSpec == Service!Spec

\* Waiting for a worker ends, and so does the program: here no SIGTERM is lost,
\* neither during the initial copy nor just before a read.
WaitsEnd == pc \in {"waiting", "cleanup", "joining"} ~> pc \in {"ending", "done"}

-----------------------------------------------------------------------------
(* The inductive invariant.                                                *)

\* A pair is listed once.
UniquePairs ==
  \A i, j \in DOMAIN backups :
    backups[i].src = backups[j].src /\ backups[i].dst = backups[j].dst => i = j

\* The numbers that are in use have a pair.
NumbersInUse == \A w \in Workers : stage[w] = "none" <=> pair[w] = NoPair

\* An active entry names a worker process.
PidsAreWorkers == \A i \in Active : Pid(i) \in Workers

\* A worker that runs is in an active entry, or its waitpid was interrupted.
UnlistedWereLeft ==
  \A w \in Workers : IsLive(w) => w \in left \/ \E i \in Active : Pid(i) = w

\* The entry whose worker is awaited is active, and a restore has a target to do.
AwaitedInv ==
  /\ pc \in {"waiting", "joining"} => awaited \in Active
  /\ pc \in {"waiting", "restoring"} => cmd.todo # <<>>

\* A signal that interrupts a wait has set the flag: no worker is started any more.
LeavingInv ==
  intr \/ left # {} =>
    exit_requested /\ pc \in {"ending", "waiting", "cleanup", "joining", "done"}

\* The inductive invariant: each part alone is not inductive.
IndInv ==
  /\ TypeOK
  /\ UniquePairs /\ NumbersInUse /\ PidsAreWorkers /\ ActiveAreChildren /\ UnlistedWereLeft
  /\ AwaitedInv /\ LeavingInv
=============================================================================
